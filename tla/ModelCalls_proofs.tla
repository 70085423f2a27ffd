--------------------------- MODULE ModelCalls_proofs ---------------------------
(***************************************************************************)
(* Theorems of the model's callers, for any calls, keys, messages, windows *)
(* and bounds, in three parts: ProactiveScheduler, GroupContextSummary and *)
(* ModelCalls, which composes them.  Each of the first two has a lemma for *)
(* every step, and the third one takes its own steps apart into theirs.    *)
(***************************************************************************)
EXTENDS ModelCalls, WellFoundedInduction, TLAPS


------------------------------------------------------------------------------
(***************************************************************************)
(* ProactiveScheduler.  Held states QueuesHoldWaiting for queues, states and*)
(* a running call that are not yet those of a state of the system: a step  *)
(* first adds a call or settles the running one and then lets the next one *)
(* start.                                                                  *)
(***************************************************************************)

Statuses == {"new", "queued", "running", "resolved", "rejected"}
Settled == {"new", "resolved", "rejected"}

In(q, p, i, c) == i \in 1..Len(q[p]) /\ q[p][i] = c

Held(q, st, r) ==
  \A c \in Calls :
    /\ st[c] = "running" <=> r = c
    /\ st[c] = "queued" <=> \E p \in Priorities, i \in Nat : In(q, p, i, c)
    /\ \A p1, p2 \in Priorities, i1, i2 \in Nat :
         In(q, p1, i1, c) /\ In(q, p2, i2, c) => p1 = p2 /\ i1 = i2

\* A waiting summary has seen no more freshness calls than were counted.
Counted == overtaken <= burst /\ overtaken <= Burst

IInv == TypeOK /\ Held(queues, state, running) /\ NobodyWaitsIdle /\ Counted

------------------------------------------------------------------------------
(* The choice of the next queue *)

\* #next finds a queue with a call in it, or there is none.
LEMMA NextHasCall ==
  ASSUME NEW q, NEW n
  PROVE  /\ NextPriority(q, n) \in Priorities \cup {"none"}
         /\ NextPriority(q, n) # "none" => q[NextPriority(q, n)] # <<>>
         /\ NextPriority(q, n) = "none" => \A p \in Priorities : q[p] = <<>>
BY DEF NextPriority, SummaryTurn, Waiting, Priorities

\* A freshness call goes before a waiting summary only in the burst.
LEMMA FreshnessInBurst ==
  ASSUME NEW q, NEW n \in Nat, NextPriority(q, n) = "freshness", q["summary"] # <<>>
  PROVE  n < Burst
BY ConstantsAssumption DEF NextPriority, SummaryTurn, Waiting

------------------------------------------------------------------------------
(* What the three changes of the queues keep *)

\* A call that was not known is put at the end of a queue.
LEMMA HeldAppend ==
  ASSUME NEW q \in [Priorities -> Seq(Calls)], NEW st \in [Calls -> Statuses],
         NEW r, NEW c \in Calls, NEW p \in Priorities,
         Held(q, st, r), st[c] \notin {"queued", "running"}
  PROVE  Held([q EXCEPT ![p] = Append(@, c)], [st EXCEPT ![c] = "queued"], r)
<1> DEFINE q2 == [q EXCEPT ![p] = Append(@, c)]
           st2 == [st EXCEPT ![c] = "queued"]
<1>1. \A x \in Priorities : x # p => q2[x] = q[x]
  OBVIOUS
<1>2. /\ q2[p] = Append(q[p], c) /\ Len(q2[p]) = Len(q[p]) + 1 /\ Len(q[p]) \in Nat
      /\ \A i \in 1..Len(q[p]) : q2[p][i] = q[p][i]
      /\ q2[p][Len(q[p]) + 1] = c
  OBVIOUS
<1>3. \A x \in Priorities, i \in Nat : ~In(q, x, i, c)
  BY DEF Held
<1>4. st2[c] = "queued" /\ \A d \in Calls : d # c => st2[d] = st[d]
  OBVIOUS
<1> HIDE DEF q2, st2
<1>5. \A x \in Priorities, i \in Nat, d \in Calls : d # c =>
        (In(q2, x, i, d) <=> In(q, x, i, d))
  <2> SUFFICES ASSUME NEW x \in Priorities, NEW i \in Nat, NEW d \in Calls, d # c
               PROVE  In(q2, x, i, d) <=> In(q, x, i, d)
    OBVIOUS
  <2>1. CASE x # p
    BY <1>1, <2>1 DEF In
  <2>2. CASE x = p /\ i = Len(q[p]) + 1
    BY <1>2, <2>2 DEF In
  <2>3. CASE x = p /\ i # Len(q[p]) + 1
    <3>1. i \in 1..Len(q2[p]) <=> i \in 1..Len(q[p])
      BY <1>2, <2>3
    <3>2. i \in 1..Len(q[p]) => q2[p][i] = q[p][i]
      BY <1>2
    <3> QED BY <2>3, <3>1, <3>2 DEF In
  <2> QED BY <2>1, <2>2, <2>3
<1>6. \A x \in Priorities, i \in Nat : In(q2, x, i, c) <=> x = p /\ i = Len(q[p]) + 1
  <2> SUFFICES ASSUME NEW x \in Priorities, NEW i \in Nat
               PROVE  In(q2, x, i, c) <=> x = p /\ i = Len(q[p]) + 1
    OBVIOUS
  <2>1. CASE x # p
    BY <1>1, <1>3, <2>1 DEF In
  <2>2. CASE x = p /\ i = Len(q[p]) + 1
    BY <1>2, <2>2 DEF In
  <2>3. CASE x = p /\ i # Len(q[p]) + 1
    <3>1. i \in 1..Len(q2[p]) => i \in 1..Len(q[p]) /\ q2[p][i] = q[p][i]
      BY <1>2, <2>3
    <3> QED BY <1>3, <2>3, <3>1 DEF In
  <2> QED BY <2>1, <2>2, <2>3
<1>7. ASSUME NEW d \in Calls, d # c
      PROVE  /\ st2[d] = "running" <=> r = d
             /\ st2[d] = "queued" <=> \E x \in Priorities, i \in Nat : In(q2, x, i, d)
             /\ \A p1, p2 \in Priorities, i1, i2 \in Nat :
                  In(q2, p1, i1, d) /\ In(q2, p2, i2, d) => p1 = p2 /\ i1 = i2
  BY <1>4, <1>5, <1>7 DEF Held
<1>8. /\ st2[c] = "running" <=> r = c
      /\ st2[c] = "queued" <=> \E x \in Priorities, i \in Nat : In(q2, x, i, c)
      /\ \A p1, p2 \in Priorities, i1, i2 \in Nat :
           In(q2, p1, i1, c) /\ In(q2, p2, i2, c) => p1 = p2 /\ i1 = i2
  <2>1. Len(q[p]) + 1 \in Nat
    BY <1>2
  <2>2. st2[c] = "running" <=> r = c
    BY <1>4 DEF Held
  <2> QED BY <1>4, <1>6, <2>1, <2>2
<1>9. Held(q2, st2, r)
  <2> SUFFICES ASSUME NEW d \in Calls
               PROVE  /\ st2[d] = "running" <=> r = d
                      /\ st2[d] = "queued" <=> \E x \in Priorities, i \in Nat : In(q2, x, i, d)
                      /\ \A p1, p2 \in Priorities, i1, i2 \in Nat :
                           In(q2, p1, i1, d) /\ In(q2, p2, i2, d) => p1 = p2 /\ i1 = i2
    BY DEF Held
  <2>1. CASE d = c
    BY <1>8, <2>1
  <2>2. CASE d # c
    BY <1>7, <2>2
  <2> QED BY <2>1, <2>2
<1> QED BY <1>9 DEF q2, st2

\* The running call is settled.
LEMMA HeldSettle ==
  ASSUME NEW q, NEW st \in [Calls -> Statuses], NEW r \in Calls,
         NEW result \in Settled, Held(q, st, r)
  PROVE  Held(q, [st EXCEPT ![r] = result], None)
<1>1. \A d \in Calls : d # None
  BY ConstantsAssumption
<1> QED BY <1>1 DEF Held, Settled

\* The first call of a queue starts.
LEMMA HeldStart ==
  ASSUME NEW q \in [Priorities -> Seq(Calls)], NEW st \in [Calls -> Statuses],
         NEW p \in Priorities, Held(q, st, None), q[p] # <<>>
  PROVE  Held([q EXCEPT ![p] = Tail(@)], [st EXCEPT ![Head(q[p])] = "running"], Head(q[p]))
<1> DEFINE h == Head(q[p])
           q2 == [q EXCEPT ![p] = Tail(@)]
           st2 == [st EXCEPT ![h] = "running"]
<1>1. \A x \in Priorities : x # p => q2[x] = q[x]
  OBVIOUS
<1>2. /\ h \in Calls /\ h = q[p][1] /\ Len(q[p]) \in Nat /\ Len(q[p]) >= 1
      /\ Len(q2[p]) = Len(q[p]) - 1
      /\ \A i \in 1..(Len(q[p]) - 1) : q2[p][i] = q[p][i + 1]
  OBVIOUS
<1>3. st2[h] = "running" /\ \A d \in Calls : d # h => st2[d] = st[d]
  BY <1>2
<1>4. \A d \in Calls : st[d] # "running"
  BY ConstantsAssumption DEF Held
<1> HIDE DEF h, q2, st2
<1>5. In(q, p, 1, h)
  BY <1>2 DEF In
<1>6. \A x \in Priorities, i \in Nat : In(q, x, i, h) => x = p /\ i = 1
  BY <1>2, <1>5 DEF Held
<1>7. \A i \in Nat, d \in Calls : In(q2, p, i, d) <=> i >= 1 /\ In(q, p, i + 1, d)
  BY <1>2 DEF In
<1>8. \A x \in Priorities, i \in Nat, d \in Calls : x # p => (In(q2, x, i, d) <=> In(q, x, i, d))
  BY <1>1 DEF In
<1>9. \A x \in Priorities, i \in Nat : ~In(q2, x, i, h)
  BY <1>2, <1>6, <1>7, <1>8
<1>10. ASSUME NEW d \in Calls, d # h
       PROVE  /\ st2[d] = "running" <=> h = d
              /\ st2[d] = "queued" <=> \E x \in Priorities, i \in Nat : In(q2, x, i, d)
              /\ \A p1, p2 \in Priorities, i1, i2 \in Nat :
                   In(q2, p1, i1, d) /\ In(q2, p2, i2, d) => p1 = p2 /\ i1 = i2
  <2>1. st2[d] = "running" <=> h = d
    BY <1>3, <1>4, <1>10
  <2>2. ASSUME NEW x \in Priorities, NEW i \in Nat, In(q2, x, i, d)
        PROVE  \E j \in Nat : In(q, x, j, d)
    BY <1>7, <1>8, <2>2
  <2>3. ASSUME NEW x \in Priorities, NEW i \in Nat, In(q, x, i, d)
        PROVE  \E j \in Nat : In(q2, x, j, d)
    <3>1. CASE x # p
      BY <1>8, <2>3, <3>1
    <3>2. CASE x = p
      <4>1. i # 1 /\ i >= 1
        BY <1>2, <1>10, <2>3, <3>2 DEF In
      <4>2. i - 1 \in Nat /\ i - 1 >= 1 /\ (i - 1) + 1 = i
        BY <4>1
      <4> QED BY <1>7, <2>3, <3>2, <4>2
    <3> QED BY <3>1, <3>2
  <2>4. st2[d] = "queued" <=> \E x \in Priorities, i \in Nat : In(q2, x, i, d)
    BY <1>3, <1>10, <2>2, <2>3 DEF Held
  <2>5. ASSUME NEW p1 \in Priorities, NEW p2 \in Priorities, NEW i1 \in Nat, NEW i2 \in Nat,
               In(q2, p1, i1, d), In(q2, p2, i2, d)
        PROVE  p1 = p2 /\ i1 = i2
    <3>1. \A x, y \in Priorities, i, j \in Nat : In(q, x, i, d) /\ In(q, y, j, d) => x = y /\ i = j
      BY DEF Held
    <3>2. p1 = p2
      BY <1>7, <1>8, <2>5, <3>1
    <3>3. CASE p1 = p
      <4>1. In(q, p, i1 + 1, d) /\ In(q, p, i2 + 1, d)
        BY <1>7, <2>5, <3>2, <3>3
      <4>2. i1 + 1 = i2 + 1
        BY <3>1, <4>1
      <4> QED BY <3>2, <4>2
    <3>4. CASE p1 # p
      BY <1>8, <2>5, <3>1, <3>2, <3>4
    <3> QED BY <3>3, <3>4
  <2> QED BY <2>1, <2>4, <2>5
<1>11. /\ st2[h] = "running" <=> h = h
       /\ st2[h] = "queued" <=> \E x \in Priorities, i \in Nat : In(q2, x, i, h)
       /\ \A p1, p2 \in Priorities, i1, i2 \in Nat :
            In(q2, p1, i1, h) /\ In(q2, p2, i2, h) => p1 = p2 /\ i1 = i2
  BY <1>3, <1>9
<1>12. Held(q2, st2, h)
  <2> SUFFICES ASSUME NEW d \in Calls
               PROVE  /\ st2[d] = "running" <=> h = d
                      /\ st2[d] = "queued" <=> \E x \in Priorities, i \in Nat : In(q2, x, i, d)
                      /\ \A p1, p2 \in Priorities, i1, i2 \in Nat :
                           In(q2, p1, i1, d) /\ In(q2, p2, i2, d) => p1 = p2 /\ i1 = i2
    BY DEF Held
  <2>1. CASE d = h
    BY <1>11, <2>1
  <2>2. CASE d # h
    BY <1>10, <2>2
  <2> QED BY <2>1, <2>2
<1> QED BY <1>12 DEF h, q2, st2

------------------------------------------------------------------------------
(* The invariant *)

\* Whatever the queues are when #drain goes on, it leaves a state of the
\* invariant.
LEMMA StartKeeps ==
  ASSUME NEW q \in [Priorities -> Seq(Calls)], NEW st \in [Calls -> Statuses],
         Held(q, st, None), TypeOK, Counted, StartNext(q, st)
  PROVE  IInv'
<1> PICK p : p = NextPriority(q, burst)
  OBVIOUS
<1>1. p \in Priorities \cup {"none"} /\ (p # "none" => q[p] # <<>>)
      /\ (p = "none" => \A x \in Priorities : q[x] = <<>>)
  BY NextHasCall
<1>2. CASE p = "none"
  <2>1. running' = None /\ queues' = q /\ state' = st /\ aborted' = FALSE
        /\ burst' = burst /\ overtaken' = overtaken
    BY <1>2 DEF StartNext
  <2>2. Held(queues', state', running')
    BY <2>1
  <2>3. TypeOK' /\ NobodyWaitsIdle' /\ Counted'
    BY <1>1, <1>2, <2>1 DEF TypeOK, Statuses, NobodyWaitsIdle, Counted
  <2> QED BY <2>2, <2>3 DEF IInv, Held
<1>3. CASE p # "none"
  <2>1. /\ running' = Head(q[p]) /\ aborted' = FALSE
        /\ queues' = [q EXCEPT ![p] = Tail(@)]
        /\ state' = [st EXCEPT ![Head(q[p])] = "running"]
        /\ burst' = BurstAfter(p)
        /\ overtaken' = CASE p = "summary" -> 0
                          [] p = "freshness" /\ Waiting(q, "summary") -> overtaken + 1
                          [] OTHER -> overtaken
    BY <1>3 DEF StartNext
  <2>2. p \in Priorities /\ q[p] # <<>> /\ Head(q[p]) \in Calls /\ Tail(q[p]) \in Seq(Calls)
    BY <1>1, <1>3
  <2>3. Held(queues', state', running')
    BY <2>1, <2>2, HeldStart
  <2>4. /\ queues' \in [Priorities -> Seq(Calls)]
        /\ state' \in [Calls -> {"new", "queued", "running", "resolved", "rejected"}]
        /\ running' \in Calls \cup {None} /\ aborted' \in BOOLEAN
    BY <2>1, <2>2 DEF Statuses
  <2>5. burst' \in Nat /\ overtaken' \in Nat /\ Counted'
    <3>1. burst \in Nat /\ overtaken \in Nat /\ Burst \in Nat
          /\ overtaken <= burst /\ overtaken <= Burst
      BY ConstantsAssumption DEF TypeOK, Counted
    <3>2. CASE p = "summary"
      BY <2>1, <3>1, <3>2 DEF BurstAfter, Counted
    <3>3. CASE p = "freshness"
      <4>1. burst' = IF burst < Burst THEN burst + 1 ELSE burst
        BY <2>1, <3>3 DEF BurstAfter
      <4>2. CASE Waiting(q, "summary")
        <5>1. burst < Burst
          BY <3>1, <3>3, <4>2, FreshnessInBurst DEF Waiting
        <5>2. overtaken' = overtaken + 1
          BY <2>1, <3>3, <4>2
        <5> QED BY <3>1, <4>1, <5>1, <5>2 DEF Counted
      <4>3. CASE ~Waiting(q, "summary")
        <5>1. overtaken' = overtaken
          BY <2>1, <3>3, <4>3
        <5> QED BY <3>1, <4>1, <5>1 DEF Counted
      <4> QED BY <4>2, <4>3
    <3>4. CASE p # "summary" /\ p # "freshness"
      BY <2>1, <3>1, <3>4 DEF BurstAfter, Counted
    <3> QED BY <3>2, <3>3, <3>4
  <2>6. NobodyWaitsIdle'
    BY <2>1, <2>2, ConstantsAssumption DEF NobodyWaitsIdle
  <2> QED BY <2>3, <2>4, <2>5, <2>6 DEF IInv, TypeOK, Held
<1> QED BY <1>2, <1>3

LEMMA InvInit == Init => IInv
<1> SUFFICES ASSUME Init PROVE IInv
  OBVIOUS
<1>1. TypeOK /\ NobodyWaitsIdle /\ Counted
  <2>1. queues \in [Priorities -> Seq(Calls)]
    BY DEF Init
  <2>2. state \in [Calls -> {"new", "queued", "running", "resolved", "rejected"}]
    BY DEF Init
  <2>3. running = None /\ aborted = FALSE /\ burst = 0 /\ overtaken = 0
        /\ \A p \in Priorities : queues[p] = <<>>
    BY DEF Init
  <2>4. TypeOK
    BY <2>1, <2>2, <2>3 DEF TypeOK
  <2> QED BY <2>3, <2>4, ConstantsAssumption DEF NobodyWaitsIdle, Counted
<1>2. \A p \in Priorities : queues[p] = <<>> /\ Len(queues[p]) = 0
  BY DEF Init
<1>3. \A p \in Priorities, i \in Nat, c \in Calls : ~In(queues, p, i, c)
  BY <1>2 DEF In
<1>4. \A c \in Calls : state[c] = "new" /\ running # c
  BY ConstantsAssumption DEF Init
<1>5. Held(queues, state, running)
  BY <1>3, <1>4 DEF Held
<1> QED BY <1>1, <1>5 DEF IInv

\* Nobody but the first call of a queue notices that #drain goes on.
LEMMA StartChanges ==
  ASSUME NEW q \in [Priorities -> Seq(Calls)], NEW st \in [Calls -> Statuses],
         Held(q, st, None), StartNext(q, st)
  PROVE  /\ aborted' = FALSE
         /\ \A d \in Calls : state'[d] = st[d] \/ (st[d] = "queued" /\ state'[d] = "running")
<1> PICK p : p = NextPriority(q, burst)
  OBVIOUS
<1>1. p \in Priorities \cup {"none"} /\ (p # "none" => q[p] # <<>>)
  BY NextHasCall
<1>2. CASE p = "none"
  <2>1. aborted' = FALSE /\ state' = st
    BY <1>2 DEF StartNext
  <2> QED BY <2>1
<1>3. CASE p # "none"
  <2> DEFINE h == Head(q[p])
  <2>1. p \in Priorities /\ q[p] # <<>> /\ q[p] \in Seq(Calls)
    BY <1>1, <1>3
  <2>2. h \in Calls /\ Len(q[p]) >= 1 /\ h = q[p][1] /\ Len(q[p]) \in Nat
    BY <2>1
  <2>3. In(q, p, 1, h)
    BY <2>2 DEF In
  <2>4. st[h] = "queued"
    BY <2>1, <2>2, <2>3 DEF Held
  <2>5. state' = [st EXCEPT ![h] = "running"] /\ aborted' = FALSE
    BY <1>3 DEF StartNext
  <2> HIDE DEF h
  <2>6. ASSUME NEW d \in Calls
        PROVE  state'[d] = st[d] \/ (st[d] = "queued" /\ state'[d] = "running")
    <3>1. CASE d = h
      BY <2>4, <2>5, <3>1
    <3>2. CASE d # h
      BY <2>5, <3>2
    <3> QED BY <3>1, <3>2
  <2> QED BY <2>5, <2>6
<1> QED BY <1>2, <1>3

\* schedule: the new call waits or runs, and at most one that waited starts.
LEMMA ScheduleStep ==
  ASSUME IInv, NEW c \in Calls, NEW p \in Priorities, Schedule(c, p)
  PROVE  /\ IInv'
         /\ state'[c] \in {"queued", "running"}
         /\ \A d \in Calls \ {c} :
              state'[d] = state[d] \/ (state[d] = "queued" /\ state'[d] = "running")
         /\ aborted' = IF running = None THEN FALSE ELSE aborted
<1> USE DEF Statuses
<1> PICK q : q = [queues EXCEPT ![p] = Append(@, c)]
  OBVIOUS
<1> PICK st : st = [state EXCEPT ![c] = "queued"]
  OBVIOUS
<1>1. q \in [Priorities -> Seq(Calls)] /\ st \in [Calls -> Statuses]
  BY DEF IInv, TypeOK
<1>2. Held(q, st, running)
  BY HeldAppend DEF IInv, TypeOK, Schedule
<1>3. st[c] = "queued" /\ \A d \in Calls \ {c} : st[d] = state[d]
  BY DEF IInv, TypeOK
<1>4. CASE running = None
  <2>1. StartNext(q, st)
    BY <1>4 DEF Schedule
  <2>2. IInv'
    BY <1>1, <1>2, <1>4, <2>1, StartKeeps DEF IInv
  <2>3. /\ aborted' = FALSE
        /\ \A d \in Calls : state'[d] = st[d] \/ (st[d] = "queued" /\ state'[d] = "running")
    BY <1>1, <1>2, <1>4, <2>1, StartChanges
  <2>4. aborted' = IF running = None THEN FALSE ELSE aborted
    BY <1>4, <2>3
  <2> QED BY <1>3, <2>2, <2>3, <2>4
<1>5. CASE running # None
  <2>1. queues' = q /\ state' = st
        /\ UNCHANGED <<running, burst, aborted, overtaken>>
    BY <1>5 DEF Schedule
  <2>2. Held(queues', state', running')
    BY <1>2, <2>1
  <2>3. TypeOK' /\ NobodyWaitsIdle' /\ Counted'
    BY <1>1, <1>5, <2>1 DEF IInv, TypeOK, NobodyWaitsIdle, Counted
  <2>4. IInv'
    BY <2>2, <2>3 DEF IInv, Held
  <2>5. aborted' = IF running = None THEN FALSE ELSE aborted
    BY <1>5, <2>1
  <2> QED BY <1>3, <2>1, <2>4, <2>5
<1> QED BY <1>4, <1>5

\* The running call ends, and at most one that waited starts.
LEMMA FinishStep ==
  ASSUME IInv, NEW result \in Settled, Finish(result)
  PROVE  /\ IInv' /\ running \in Calls
         /\ state'[running] = result
         /\ \A d \in Calls \ {running} :
              state'[d] = state[d] \/ (state[d] = "queued" /\ state'[d] = "running")
         /\ aborted' = FALSE
<1> PICK st : st = [state EXCEPT ![running] = result]
  OBVIOUS
<1>1. running \in Calls /\ state \in [Calls -> Statuses]
  BY DEF IInv, TypeOK, Finish, Statuses
<1>2. st \in [Calls -> Statuses]
  BY <1>1 DEF Statuses, Settled
<1>3. Held(queues, st, None)
  BY <1>1, HeldSettle DEF IInv
<1>4. StartNext(queues, st) /\ queues \in [Priorities -> Seq(Calls)]
  BY DEF Finish, IInv, TypeOK
<1>5. IInv'
  BY <1>2, <1>3, <1>4, StartKeeps DEF IInv, TypeOK
<1>6. /\ aborted' = FALSE
      /\ \A d \in Calls : state'[d] = st[d] \/ (st[d] = "queued" /\ state'[d] = "running")
  BY <1>2, <1>3, <1>4, StartChanges
<1>7. st[running] = result /\ \A d \in Calls \ {running} : st[d] = state[d]
  BY <1>1
<1>8. result # "queued"
  BY DEF Settled
<1> QED BY <1>1, <1>5, <1>6, <1>7, <1>8

LEMMA AbortStep == IInv /\ AbortAll => IInv'
<1> SUFFICES ASSUME IInv, AbortAll PROVE IInv'
  OBVIOUS
<1> USE DEF Statuses
<1>1. \A p \in Priorities : queues'[p] = <<>> /\ Len(queues'[p]) = 0
  BY DEF AbortAll
<1>2. \A p \in Priorities, i \in Nat, c \in Calls : ~In(queues', p, i, c)
  BY <1>1 DEF In
<1>3. running' = running /\ \A c \in Calls :
        state'[c] # "queued" /\ (state'[c] = "running" <=> state[c] = "running")
  BY DEF AbortAll, RejectWaiting
<1>4. Held(queues', state', running')
  BY <1>2, <1>3 DEF IInv, Held
<1>5. TypeOK' /\ NobodyWaitsIdle' /\ Counted'
  <2>1. queues' \in [Priorities -> Seq(Calls)]
    BY DEF AbortAll
  <2>2. state' \in [Calls -> Statuses]
    BY DEF AbortAll, RejectWaiting, IInv, TypeOK
  <2> QED BY <1>1, <2>1, <2>2 DEF AbortAll, IInv, TypeOK, NobodyWaitsIdle, Counted
<1> QED BY <1>4, <1>5 DEF IInv, Held

LEMMA StutterStep == IInv /\ UNCHANGED vars => IInv'
  BY DEF vars, IInv, TypeOK, Held, In, NobodyWaitsIdle, Counted

LEMMA InvNext == IInv /\ [Next]_vars => IInv'
<1> SUFFICES ASSUME IInv, [Next]_vars PROVE IInv'
  OBVIOUS
<1>1. ASSUME NEW c \in Calls, NEW p \in Priorities, Schedule(c, p) PROVE IInv'
  BY <1>1, ScheduleStep
<1>2. ASSUME NEW result \in {"resolved", "rejected"}, Finish(result) PROVE IInv'
  BY <1>2, FinishStep DEF Settled
<1> QED BY <1>1, <1>2, AbortStep, StutterStep DEF Next

\* Held says for the variables what QueuesHoldWaiting says.
LEMMA QueuesFromInv == IInv => QueuesHoldWaiting
<1> SUFFICES ASSUME IInv PROVE QueuesHoldWaiting
  OBVIOUS
<1>1. \A p \in Priorities : Len(queues[p]) \in Nat
  BY DEF IInv, TypeOK
<1>2. \A p \in Priorities, c \in Calls :
        \A i \in 1..Len(queues[p]) : queues[p][i] = c <=> In(queues, p, i, c)
  BY <1>1 DEF In
<1>3. \A p \in Priorities : \A i \in 1..Len(queues[p]) : i \in Nat
  BY <1>1
<1> SUFFICES ASSUME NEW c \in Calls
             PROVE  /\ state[c] = "running" <=> running = c
                    /\ state[c] = "queued" <=>
                         \E p \in Priorities : \E i \in 1..Len(queues[p]) : queues[p][i] = c
                    /\ \A p, r \in Priorities :
                         \A i \in 1..Len(queues[p]), j \in 1..Len(queues[r]) :
                           queues[p][i] = c /\ queues[r][j] = c => p = r /\ i = j
  BY DEF QueuesHoldWaiting
<1>4. state[c] = "running" <=> running = c
  BY DEF IInv, Held
<1>5. state[c] = "queued" <=>
        \E p \in Priorities : \E i \in 1..Len(queues[p]) : queues[p][i] = c
  BY <1>2, <1>3 DEF IInv, Held, In
<1>6. ASSUME NEW p \in Priorities, NEW r \in Priorities,
             NEW i \in 1..Len(queues[p]), NEW j \in 1..Len(queues[r]),
             queues[p][i] = c, queues[r][j] = c
      PROVE  p = r /\ i = j
  BY <1>2, <1>3, <1>6 DEF IInv, Held
<1> QED BY <1>4, <1>5, <1>6

LEMMA Invariant == Spec => []IInv
BY InvInit, InvNext, PTL DEF Spec

------------------------------------------------------------------------------
(* Theorems *)

\* The queues and promises keep their types.
THEOREM TypeCorrect == Spec => []TypeOK
<1>1. IInv => TypeOK
  BY DEF IInv
<1> QED BY <1>1, Invariant, PTL

\* SummaryWaitsForBurst: a summary that waits (proactive-scheduler.ts:66) sees
\* at most Burst freshness calls go first, however many are scheduled.
THEOREM NoStarvation == Spec => []SummaryWaitsForBurst
<1>1. IInv => SummaryWaitsForBurst
  BY DEF IInv, Counted, SummaryWaitsForBurst
<1> QED BY <1>1, Invariant, PTL

\* NobodyWaitsIdle: no order of schedule, abortAll and ends of calls leaves a
\* call in a queue while #drain does not run.
THEOREM NoLostWakeup == Spec => []NobodyWaitsIdle
<1>1. IInv => NobodyWaitsIdle
  BY DEF IInv
<1> QED BY <1>1, Invariant, PTL

\* QueuesHoldWaiting: each call that waits is queued exactly once.
THEOREM QueuesRight == Spec => []QueuesHoldWaiting
<1> QED BY QueuesFromInv, Invariant, PTL

\* SettledOnce: a promise that was resolved or rejected never settles again; its
\* place changes when it is scheduled anew only.
THEOREM SettleOnce == Spec => SettledOnce
<1> DEFINE A == \A c \in Calls : state[c] \in {"resolved", "rejected"} =>
                  state'[c] \in {state[c], "queued", "running"}
<1>1. IInv /\ [Next]_vars => [A]_vars
  <2> SUFFICES ASSUME IInv, Next PROVE A
    BY DEF A
  <2>1. ASSUME NEW c \in Calls, NEW p \in Priorities, Schedule(c, p) PROVE A
    BY <2>1, ScheduleStep DEF A
  <2>2. ASSUME NEW result \in {"resolved", "rejected"}, Finish(result) PROVE A
    <3>1. result \in Settled
      BY DEF Settled
    <3>2. /\ running \in Calls /\ state[running] = "running"
          /\ \A d \in Calls \ {running} :
               state'[d] = state[d] \/ (state[d] = "queued" /\ state'[d] = "running")
      BY <2>2, <3>1, FinishStep DEF IInv, Held
    <3> QED BY <3>2 DEF A
  <2>3. ASSUME AbortAll PROVE A
    BY <2>3 DEF AbortAll, RejectWaiting, A
  <2> QED BY <2>1, <2>2, <2>3 DEF Next
<1>2. Spec => [][A]_vars
  BY <1>1, Invariant, PTL DEF Spec
<1> QED BY <1>2 DEF SettledOnce, A

------------------------------------------------------------------------------
(***************************************************************************)
(* GroupContextSummary.  Each step has a lemma that it keeps SummaryInv.   *)
(***************************************************************************)

\* What a summary of the messages P claims: it begins with the first of them
\* and its text leaves none out.
Covers(s, P) ==
  s = NoSummary \/ (s.from = Min(P) /\ s.through \in P /\ s.text = {m \in P : m <= s.through})

\* The update under way takes up where its previous summary ends.
UpdateRight(u, P) ==
  /\ Covers(u.previous, P)
  /\ u.messages # {}
  /\ u.messages = {m \in P : u.previous.through < m /\ m <= Max(u.messages)}

\* What a context says it knows
ContextRight(x) ==
  ~x.incomplete => x.through <= latest /\ Through(x.through) \subseteq x.summary.text \cup x.messages

SummaryInv ==
  /\ SummaryTypeOK
  /\ Covers(stored, public)
  /\ ~inFlight.done => UpdateRight(inFlight, public)
  /\ \A c \in Callers : waiting[c] <= latest /\ ContextRight(context[c])

------------------------------------------------------------------------------
(* Least and greatest numbers *)

LEMMA MinExists ==
  ASSUME NEW T \in SUBSET Nat, T # {}
  PROVE  Min(T) \in T /\ \A x \in T : Min(T) <= x
<1>1. PICK x \in T : \A y \in T : ~(<<y, x>> \in OpToRel(<, Nat))
  BY NatLessThanWellFounded, WFMin
<1>2. OpToRel(<, Nat) = {ss \in Nat \X Nat : ss[1] < ss[2]}
  BY DEF OpToRel
<1>3. ASSUME NEW y \in T PROVE x <= y
  <2>1. ~(<<y, x>> \in {ss \in Nat \X Nat : ss[1] < ss[2]})
    BY <1>1, <1>2
  <2>2. <<y, x>> \in Nat \X Nat
    OBVIOUS
  <2>3. ~(y < x)
    BY <2>1, <2>2
  <2> QED BY <2>3
<1> QED BY <1>3 DEF Min

LEMMA MaxExists ==
  ASSUME NEW n \in Nat, NEW T \in SUBSET (0..n), T # {}
  PROVE  Max(T) \in T /\ \A x \in T : x <= Max(T)
<1> DEFINE U == {k \in Nat : n - k \in T}
<1>1. \A x \in T : n - x \in U
  OBVIOUS
<1>2. U \in SUBSET Nat /\ U # {}
  BY <1>1
<1>3. PICK k \in U : \A j \in U : k <= j
  <2> HIDE DEF U
  <2> QED BY <1>2, MinExists
<1>4. n - k \in T /\ \A x \in T : x <= n - k
  BY <1>1, <1>3
<1> QED BY <1>4 DEF Max

------------------------------------------------------------------------------
(* Summaries and contexts *)

\* A message that comes behind all others changes nothing of what is covered.
LEMMA CoversMore ==
  ASSUME NEW n \in Nat, NEW P \in SUBSET (1..n), NEW s, Covers(s, P)
  PROVE  Covers(s, P \cup {n + 1})
<1>1. CASE s = NoSummary
  BY <1>1 DEF Covers
<1>2. CASE s # NoSummary
  <2> DEFINE Q == P \cup {n + 1}
  <2>1. s.from = Min(P) /\ s.through \in P /\ s.text = {m \in P : m <= s.through}
    BY <1>2 DEF Covers
  <2>2. P \in SUBSET Nat /\ P # {} /\ Q \in SUBSET Nat /\ Q # {}
    BY <2>1
  <2>3. /\ Min(P) \in P /\ \A x \in P : Min(P) <= x
        /\ Min(Q) \in Q /\ \A x \in Q : Min(Q) <= x
    <3> HIDE DEF Q
    <3> QED BY <2>2, MinExists
  <2>4. Min(Q) = Min(P)
    <3> HIDE DEF Q
    <3>0. Min(P) \in Q
      BY <2>3 DEF Q
    <3>1. Min(P) \in Q /\ Min(P) < n + 1 /\ Min(P) \in Nat
      <4>1. Min(P) \in 1..n
        BY <2>3
      <4> QED BY <3>0, <4>1
    <3>2. Min(Q) <= Min(P)
      BY <2>3, <3>1
    <3>3. Min(Q) # n + 1
      BY <3>1, <3>2
    <3>4. Min(Q) \in P
      BY <2>3, <3>3 DEF Q
    <3>5. Min(P) <= Min(Q) /\ Min(Q) \in Nat
      BY <2>2, <2>3, <3>4
    <3> QED BY <2>2, <2>3, <3>1, <3>2, <3>5
  <2>5. s.text = {m \in Q : m <= s.through}
    <3>1. s.through \in 1..n
      BY <2>1
    <3>2. ~(n + 1 <= s.through)
      BY <3>1
    <3>3. \A m : m \in Q /\ m <= s.through <=> m \in P /\ m <= s.through
      BY <3>2
    <3> HIDE DEF Q
    <3> QED BY <2>1, <3>3
  <2> QED BY <2>1, <2>4, <2>5 DEF Covers
<1> QED BY <1>1, <1>2

\* A context that does not say it is incomplete covers everything.
LEMMA SnapshotRight ==
  ASSUME SummaryTypeOK, NEW s \in Summaries, Covers(s, public), NEW n \in 0..latest
  PROVE  ContextRight(Snapshot(s, n))
<1> DEFINE x == Snapshot(s, n)
<1>1. CASE Omitted(n) = {}
  BY <1>1 DEF Snapshot, ContextRight, SummaryTypeOK
<1>2. CASE Omitted(n) # {} /\ Valid(s) /\ ~(s.through < Required(n))
  <2>1. x = [through |-> n, summary |-> s, messages |-> Newest(Through(n), Window), incomplete |-> FALSE]
    BY <1>2 DEF Snapshot
  <2>2. s # NoSummary /\ s.text = {m \in public : m <= s.through} /\ s.through \in Nat
    BY <1>2 DEF Valid, Covers, Summaries, SummaryTypeOK
  <2>3. public \in SUBSET (0..latest) /\ latest \in Nat
    BY DEF SummaryTypeOK
  <2>4. Omitted(n) \in SUBSET (0..latest) /\ Omitted(n) \subseteq public
    BY <2>3 DEF Omitted, Through
  <2>5. Required(n) \in Omitted(n) /\ \A m \in Omitted(n) : m <= Required(n)
    BY <1>2, <2>3, <2>4, MaxExists DEF Required
  <2>6. \A m \in Through(n) : m \in Omitted(n) \/ m \in Newest(Through(n), Window)
    BY DEF Omitted
  <2>7. \A m \in Omitted(n) : m \in s.text
    <3>1. SUFFICES ASSUME NEW m \in Omitted(n) PROVE m \in s.text
      OBVIOUS
    <3>2. m \in public /\ m \in Nat /\ Required(n) \in Nat
      BY <2>3, <2>4, <2>5
    <3>3. m <= s.through
      BY <1>2, <2>2, <2>5, <3>2
    <3> QED BY <2>2, <3>2, <3>3
  <2>8. Through(n) \subseteq s.text \cup Newest(Through(n), Window)
    BY <2>6, <2>7
  <2> QED BY <2>1, <2>3, <2>8 DEF ContextRight
<1>3. CASE Omitted(n) # {} /\ ~(Valid(s) /\ ~(s.through < Required(n)))
  BY <1>3 DEF Snapshot, ContextRight
<1> QED BY <1>1, <1>2, <1>3

LEMMA SnapshotType ==
  ASSUME SummaryTypeOK, NEW s \in Summaries, NEW n \in 0..latest
  PROVE  Snapshot(s, n) \in [through : 0..MaxSeq, summary : Summaries, messages : SUBSET Seqs,
                             incomplete : BOOLEAN]
<1>1. NoSummary \in Summaries
  BY SummaryAssumption DEF NoSummary, Summaries
<1>2. Through(n) \in SUBSET Seqs /\ Newest(Through(n), Window) \in SUBSET Seqs
  <2>1. public \in SUBSET Seqs
    BY SummaryAssumption DEF Seqs, SummaryTypeOK
  <2>2. Through(n) \in SUBSET Seqs
    BY <2>1 DEF Through
  <2> QED BY <2>2 DEF Newest
<1>3. n \in 0..MaxSeq
  BY SummaryAssumption DEF SummaryTypeOK
<1>4. CASE Omitted(n) = {}
  BY <1>1, <1>2, <1>3, <1>4 DEF Snapshot
<1>5. CASE Omitted(n) # {}
  <2>1. (~Valid(s) \/ s.through < Required(n)) \in BOOLEAN
    OBVIOUS
  <2>2. (IF Valid(s) THEN s ELSE NoSummary) \in Summaries
    BY <1>1
  <2> QED BY <1>2, <1>3, <1>5, <2>1, <2>2 DEF Snapshot
<1> QED BY <1>4, <1>5

\* The update that an incomplete context calls for
LEMMA UpdateForRight ==
  ASSUME SummaryTypeOK, Covers(stored, public), NEW n \in 1..latest, Snapshot(stored, n).incomplete
  PROVE  /\ UpdateRight(UpdateFor(n), public)
         /\ UpdateFor(n) \in [previous : Summaries, messages : SUBSET Seqs, done : BOOLEAN]
         /\ ~UpdateFor(n).done
<1> DEFINE previous == IF Valid(stored) THEN stored ELSE NoSummary
           messages == Between(previous.through, Required(n))
<1>1. UpdateFor(n) = [previous |-> previous, messages |-> messages, done |-> FALSE]
  BY DEF UpdateFor
<1>2. Omitted(n) # {} /\ (~Valid(stored) \/ stored.through < Required(n))
  BY DEF Snapshot
<1>3. latest \in Nat /\ public \in SUBSET (0..latest) /\ \A m \in public : m > 0
  BY DEF SummaryTypeOK
<1>4. Omitted(n) \in SUBSET (0..latest) /\ Omitted(n) \subseteq public
  BY <1>3 DEF Omitted, Through
<1>5. Required(n) \in public /\ Required(n) \in Nat /\ Required(n) > 0
  <2>1. Required(n) \in Omitted(n)
    BY <1>2, <1>3, <1>4, MaxExists DEF Required
  <2> QED BY <1>3, <1>4, <2>1
<1>6. NoSummary \in Summaries /\ NoSummary.through = 0
  BY SummaryAssumption DEF NoSummary, Summaries
<1>7. previous \in Summaries /\ Covers(previous, public)
  BY <1>6 DEF SummaryTypeOK, Covers
<1>8. previous.through < Required(n)
  BY <1>2, <1>5, <1>6
<1>9. Required(n) \in messages /\ messages \in SUBSET (0..latest) /\ messages \in SUBSET Seqs
  <2>1. \A m \in public : m \in Seqs
    BY SummaryAssumption DEF Seqs, SummaryTypeOK
  <2>2. messages = {m \in public : previous.through < m /\ m <= Required(n)}
    BY DEF Between
  <2>3. Required(n) <= Required(n)
    BY <1>5
  <2> HIDE DEF messages, previous
  <2> QED BY <1>3, <1>5, <1>8, <2>1, <2>2, <2>3
<1>10. Max(messages) = Required(n)
  <2>1. Max(messages) \in messages /\ \A m \in messages : m <= Max(messages)
    <3> HIDE DEF messages
    <3> QED BY <1>3, <1>9, MaxExists
  <2>2. \A m \in messages : m <= Required(n)
    BY DEF Between
  <2>3. messages \in SUBSET Nat
    BY <1>9
  <2>4. Max(messages) <= Required(n) /\ Required(n) <= Max(messages) /\ Max(messages) \in Nat
    <3> HIDE DEF messages
    <3> QED BY <1>9, <2>1, <2>2, <2>3
  <2> HIDE DEF messages
  <2> QED BY <1>5, <2>4
<1>11. messages = {m \in public : previous.through < m /\ m <= Required(n)}
  BY DEF Between
<1> HIDE DEF messages, previous
<1> QED BY <1>1, <1>7, <1>9, <1>10, <1>11 DEF UpdateRight

\* What a successful update stores
LEMMA ExtendedRight ==
  ASSUME SummaryTypeOK, ~inFlight.done, UpdateRight(inFlight, public)
  PROVE  Covers(Extended(inFlight), public) /\ Extended(inFlight) \in Summaries
<1> DEFINE u == inFlight
           s == Extended(u)
<1>1. u.previous \in Summaries /\ u.messages \in SUBSET Seqs /\ prompt \in Nat
  BY DEF SummaryTypeOK
<1>2. latest \in Nat /\ public \in SUBSET (0..latest) /\ public \in SUBSET Nat
  BY DEF SummaryTypeOK
<1>3. u.messages \in SUBSET (0..latest) /\ u.messages # {} /\ u.messages \subseteq public
  BY <1>2 DEF UpdateRight
<1>4. /\ Max(u.messages) \in u.messages /\ \A m \in u.messages : m <= Max(u.messages)
      /\ Min(u.messages) \in u.messages /\ \A m \in u.messages : Min(u.messages) <= m
      /\ Min(public) \in public /\ \A m \in public : Min(public) <= m
  <2>1. u.messages \in SUBSET Nat /\ public # {}
    BY <1>2, <1>3
  <2> QED BY <1>2, <1>3, <2>1, MaxExists, MinExists
<1>5. s = [from |-> IF u.previous # NoSummary THEN u.previous.from ELSE Min(u.messages),
           through |-> Max(u.messages), prompt |-> prompt,
           text |-> u.previous.text \cup u.messages]
  BY DEF Extended
<1>6. u.messages = {m \in public : u.previous.through < m /\ m <= Max(u.messages)}
  BY DEF UpdateRight
<1>7. CASE u.previous = NoSummary
  <2>1. u.previous.through = 0 /\ u.previous.text = {}
    BY <1>7 DEF NoSummary
  <2>2. \A m \in public : m > 0
    BY DEF SummaryTypeOK
  <2>3. u.messages = {m \in public : m <= Max(u.messages)}
    BY <1>2, <1>6, <2>1, <2>2
  <2>4. Min(u.messages) = Min(public)
    BY <1>2, <1>3, <1>4, <2>3
  <2>5. s.from = Min(public) /\ s.through \in public /\ s.text = {m \in public : m <= s.through}
    BY <1>3, <1>4, <1>5, <1>7, <2>1, <2>3, <2>4
  <2>6. s \in Summaries
    <3>1. Min(u.messages) \in 0..MaxSeq /\ Max(u.messages) \in 0..MaxSeq
      BY <1>1, <1>4, SummaryAssumption DEF Seqs
    <3> QED BY <1>1, <1>5, <1>7, <2>1, <3>1 DEF Summaries
  <2> QED BY <2>5, <2>6 DEF Covers
<1>8. CASE u.previous # NoSummary
  <2>1. /\ u.previous.from = Min(public) /\ u.previous.through \in public
        /\ u.previous.text = {m \in public : m <= u.previous.through}
    BY <1>8 DEF UpdateRight, Covers
  <2>2. u.previous.through < Max(u.messages)
    BY <1>4, <1>6
  <2>3. \A m \in public : m <= Max(u.messages) <=> m <= u.previous.through \/ m \in u.messages
    BY <1>2, <1>3, <1>4, <1>6, <2>1, <2>2
  <2>4. s.from = Min(public) /\ s.through \in public /\ s.text = {m \in public : m <= s.through}
    BY <1>3, <1>4, <1>5, <1>8, <2>1, <2>3
  <2>5. s \in Summaries
    <3>1. u.previous.from \in 0..MaxSeq /\ Max(u.messages) \in 0..MaxSeq
      BY <1>1, <1>4, SummaryAssumption DEF Seqs, Summaries
    <3>2. u.previous.text \cup u.messages \in SUBSET Seqs
      BY <1>1 DEF Summaries
    <3> QED BY <1>1, <1>5, <1>8, <3>1, <3>2 DEF Summaries
  <2> QED BY <2>4, <2>5 DEF Covers
<1> QED BY <1>7, <1>8

------------------------------------------------------------------------------
(* The invariant *)

ContextType == [through : 0..MaxSeq, summary : Summaries, messages : SUBSET Seqs, incomplete : BOOLEAN]
UpdateType == [previous : Summaries, messages : SUBSET Seqs, done : BOOLEAN]

LEMMA ConstantTypes ==
  /\ NoSummary \in Summaries
  /\ NoUpdate \in UpdateType /\ NoUpdate.done
  /\ NoContext \in ContextType /\ NoContext.incomplete
<1>1. NoSummary \in Summaries
  BY SummaryAssumption DEF NoSummary, Summaries
<1>2. 0 \in 0..MaxSeq
  BY SummaryAssumption
<1> QED BY <1>1, <1>2 DEF NoUpdate, UpdateType, NoContext, ContextType

LEMMA SummaryInitInv == SummaryInit => SummaryInv
<1> SUFFICES ASSUME SummaryInit PROVE SummaryInv
  OBVIOUS
<1>1. SummaryTypeOK
  <2>1. latest \in 0..MaxSeq /\ public \in SUBSET (1..latest) /\ prompt \in Nat /\ faults \in 0..MaxFaults
    BY SummaryAssumption DEF SummaryInit
  <2>2. stored \in Summaries /\ inFlight \in UpdateType
    BY ConstantTypes DEF SummaryInit
  <2>3. waiting \in [Callers -> 0..MaxSeq]
    BY SummaryAssumption DEF SummaryInit
  <2>4. context \in [Callers -> ContextType]
    BY ConstantTypes DEF SummaryInit
  <2> QED BY <2>1, <2>2, <2>3, <2>4 DEF SummaryTypeOK, UpdateType, ContextType
<1>2. Covers(stored, public)
  BY DEF SummaryInit, Covers
<1>3. inFlight.done
  BY ConstantTypes DEF SummaryInit
<1>4. ASSUME NEW c \in Callers PROVE waiting[c] <= latest /\ ContextRight(context[c])
  BY ConstantTypes DEF SummaryInit, ContextRight
<1> QED BY <1>1, <1>2, <1>3, <1>4 DEF SummaryInv

\* Callers that go on with the snapshot of what is stored now
LEMMA ResumeInv ==
  ASSUME SummaryInv, NEW s \in Summaries, Covers(s, public), stored' = s, Resume(s)
  PROVE  SummaryInv'
<1> USE DEF Resume
<1>1. SummaryTypeOK /\ latest' = latest /\ public' = public /\ prompt' = prompt /\ faults' = faults
  BY DEF SummaryInv
<1>2. ASSUME NEW c \in Callers
      PROVE  context'[c] \in ContextType /\ ContextRight(context[c])'
  <2>1. CASE waiting[c] = 0
    <3>1. context'[c] = context[c]
      BY <2>1
    <3> QED BY <1>1, <3>1 DEF SummaryInv, SummaryTypeOK, ContextType, ContextRight, Through
  <2>2. CASE waiting[c] # 0
    <3>1. context'[c] = Snapshot(s, waiting[c])
      BY <2>2
    <3>2. waiting[c] \in 0..latest
      BY <1>1 DEF SummaryInv, SummaryTypeOK
    <3>3. ContextRight(Snapshot(s, waiting[c]))
      BY <1>1, <3>2, SnapshotRight
    <3>4. Snapshot(s, waiting[c]) \in ContextType
      BY <1>1, <3>2, SnapshotType DEF ContextType
    <3> QED BY <1>1, <3>1, <3>3, <3>4 DEF ContextRight, Through
  <2> QED BY <2>1, <2>2
<1>3. context' \in [Callers -> ContextType]
  BY <1>2
<1>4. waiting' \in [Callers -> 0..MaxSeq] /\ \A c \in Callers : waiting'[c] = 0
  BY SummaryAssumption
<1>5. inFlight' \in UpdateType /\ inFlight'.done
  BY ConstantTypes
<1>6. SummaryTypeOK'
  BY <1>1, <1>3, <1>4, <1>5 DEF SummaryTypeOK, UpdateType, ContextType
<1>7. \A c \in Callers : (waiting[c] <= latest)'
  BY <1>1, <1>4 DEF SummaryTypeOK
<1>8. Covers(stored, public)'
  BY <1>1
<1> QED BY <1>2, <1>5, <1>6, <1>7, <1>8 DEF SummaryInv

LEMMA PostInv == SummaryInv /\ Post => SummaryInv'
<1> SUFFICES ASSUME SummaryInv, Post PROVE SummaryInv'
  OBVIOUS
<1>1. SummaryTypeOK
  BY DEF SummaryInv
<1>2. /\ latest \in Nat /\ latest' = latest + 1 /\ latest' \in 0..MaxSeq
      /\ public' = public \cup {latest + 1} \/ public' = public
      /\ stored' = stored /\ prompt' = prompt /\ inFlight' = inFlight /\ waiting' = waiting
      /\ context' = context /\ faults' = faults
  BY <1>1, SummaryAssumption DEF Post, SummaryTypeOK
<1>3. public \in SUBSET (1..latest) /\ public \in SUBSET Nat
  BY <1>1 DEF SummaryTypeOK
<1>4. public' \in SUBSET (1..(latest + 1))
  <2>1. \A m \in public : m \in Nat /\ 1 <= m /\ m <= latest
    BY <1>2, <1>3
  <2>2. \A m \in public' : m \in public \/ m = latest + 1
    BY <1>2
  <2>3. \A m \in public' : m \in 1..(latest + 1)
    BY <1>2, <2>1, <2>2
  <2> QED BY <2>3
<1>5. SummaryTypeOK'
  BY <1>1, <1>2, <1>4 DEF SummaryTypeOK
<1>6. ASSUME NEW s, Covers(s, public) PROVE Covers(s, public')
  BY <1>2, <1>3, <1>6, CoversMore
<1>7. Covers(stored, public)'
  BY <1>2, <1>6 DEF SummaryInv
<1>8. ~inFlight.done => UpdateRight(inFlight, public')
  <2> SUFFICES ASSUME ~inFlight.done PROVE UpdateRight(inFlight, public')
    OBVIOUS
  <2>1. UpdateRight(inFlight, public)
    BY DEF SummaryInv
  <2>2. inFlight.messages \subseteq public /\ inFlight.messages # {}
    BY <2>1 DEF UpdateRight
  <2>3. Max(inFlight.messages) \in inFlight.messages
    <3>1. \A m \in inFlight.messages : m \in 0..latest
      <4>1. \A m \in public : m \in 0..latest
        BY <1>2, <1>3
      <4> QED BY <2>2, <4>1
    <3> QED BY <1>2, <2>2, <3>1, MaxExists
  <2>4. Max(inFlight.messages) \in Nat /\ Max(inFlight.messages) < latest + 1
    <3>1. Max(inFlight.messages) \in 1..latest
      BY <1>3, <2>2, <2>3
    <3> QED BY <1>2, <3>1
  <2>5. inFlight.messages = {m \in public' : inFlight.previous.through < m /\ m <= Max(inFlight.messages)}
    <3>1. inFlight.messages = {m \in public : inFlight.previous.through < m /\ m <= Max(inFlight.messages)}
      BY <2>1 DEF UpdateRight
    <3>2. CASE public' = public
      BY <3>1, <3>2
    <3>3. CASE public' = public \cup {latest + 1}
      <4>1. ~(latest + 1 <= Max(inFlight.messages))
        BY <1>2, <2>4
      <4> QED BY <3>1, <3>3, <4>1
    <3> QED BY <1>2, <3>2, <3>3
  <2>6. Covers(inFlight.previous, public')
    BY <1>6, <2>1 DEF UpdateRight
  <2> QED BY <2>2, <2>5, <2>6 DEF UpdateRight
<1>9. ASSUME NEW c \in Callers PROVE waiting[c] <= latest' /\ ContextRight(context[c])'
  <2>1. waiting[c] <= latest /\ waiting[c] \in Nat /\ ContextRight(context[c])
    BY <1>1 DEF SummaryInv, SummaryTypeOK
  <2>2. waiting[c] <= latest'
    BY <1>2, <2>1
  <2>3. context[c].through \in Nat
    BY <1>1 DEF SummaryTypeOK
  <2>4. ContextRight(context[c])'
    <3> SUFFICES ASSUME ~context[c].incomplete
                 PROVE  /\ context[c].through <= latest'
                        /\ {m \in public' : m <= context[c].through}
                             \subseteq context[c].summary.text \cup context[c].messages
      BY <1>2 DEF ContextRight, Through
    <3>1. /\ context[c].through <= latest
          /\ {m \in public : m <= context[c].through}
               \subseteq context[c].summary.text \cup context[c].messages
      BY <2>1 DEF ContextRight, Through
    <3>2. {m \in public' : m <= context[c].through} = {m \in public : m <= context[c].through}
      BY <1>2, <2>3, <3>1
    <3> QED BY <1>2, <2>3, <3>1, <3>2
  <2> QED BY <2>2, <2>4
<1> QED BY <1>2, <1>5, <1>7, <1>8, <1>9 DEF SummaryInv

LEMMA PrepareInv ==
  ASSUME SummaryInv, NEW c \in Callers, Prepare(c)
  PROVE  SummaryInv'
<1> DEFINE before == Snapshot(stored, latest)
<1>1. SummaryTypeOK /\ Covers(stored, public)
  BY DEF SummaryInv
<1>2. latest \in 1..latest /\ latest \in 0..latest /\ latest \in 0..MaxSeq
  BY <1>1 DEF Prepare, SummaryTypeOK
<1>3. /\ latest' = latest /\ public' = public /\ stored' = stored /\ prompt' = prompt
      /\ faults' = faults
  BY DEF Prepare
<1>4. CASE ~before.incomplete
  <2>1. context' = [context EXCEPT ![c] = before] /\ inFlight' = inFlight /\ waiting' = waiting
    BY <1>4 DEF Prepare
  <2>2. before \in ContextType /\ ContextRight(before)
    <3>1. stored \in Summaries
      BY <1>1 DEF SummaryTypeOK
    <3> QED BY <1>1, <1>2, <3>1, SnapshotType, SnapshotRight DEF ContextType
  <2>3. context \in [Callers -> ContextType]
    BY <1>1 DEF SummaryTypeOK, ContextType
  <2> HIDE DEF before
  <2>4. context' \in [Callers -> ContextType]
    BY <2>1, <2>2, <2>3
  <2>5. SummaryTypeOK'
    BY <1>1, <1>3, <2>1, <2>4 DEF SummaryTypeOK, ContextType
  <2>6. ASSUME NEW d \in Callers PROVE (waiting[d] <= latest /\ ContextRight(context[d]))'
    <3>1. ContextRight(context'[d])
      <4>1. CASE d = c
        BY <2>1, <2>2, <2>3, <4>1
      <4>2. CASE d # c
        BY <2>1, <2>3, <4>2 DEF SummaryInv
      <4> QED BY <4>1, <4>2
    <3>2. waiting[d] <= latest
      BY DEF SummaryInv
    <3> QED BY <1>3, <2>1, <3>1, <3>2 DEF ContextRight, Through
  <2> QED BY <1>1, <1>3, <2>1, <2>5, <2>6 DEF SummaryInv
<1>5. CASE before.incomplete
  <2>1. /\ inFlight' = IF inFlight.done THEN UpdateFor(latest) ELSE inFlight
        /\ waiting' = [waiting EXCEPT ![c] = latest] /\ context' = context
    BY <1>5 DEF Prepare, StartUpdate
  <2>2. UpdateRight(UpdateFor(latest), public) /\ UpdateFor(latest) \in UpdateType
    BY <1>1, <1>2, <1>5, UpdateForRight DEF UpdateType
  <2> HIDE DEF before
  <2>3. inFlight' \in UpdateType /\ UpdateRight(inFlight', public)
    BY <1>1, <2>1, <2>2 DEF SummaryInv, SummaryTypeOK, UpdateType
  <2>4. waiting \in [Callers -> 0..MaxSeq]
    BY <1>1 DEF SummaryTypeOK
  <2>5. waiting' \in [Callers -> 0..MaxSeq] /\ \A d \in Callers : waiting'[d] <= latest
    <3>1. \A d \in Callers : waiting[d] <= latest
      BY DEF SummaryInv
    <3>2. latest <= latest
      BY <1>2
    <3> QED BY <1>2, <2>1, <2>4, <3>1, <3>2
  <2>6. SummaryTypeOK'
    BY <1>1, <1>3, <2>1, <2>3, <2>5 DEF SummaryTypeOK, UpdateType
  <2>7. ASSUME NEW d \in Callers PROVE ContextRight(context[d])'
    BY <1>3, <2>1 DEF SummaryInv, ContextRight, Through
  <2>8. UpdateRight(inFlight, public)'
    BY <1>3, <2>3
  <2> QED BY <1>1, <1>3, <2>5, <2>6, <2>7, <2>8 DEF SummaryInv
<1> QED BY <1>4, <1>5

LEMMA SummarizeOkInv == SummaryInv /\ SummarizeOk => SummaryInv'
<1> SUFFICES ASSUME SummaryInv, SummarizeOk PROVE SummaryInv'
  OBVIOUS
<1>1. Covers(Extended(inFlight), public) /\ Extended(inFlight) \in Summaries
  BY ExtendedRight DEF SummaryInv, SummarizeOk
<1> QED BY <1>1, ResumeInv DEF SummarizeOk

LEMMA SummarizeFailsInv == SummaryInv /\ SummarizeFails => SummaryInv'
<1> SUFFICES ASSUME SummaryInv, SummarizeFails PROVE SummaryInv'
  OBVIOUS
<1>1. Covers(stored, public) /\ stored \in Summaries
  BY DEF SummaryInv, SummaryTypeOK
<1> QED BY <1>1, ResumeInv DEF SummarizeFails

LEMMA RestartInv == SummaryInv /\ Restart => SummaryInv'
<1> SUFFICES ASSUME SummaryInv, Restart PROVE SummaryInv'
  OBVIOUS
<1>1. SummaryTypeOK /\ Covers(stored, public)
  BY DEF SummaryInv
<1>2. /\ latest' = latest /\ public' = public /\ stored' = stored
      /\ prompt' \in Nat /\ faults' \in 0..MaxFaults
  BY <1>1, SummaryAssumption DEF Restart, SummaryTypeOK
<1>3. inFlight' \in UpdateType /\ inFlight'.done
  BY ConstantTypes DEF Restart
<1>4. waiting' \in [Callers -> 0..MaxSeq] /\ \A c \in Callers : waiting'[c] = 0
  BY SummaryAssumption DEF Restart
<1>5. context' \in [Callers -> ContextType] /\ \A c \in Callers : context'[c].incomplete
  BY ConstantTypes DEF Restart
<1>6. SummaryTypeOK'
  BY <1>1, <1>2, <1>3, <1>4, <1>5 DEF SummaryTypeOK, UpdateType, ContextType
<1>7. ASSUME NEW c \in Callers PROVE (waiting[c] <= latest /\ ContextRight(context[c]))'
  <2>1. waiting'[c] = 0 /\ context'[c].incomplete /\ latest' \in Nat
    BY <1>4, <1>5, <1>6 DEF SummaryTypeOK
  <2> QED BY <2>1 DEF ContextRight
<1> QED BY <1>1, <1>2, <1>3, <1>6, <1>7 DEF SummaryInv

LEMMA SummaryStutter == SummaryInv /\ UNCHANGED summaryVars => SummaryInv'
  BY DEF SummaryInv, SummaryTypeOK, summaryVars, Covers, UpdateRight, ContextRight, Through,
         Summaries, Seqs

LEMMA SummaryNextInv == SummaryInv /\ [SummaryNext]_summaryVars => SummaryInv'
  BY PostInv, PrepareInv, SummarizeOkInv, SummarizeFailsInv, RestartInv, SummaryStutter
     DEF SummaryNext

LEMMA SummaryInvHolds == SummarySpec => []SummaryInv
<1> QED BY SummaryInitInv, SummaryNextInv, PTL DEF SummarySpec

\* What the row claims follows from where it begins.
LEMMA ContinuousFromInv == SummaryInv => SummaryIsContinuous
<1> SUFFICES ASSUME SummaryInv, stored # NoSummary
             PROVE  stored.text = {m \in public : stored.from <= m /\ m <= stored.through}
  BY DEF SummaryIsContinuous
<1>1. /\ stored.from = Min(public) /\ stored.through \in public
      /\ stored.text = {m \in public : m <= stored.through}
  BY DEF SummaryInv, Covers
<1>2. \A m \in public : Min(public) <= m
  <2>1. public \in SUBSET Nat /\ public # {}
    BY <1>1 DEF SummaryInv, SummaryTypeOK
  <2> QED BY <2>1, MinExists
<1> QED BY <1>1, <1>2

LEMMA CoveredFromInv == SummaryInv => CoveredOrMarked
  BY DEF SummaryInv, ContextRight, CoveredOrMarked

------------------------------------------------------------------------------
(* Theorems *)

\* The variables keep their types, whatever model calls do.
THEOREM SummaryTypeCorrect == SummarySpec => []SummaryTypeOK
<1>1. SummaryInv => SummaryTypeOK
  BY DEF SummaryInv
<1> QED BY <1>1, SummaryInvHolds, PTL

\* The stored summary (saveGroupSummary) has no gap in the range it claims.
THEOREM NoGaps == SummarySpec => []SummaryIsContinuous
<1> QED BY ContinuousFromInv, SummaryInvHolds, PTL

\* A context that snapshot does not mark covers all that was asked for, also for
\* a caller that joined the update of another.
THEOREM NothingLeftOut == SummarySpec => []CoveredOrMarked
<1> QED BY CoveredFromInv, SummaryInvHolds, PTL

------------------------------------------------------------------------------
(***************************************************************************)
(* ModelCalls.  The scheduler and the summaries keep their invariants when *)
(* they are used together; CallsInv ties a caller's phase to its call in the*)
(* scheduler and to the stored key, so that a verdict of the provider is   *)
(* never stored with another key.                                          *)
(***************************************************************************)

Open(c) == state[c] \in {"queued", "running"}

\* The call runs and has been aborted: it will fail, and not with invalid_key.
Doomed(c) == aborted = TRUE /\ state[c] = "running"

\* No other key has had this version since it was read.
Fresh(x) == x.version <= config.version /\ (x.version = config.version => x.key = config.key)

\* The same of the key that is stored after a step
StillFresh(x) ==
  x.version <= config'.version /\ (x.version = config'.version => x.key = config'.key)

ConfigStatuses == {"missing", "verified", "unverified", "invalid", "config_error"}
Configs == [key : Keys \cup {None}, status : ConfigStatuses, version : Nat]
Phases == {"idle", "context", "ready", "called", "refused"}
Questions == [key : Keys \cup {None}, save : BOOLEAN, version : Nat, number : Nat]

ModelTypeOK ==
  /\ config \in Configs
  /\ user \in [Callers -> [phase : Phases, cred : Configs]]
  /\ ask \in [Requests \cup {Startup} -> Questions]
  /\ decisions \in Nat

\* A router's or freshness check's phase, its call and what it read of the key
UserRight(c) ==
  /\ Open(c) <=> user[c].phase = "called"
  /\ user[c].phase = "context" => Open(Summary) /\ (Fresh(user[c].cred) \/ Doomed(Summary))
  /\ user[c].phase = "called" => Fresh(user[c].cred) \/ Doomed(c)
  /\ user[c].phase = "ready" => Fresh(user[c].cred) \/ config.status # "verified"
  /\ user[c].phase = "refused" => Fresh(user[c].cred)

CallsInv ==
  /\ ModelTypeOK
  /\ config.key = None => config.status \in {"missing", "config_error"}
  /\ aborted = TRUE => config.status # "verified"
  /\ \A c \in Callers : UserRight(c)
  /\ ~inFlight.done => Open(Summary)
  /\ \A r \in Requests \cup {Startup} : Open(r) => ask[r].key # None
  /\ Open(Startup) => Fresh(ask[Startup]) \/ Doomed(Startup)
  /\ VerdictIsOfKey

ModelInv == IInv /\ SummaryInv /\ CallsInv

------------------------------------------------------------------------------
(* The parts *)

\* Steps of the context's side
LEMMA CallSummaryInv ==
  ASSUME SummaryInv, NEW c \in Callers, Call(c)
  PROVE  SummaryInv'
<1>1. /\ UNCHANGED <<latest, public, stored, prompt, inFlight, waiting, faults>>
      /\ context' = [context EXCEPT ![c] = NoContext]
  BY DEF Call
<1>2. context \in [Callers -> ContextType]
  BY DEF SummaryInv, SummaryTypeOK, ContextType
<1>3. context' \in [Callers -> ContextType]
  BY <1>1, <1>2, ConstantTypes
<1>4. SummaryTypeOK'
  BY <1>1, <1>3 DEF SummaryInv, SummaryTypeOK, ContextType
<1>5. ASSUME NEW d \in Callers PROVE (waiting[d] <= latest /\ ContextRight(context[d]))'
  <2>1. CASE d = c
    <3>1. context'[d] = NoContext
      BY <1>1, <1>2, <2>1
    <3> QED BY <1>1, <3>1, ConstantTypes DEF SummaryInv, ContextRight
  <2>2. CASE d # c
    <3>1. context'[d] = context[d]
      BY <1>1, <1>2, <2>2
    <3> QED BY <1>1, <3>1 DEF SummaryInv, ContextRight, Through
  <2> QED BY <2>1, <2>2
<1>6. Covers(stored, public)' /\ (~inFlight.done => UpdateRight(inFlight, public))'
  BY <1>1 DEF SummaryInv
<1> QED BY <1>4, <1>5, <1>6 DEF SummaryInv

\* What abortAll does to the summary
LEMMA AbortSummaryInv ==
  ASSUME SummaryInv, NEW users, Abort(users)
  PROVE  SummaryInv'
BY SummarizeFailsInv, SummaryStutter DEF Abort

LEMMA SystemSummaryInv == SummaryInv /\ [SystemNext]_modelVars => SummaryInv'
<1> SUFFICES ASSUME SummaryInv, [SystemNext]_modelVars PROVE SummaryInv'
  OBVIOUS
<1>1. ASSUME Microtask PROVE SummaryInv'
  <2>1. ASSUME NEW c \in Callers, Call(c) PROVE SummaryInv'
    BY <2>1, CallSummaryInv
  <2>2. ASSUME NEW c \in Callers, Blame(c) PROVE SummaryInv'
    <3>1. CASE ToBlame(c)
      BY <2>2, <3>1, AbortSummaryInv DEF Blame
    <3>2. CASE ~ToBlame(c)
      BY <2>2, <3>2, SummaryStutter DEF Blame
    <3> QED BY <3>1, <3>2
  <2> QED BY <1>1, <2>1, <2>2 DEF Microtask
<1>2. ASSUME Succeeds PROVE SummaryInv'
  <2>1. UNCHANGED summaryVars \/ SummarizeOk
    BY <1>2 DEF Succeeds, ValidationOk, SummaryOk, UseOk
  <2> QED BY <2>1, SummarizeOkInv, SummaryStutter
<1>3. ASSUME NEW why \in Reasons, Fails(why) PROVE SummaryInv'
  <2>1. UNCHANGED summaryVars \/ SummarizeFails
    BY <1>3 DEF Fails, ValidationFails, SummaryFails, UseFails
  <2> QED BY <2>1, SummarizeFailsInv, SummaryStutter
<1>4. ASSUME NEW key, NEW save, AskFor(key, save) PROVE SummaryInv'
  BY <1>4, SummaryStutter DEF AskFor
<1>5. ASSUME NEW next, Delete(next) PROVE SummaryInv'
  BY <1>5, AbortSummaryInv DEF Delete
<1>6. ASSUME Post PROVE SummaryInv'
  BY <1>6, PostInv
<1>7. ASSUME NEW c \in Callers, Ask(c) PROVE SummaryInv'
  BY <1>7, PrepareInv DEF Ask
<1>8. ASSUME Reboot PROVE SummaryInv'
  BY <1>8, RestartInv DEF Reboot
<1>9. CASE UNCHANGED modelVars
  BY <1>9, SummaryStutter DEF modelVars
<1> QED
  BY <1>1, <1>2, <1>3, <1>4, <1>5, <1>6, <1>7, <1>8, <1>9
     DEF SystemNext, Answer, Update, ValidateStored, Validate

\* A broker that starts has at most the check of the stored key in its scheduler.
LEMMA RebootIInv == IInv /\ Reboot => IInv'
<1> SUFFICES ASSUME IInv, Reboot PROVE IInv'
  OBVIOUS
<1> DEFINE check == config'.status = "unverified"
<1>1. /\ queues' = [p \in Priorities |-> <<>>]
      /\ burst' = 0 /\ overtaken' = 0 /\ aborted' = FALSE
      /\ running' = IF check THEN Startup ELSE None
      /\ state' = IF check THEN [[c \in Calls |-> "new"] EXCEPT ![Startup] = "running"]
                  ELSE [c \in Calls |-> "new"]
  BY DEF Reboot
<1>2. Startup \in Calls /\ \A c \in Calls : c # None
  BY ConstantsAssumption, ModelCallsAssumption
<1>3. queues' \in [Priorities -> Seq(Calls)]
  BY <1>1
<1>4. \A p \in Priorities : queues'[p] = <<>> /\ Len(queues'[p]) = 0
  BY <1>1
<1>5. \A p \in Priorities, i \in Nat, c \in Calls : ~In(queues', p, i, c)
  BY <1>4 DEF In
<1>6. \A c \in Calls : state'[c] = IF check /\ c = Startup THEN "running" ELSE "new"
  <2>1. CASE check
    BY <1>1, <1>2, <2>1
  <2>2. CASE ~check
    BY <1>1, <2>2
  <2> QED BY <2>1, <2>2
<1>7. state' \in [Calls -> Statuses]
  BY <1>1, <1>2 DEF Statuses
<1>8. Held(queues', state', running')
  <2>1. \A c \in Calls : state'[c] = "running" <=> running' = c
    BY <1>1, <1>2, <1>6
  <2>2. \A c \in Calls : state'[c] # "queued"
    BY <1>6
  <2> QED BY <1>5, <2>1, <2>2 DEF Held
<1>9. TypeOK' /\ NobodyWaitsIdle' /\ Counted'
  <2>1. running' \in Calls \cup {None}
    BY <1>1, <1>2
  <2>2. TypeOK'
    BY <1>1, <1>3, <1>7, <2>1 DEF TypeOK, Statuses
  <2> QED BY <1>1, <1>4, <2>2, ConstantsAssumption DEF NobodyWaitsIdle, Counted
<1> QED BY <1>8, <1>9 DEF IInv, Held

LEMMA SystemIInv == IInv /\ [SystemNext]_modelVars => IInv'
<1> SUFFICES ASSUME IInv, [SystemNext]_modelVars PROVE IInv'
  OBVIOUS
<1>0. /\ {"validation", "summary", "router", "freshness"} \subseteq Priorities
      /\ "new" \in Settled
      /\ Requests \subseteq Calls /\ Callers \subseteq Calls /\ Summary \in Calls
  BY ModelCallsAssumption DEF Priorities, Settled
<1>1. ASSUME UNCHANGED callVars PROVE IInv'
  BY <1>1, StutterStep DEF callVars, vars
<1>2. ASSUME NEW c \in Callers, Call(c) PROVE IInv'
  <2>1. UNCHANGED callVars \/ Schedule(c, "router") \/ Schedule(c, "freshness")
    BY <1>2 DEF Call
  <2> QED BY <1>0, <1>1, <2>1, ScheduleStep
<1>3. ASSUME NEW c \in Callers, Blame(c) PROVE IInv'
  <2>1. UNCHANGED callVars \/ AbortAll
    BY <1>3 DEF Blame, Abort
  <2> QED BY <1>1, <2>1, AbortStep
<1>4. ASSUME End PROVE IInv'
  BY <1>0, <1>4, FinishStep DEF End
<1>5. ASSUME NEW key, NEW save, AskFor(key, save) PROVE IInv'
  <2>1. PICK r \in Requests : Schedule(r, "validation")
    BY <1>5 DEF AskFor
  <2> QED BY <1>0, <2>1, ScheduleStep
<1>6. ASSUME NEW next, Delete(next) PROVE IInv'
  BY <1>6, AbortStep DEF Delete, Abort
<1>7. ASSUME NEW c \in Callers, Ask(c) PROVE IInv'
  <2>1. UNCHANGED callVars \/ Schedule(Summary, "summary")
    BY <1>7 DEF Ask
  <2> QED BY <1>0, <1>1, <2>1, ScheduleStep
<1>8. ASSUME Reboot PROVE IInv'
  BY <1>8, RebootIInv
<1>9. CASE UNCHANGED modelVars
  BY <1>1, <1>9 DEF modelVars
<1> QED
  BY <1>1, <1>2, <1>3, <1>4, <1>5, <1>6, <1>7, <1>8, <1>9
     DEF SystemNext, Microtask, Answer, Succeeds, Fails, Update, ValidateStored, Validate

------------------------------------------------------------------------------
(* How the calls change *)

LEMMA Places ==
  /\ Callers \subseteq Calls /\ Requests \subseteq Calls /\ Summary \in Calls /\ Startup \in Calls
  /\ Summary \notin Callers /\ Startup \notin Callers /\ \A r \in Requests : r \notin Callers
  /\ Summary \notin Requests /\ Startup \notin Requests /\ Summary # Startup
  BY ModelCallsAssumption

LEMMA RunningIs ==
  ASSUME IInv, NEW d \in Calls
  PROVE  /\ state[d] = "running" <=> running = d
         /\ d # None /\ aborted \in BOOLEAN
         /\ state[d] \in Statuses
  BY ConstantsAssumption DEF IInv, Held, TypeOK, Statuses

LEMMA ScheduleKeeps ==
  ASSUME IInv, NEW c \in Calls, NEW p \in Priorities, Schedule(c, p)
  PROVE  /\ Open(c)'
         /\ aborted' = TRUE => aborted = TRUE
         /\ \A d \in Calls \ {c} : (Open(d)' <=> Open(d)) /\ (Doomed(d) => Doomed(d)')
<1>1. /\ state'[c] \in {"queued", "running"}
      /\ \A d \in Calls \ {c} :
           state'[d] = state[d] \/ (state[d] = "queued" /\ state'[d] = "running")
      /\ aborted' = IF running = None THEN FALSE ELSE aborted
  BY ScheduleStep
<1>2. aborted' = TRUE => aborted = TRUE
  BY <1>1
<1>3. ASSUME NEW d \in Calls \ {c} PROVE Open(d)' <=> Open(d)
  BY <1>1 DEF Open
<1>4. ASSUME NEW d \in Calls \ {c}, Doomed(d) PROVE Doomed(d)'
  <2>1. running = d /\ d # None /\ state[d] = "running" /\ aborted = TRUE
    BY <1>4, RunningIs DEF Doomed
  <2>2. aborted' = TRUE
    BY <1>1, <2>1
  <2>3. state'[d] = "running"
    BY <1>1, <2>1
  <2> QED BY <2>2, <2>3 DEF Doomed
<1> QED BY <1>1, <1>2, <1>3, <1>4 DEF Open

LEMMA EndKeeps ==
  ASSUME IInv, End
  PROVE  /\ aborted' # TRUE
         /\ \E r \in Calls :
              /\ r = running /\ state[r] = "running" /\ Open(r) /\ ~Open(r)'
              /\ \A d \in Calls \ {r} : (Open(d)' <=> Open(d)) /\ ~Doomed(d)
<1>1. /\ running \in Calls /\ state'[running] = "new" /\ aborted' = FALSE
      /\ \A d \in Calls \ {running} :
           state'[d] = state[d] \/ (state[d] = "queued" /\ state'[d] = "running")
  BY FinishStep DEF End, Settled
<1> PICK r \in Calls : r = running
  BY <1>1
<1>2. state'[r] = "new" /\ state[r] = "running"
  BY <1>1, RunningIs
<1>3. Open(r) /\ ~Open(r)'
  BY <1>2 DEF Open
<1>4. ASSUME NEW d \in Calls \ {r} PROVE (Open(d)' <=> Open(d)) /\ ~Doomed(d)
  BY <1>1, RunningIs DEF Open, Doomed
<1> QED BY <1>1, <1>2, <1>3, <1>4

LEMMA AbortKeeps ==
  ASSUME IInv, AbortAll, NEW d \in Calls
  PROVE  /\ state[d] = "queued" => ~Open(d)'
         /\ state[d] # "queued" => (Open(d)' <=> Open(d))
         /\ state[d] = "running" => Doomed(d)'
         /\ Open(d) /\ state[d] # "queued" => state[d] = "running"
<1>1. state'[d] = (IF state[d] = "queued" THEN "rejected" ELSE state[d])
  BY DEF AbortAll, RejectWaiting
<1>2. ASSUME state[d] = "running" PROVE Doomed(d)'
  <2>1. running = d /\ d # None
    BY <1>2, RunningIs
  <2>2. aborted' = TRUE
    BY <2>1 DEF AbortAll
  <2> QED BY <1>1, <1>2, <2>2 DEF Doomed
<1> QED BY <1>1, <1>2 DEF Open

LEMMA FreshKept ==
  ASSUME NEW x, x.version \in Nat, config.version \in Nat, Fresh(x),
         config' = config \/ config'.version = config.version + 1
  PROVE  StillFresh(x)
  BY DEF Fresh, StillFresh

\* A router or freshness check that a step leaves alone
LEMMA UserKept ==
  ASSUME ModelTypeOK, NEW d \in Callers, UserRight(d), user'[d] = user[d],
         Open(d)' <=> Open(d), Doomed(d) => Doomed(d)',
         user[d].phase = "context" =>
           (Open(Summary) => Open(Summary)') /\ (Doomed(Summary) => Doomed(Summary)'),
         config' = config \/ (/\ config'.version = config.version + 1
                              /\ config'.status # "verified" \/ user[d].phase # "ready")
  PROVE  UserRight(d)'
<1> DEFINE x == user[d].cred
<1>1. x.version \in Nat /\ config.version \in Nat
  BY DEF ModelTypeOK, Configs
<1>2. Fresh(x) => x.version <= config'.version /\ (x.version = config'.version => x.key = config'.key)
  BY <1>1 DEF Fresh
<1>3. Fresh(x) => Fresh(user[d].cred)'
  BY <1>2 DEF Fresh
<1> HIDE DEF x
<1>4. Open(d)' <=> user'[d].phase = "called"
  BY DEF UserRight
<1>5. user'[d].phase = "context" => Open(Summary)' /\ (Fresh(user[d].cred)' \/ Doomed(Summary)')
  BY <1>3 DEF UserRight, x
<1>6. user'[d].phase = "called" => Fresh(user[d].cred)' \/ Doomed(d)'
  BY <1>3 DEF UserRight, x
<1>7. user'[d].phase = "ready" => Fresh(user[d].cred)' \/ config'.status # "verified"
  BY <1>3 DEF UserRight, x
<1>8. user'[d].phase = "refused" => Fresh(user[d].cred)'
  BY <1>3 DEF UserRight, x
<1> QED BY <1>4, <1>5, <1>6, <1>7, <1>8 DEF UserRight

\* One that is idle after the step
LEMMA UserIdle ==
  ASSUME NEW d \in Callers, user'[d].phase = "idle", ~Open(d)'
  PROVE  UserRight(d)'
  BY DEF UserRight

\* One whose calls are aborted
LEMMA AbortUser ==
  ASSUME IInv, ModelTypeOK, NEW users, NEW d \in Callers, Abort(users), UserRight(d),
         users[d] = user[d] \/ (users[d] = Idle /\ ~Open(d)),
         config'.status # "verified",
         user[d].phase = "refused" => StillFresh(user[d].cred)
  PROVE  UserRight(d)' /\ user'[d] \in [phase : Phases, cred : Configs]
<1>0. d \in Calls /\ d \notin {Summary} /\ Summary \in Calls /\ AbortAll
  BY Places DEF Abort
<1>1. user'[d] = IF users[d].phase = "context" /\ Rejected(Summary) THEN [users[d] EXCEPT !.phase = "ready"]
                 ELSE IF Rejected(d) THEN Idle ELSE users[d]
  BY DEF Abort, AfterAbort
<1>2. user[d] \in [phase : Phases, cred : Configs] /\ Idle \in [phase : Phases, cred : Configs]
      /\ Idle.phase = "idle"
  BY DEF ModelTypeOK, Idle, User, NoKey, Stored, Phases, Configs, ConfigStatuses
<1>3. users[d] \in [phase : Phases, cred : Configs]
  BY <1>2
<1>4. CASE users[d] # user[d]
  <2>1. users[d] = Idle /\ ~Open(d) /\ ~Rejected(d)
    BY <1>4 DEF Open, Rejected
  <2>2. user'[d] = Idle
    BY <1>1, <1>2, <2>1
  <2>3. ~Open(d)'
    BY <1>0, <2>1, AbortKeeps DEF Rejected
  <2> QED BY <1>2, <2>2, <2>3, UserIdle
<1>5. CASE users[d] = user[d] /\ user[d].phase = "context" /\ state[Summary] = "queued"
  <2>1. user'[d] = [user[d] EXCEPT !.phase = "ready"]
    BY <1>1, <1>5 DEF Rejected
  <2>2. user'[d].phase = "ready" /\ user'[d] \in [phase : Phases, cred : Configs]
    BY <1>2, <2>1 DEF Phases
  <2>3. ~Open(d)
    BY <1>5 DEF UserRight
  <2>4. ~Open(d)'
    BY <1>0, <2>3, AbortKeeps DEF Open
  <2> QED BY <2>2, <2>4 DEF UserRight
<1>6. CASE users[d] = user[d] /\ ~(user[d].phase = "context" /\ state[Summary] = "queued") /\ state[d] = "queued"
  <2>1. user'[d] = Idle
    BY <1>1, <1>6 DEF Rejected
  <2>2. ~Open(d)'
    BY <1>0, <1>6, AbortKeeps
  <2> QED BY <1>2, <2>1, <2>2, UserIdle
<1>7. CASE users[d] = user[d] /\ ~(user[d].phase = "context" /\ state[Summary] = "queued") /\ state[d] # "queued"
  <2>1. user'[d] = user[d]
    BY <1>1, <1>7 DEF Rejected
  <2>2. Open(d)' <=> Open(d)
    BY <1>0, <1>7, AbortKeeps
  <2>3. Open(d) => Doomed(d)'
    BY <1>0, <1>7, AbortKeeps
  <2>4. user[d].phase = "context" => Open(Summary)' /\ Doomed(Summary)'
    <3>1. user[d].phase = "context" => Open(Summary) /\ state[Summary] # "queued"
      BY <1>7 DEF UserRight
    <3> QED BY <1>0, <3>1, AbortKeeps
  <2>5. user'[d].phase = "refused" => Fresh(user[d].cred)'
    BY <2>1 DEF Fresh, StillFresh
  <2> QED BY <1>2, <2>1, <2>2, <2>3, <2>4, <2>5 DEF UserRight
<1> QED BY <1>4, <1>5, <1>6, <1>7

------------------------------------------------------------------------------
(* The steps *)

\* What is stored afterwards
LEMMA ConfigTypes ==
  ASSUME ModelTypeOK
  PROVE  /\ MarkedInvalid \in Configs /\ Deleted \in Configs /\ Rebuilt \in Configs
         /\ \A key \in Keys \cup {None}, status \in ConfigStatuses : Saved(key, status) \in Configs
         /\ NoQuestion \in Questions /\ Idle \in [phase : Phases, cred : Configs]
         /\ Stored(None, "config_error", 0) \in Configs
  BY DEF ModelTypeOK, MarkedInvalid, Deleted, Rebuilt, Saved, Stored, NoKey, Configs, ConfigStatuses,
         NoQuestion, Question, Questions, Idle, User, Phases

\* Steps that schedule the call r or nothing: what is not the matter of r stays.
LEMMA AddedInv ==
  ASSUME IInv, CallsInv, NEW r \in Calls, NEW p \in Priorities,
         Schedule(r, p) \/ UNCHANGED callVars,
         UNCHANGED <<config, basis>>, decisions' \in Nat,
         user' \in [Callers -> [phase : Phases, cred : Configs]],
         ask' \in [Requests \cup {Startup} -> Questions], ask'[Startup] = ask[Startup],
         r # Startup,
         \A q \in Requests \cup {Startup} : ask'[q] = ask[q] \/ ask'[q].key # None,
         \A d \in Callers : (d # r /\ user'[d] = user[d]) \/ UserRight(d)',
         r \in Requests => Schedule(r, p) /\ ask'[r].key # None,
         ~inFlight'.done => ~inFlight.done \/ Open(Summary)'
  PROVE  CallsInv'
<1>1. /\ aborted' = TRUE => aborted = TRUE
      /\ \A d \in Calls \ {r} : (Open(d)' <=> Open(d)) /\ (Doomed(d) => Doomed(d)')
      /\ Open(r) => Open(r)'
      /\ Doomed(r) => Doomed(r)'
  <2>1. CASE Schedule(r, p)
    <3>1. ~Open(r) /\ ~Doomed(r)
      BY <2>1 DEF Schedule, Open, Doomed
    <3> QED BY <2>1, <3>1, ScheduleKeeps
  <2>2. CASE UNCHANGED callVars
    BY <2>2 DEF callVars, Open, Doomed
  <2> QED BY <2>1, <2>2
<1>2. ASSUME NEW d \in Callers PROVE UserRight(d)'
  <2>1. CASE d # r /\ user'[d] = user[d]
    <3>1. Open(Summary) => Open(Summary)'
      BY <1>1, Places
    <3>2. Doomed(Summary) => Doomed(Summary)'
      BY <1>1, Places
    <3>3. (Open(d)' <=> Open(d)) /\ (Doomed(d) => Doomed(d)')
      BY <1>1, <2>1, Places
    <3>4. UserRight(d) /\ ModelTypeOK /\ config' = config
      BY DEF CallsInv
    <3> QED BY <2>1, <3>1, <3>2, <3>3, <3>4, UserKept
  <2> QED BY <2>1
<1>3. ModelTypeOK'
  BY DEF CallsInv, ModelTypeOK
<1>4. ASSUME NEW q \in Requests \cup {Startup}, Open(q)' PROVE ask'[q].key # None
  <2>1. CASE q = r
    BY <2>1
  <2>2. CASE q # r
    <3>1. Open(q)
      BY <1>1, <1>4, <2>2, Places
    <3> QED BY <3>1 DEF CallsInv
  <2> QED BY <2>1, <2>2
<1>5. ASSUME Open(Startup)' PROVE Fresh(ask[Startup])' \/ Doomed(Startup)'
  <2>1. Open(Startup) /\ (Doomed(Startup) => Doomed(Startup)')
    BY <1>1, <1>5, Places
  <2> QED BY <2>1 DEF CallsInv, Fresh
<1>6. ~inFlight'.done => Open(Summary)'
  BY <1>1, Places DEF CallsInv
<1>7. VerdictIsOfKey'
  BY DEF CallsInv, VerdictIsOfKey
<1>8. /\ config'.key = None => config'.status \in {"missing", "config_error"}
      /\ aborted' = TRUE => config'.status # "verified"
  BY <1>1 DEF CallsInv
<1> QED BY <1>2, <1>3, <1>4, <1>5, <1>6, <1>7, <1>8 DEF CallsInv

\* A step that only makes one idle that has no call
LEMMA IdleInv ==
  ASSUME IInv, CallsInv, NEW c \in Callers, ~Open(c),
         user' = [user EXCEPT ![c] = Idle], decisions' = decisions,
         UNCHANGED <<callVars, inFlight, config, basis, ask>>
  PROVE  CallsInv'
<1>1. /\ user \in [Callers -> [phase : Phases, cred : Configs]] /\ decisions \in Nat
      /\ ask \in [Requests \cup {Startup} -> Questions]
  BY DEF CallsInv, ModelTypeOK
<1>2. user'[c].phase = "idle" /\ user' \in [Callers -> [phase : Phases, cred : Configs]]
  BY <1>1, ConfigTypes DEF Idle, User, CallsInv
<1>3. UserRight(c)'
  <2>1. ~Open(c)'
    BY DEF callVars, Open
  <2> QED BY <1>2, <2>1, UserIdle
<1>4. \A d \in Callers : (d # Summary /\ user'[d] = user[d]) \/ UserRight(d)'
  <2>1. ASSUME NEW d \in Callers, d # c PROVE d # Summary /\ user'[d] = user[d]
    BY <1>1, <2>1, Places
  <2> QED BY <1>3, <2>1
<1>5. "summary" \in Priorities
  BY DEF Priorities
<1> QED BY <1>1, <1>2, <1>4, <1>5, Places, AddedInv

LEMMA CallInv ==
  ASSUME IInv, CallsInv, NEW c \in Callers, Call(c)
  PROVE  CallsInv'
<1>1. c \in Calls /\ c # Startup /\ c \notin Requests
  BY Places
<1>2. UNCHANGED <<inFlight, config, decisions, effective, basis, ask>> /\ user[c].phase = "ready"
  BY DEF Call, configVars
<1>3. /\ user \in [Callers -> [phase : Phases, cred : Configs]] /\ decisions \in Nat
      /\ ask \in [Requests \cup {Startup} -> Questions]
  BY DEF CallsInv, ModelTypeOK
<1>4. CASE config.status = "verified" /\ SameKey(c)
  <2> DEFINE p == IF c = Router THEN "router" ELSE "freshness"
  <2>1. Schedule(c, p) /\ p \in Priorities /\ user' = [user EXCEPT ![c].phase = "called"]
    BY <1>4 DEF Call, Priorities
  <2> HIDE DEF p
  <2>2. user'[c].phase = "called" /\ user'[c].cred = user[c].cred
        /\ user' \in [Callers -> [phase : Phases, cred : Configs]]
    BY <1>3, <2>1 DEF Phases
  <2>3. UserRight(c)'
    <3>1. Fresh(user[c].cred)
      BY <1>2, <1>4 DEF CallsInv, UserRight
    <3>2. Fresh(user[c].cred)'
      BY <1>2, <2>2, <3>1 DEF Fresh
    <3>3. Open(c)'
      BY <1>1, <2>1, ScheduleKeeps
    <3> QED BY <2>2, <3>2, <3>3 DEF UserRight
  <2>4. \A d \in Callers : (d # c /\ user'[d] = user[d]) \/ UserRight(d)'
    <3>1. ASSUME NEW d \in Callers, d # c PROVE user'[d] = user[d]
      BY <1>3, <2>1, <3>1
    <3> QED BY <2>3, <3>1
  <2> QED BY <1>1, <1>2, <1>3, <2>1, <2>2, <2>4, AddedInv
<1>5. CASE ~(config.status = "verified" /\ SameKey(c))
  <2>1. user' = [user EXCEPT ![c] = Idle] /\ UNCHANGED callVars
    BY <1>5 DEF Call
  <2>2. ~Open(c)
    BY <1>2 DEF CallsInv, UserRight
  <2> QED BY <1>2, <2>1, <2>2, IdleInv
<1> QED BY <1>4, <1>5

\* Steps that abort the calls
LEMMA AbortInv ==
  ASSUME IInv, CallsInv, NEW users, Abort(users),
         \A d \in Callers : /\ users[d] = user[d] \/ (users[d] = Idle /\ ~Open(d))
                            /\ user[d].phase = "refused" => StillFresh(user[d].cred),
         config' \in Configs, config'.status # "verified", decisions' \in Nat,
         config'.key = None => config'.status \in {"missing", "config_error"},
         VerdictIsOfKey'
  PROVE  CallsInv'
<1>1. ASSUME NEW d \in Callers
      PROVE  UserRight(d)' /\ user'[d] \in [phase : Phases, cred : Configs]
  <2>1. UserRight(d) /\ ModelTypeOK
    BY DEF CallsInv
  <2>2. users[d] = user[d] \/ (users[d] = Idle /\ ~Open(d))
    OBVIOUS
  <2>3. user[d].phase = "refused" => StillFresh(user[d].cred)
    OBVIOUS
  <2>4. config'.status # "verified"
    OBVIOUS
  <2> QED BY <2>1, <2>2, <2>3, <2>4, AbortUser
<1>2. user' = [d \in Callers |-> user'[d]]
  BY DEF Abort, AfterAbort
<1>3. user' \in [Callers -> [phase : Phases, cred : Configs]]
  BY <1>1, <1>2
<1>4. ask' = [r \in Requests \cup {Startup} |-> IF Rejected(r) THEN NoQuestion ELSE ask[r]]
  BY DEF Abort
<1>5. ask' \in [Requests \cup {Startup} -> Questions]
  BY <1>4, ConfigTypes DEF CallsInv, ModelTypeOK
<1>6. ASSUME NEW r \in Requests \cup {Startup}, Open(r)'
      PROVE  Open(r) /\ ask'[r] = ask[r] /\ Doomed(r)'
  <2>1. r \in Calls
    BY Places
  <2>2. state[r] # "queued" /\ Open(r) /\ state[r] = "running" /\ Doomed(r)'
    BY <1>6, <2>1, AbortKeeps DEF Abort
  <2> QED BY <1>4, <2>2 DEF Rejected
<1>7. \A r \in Requests \cup {Startup} : Open(r)' => ask'[r].key # None
  BY <1>6 DEF CallsInv
<1>8. Open(Startup)' => Doomed(Startup)'
  BY <1>6
<1>9. ~inFlight'.done => Open(Summary)'
  <2>1. CASE state[Summary] = "queued"
    <3>1. inFlight' = NoUpdate
      BY <2>1 DEF Abort, Rejected, SummarizeFails, Resume
    <3> QED BY <3>1, ConstantTypes
  <2>2. CASE state[Summary] # "queued"
    <3>1. inFlight' = inFlight
      BY <2>2 DEF Abort, Rejected, summaryVars
    <3>2. Open(Summary)' <=> Open(Summary)
      BY <2>2, Places, AbortKeeps DEF Abort
    <3> QED BY <3>1, <3>2 DEF CallsInv
  <2> QED BY <2>1, <2>2
<1> QED BY <1>1, <1>3, <1>5, <1>7, <1>8, <1>9 DEF CallsInv, ModelTypeOK

LEMMA BlameInv ==
  ASSUME IInv, CallsInv, NEW c \in Callers, Blame(c)
  PROVE  CallsInv'
<1>1. user[c].phase = "refused" /\ decisions' = decisions /\ Fresh(user[c].cred) /\ ~Open(c)
  BY DEF Blame, CallsInv, UserRight
<1>2. user \in [Callers -> [phase : Phases, cred : Configs]] /\ config \in Configs /\ decisions \in Nat
  BY DEF CallsInv, ModelTypeOK
<1>3. CASE ToBlame(c)
  <2> DEFINE users == [user EXCEPT ![c] = Idle]
  <2>1. Abort(users) /\ config' = MarkedInvalid /\ basis' = user[c].cred.key
    BY <1>3 DEF Blame
  <2>2. \A d \in Callers : users[d] = user[d] \/ (users[d] = Idle /\ ~Open(d))
    BY <1>1, <1>2
  <2> HIDE DEF users
  <2>3. \/ config' = config /\ config.key = None
        \/ /\ config.key # None /\ config'.key = config.key
           /\ config'.status = "invalid" /\ config'.version = config.version + 1
    BY <2>1 DEF MarkedInvalid, Saved, Stored
  <2>4. \A d \in Callers : user[d].phase = "refused" => StillFresh(user[d].cred)
    <3> SUFFICES ASSUME NEW d \in Callers, user[d].phase = "refused" PROVE StillFresh(user[d].cred)
      OBVIOUS
    <3>1. Fresh(user[d].cred)
      BY DEF CallsInv, UserRight
    <3>2. user[d].cred.version \in Nat /\ config.version \in Nat
      BY <1>2 DEF Configs
    <3> QED BY <2>3, <3>1, <3>2, FreshKept
  <2>5. config' \in Configs
    BY <2>1, ConfigTypes DEF CallsInv
  <2>6. config'.status # "verified" /\ (config'.key = None => config'.status \in {"missing", "config_error"})
    BY <2>3 DEF CallsInv
  <2>7. VerdictIsOfKey'
    <3>1. user[c].cred.version = config.version
      BY <1>3 DEF ToBlame, SameKey
    <3>2. basis' = config.key
      BY <1>1, <2>1, <3>1 DEF Fresh
    <3> QED BY <2>3, <2>6, <3>2 DEF VerdictIsOfKey
  <2> QED BY <1>1, <1>2, <2>1, <2>2, <2>4, <2>5, <2>6, <2>7, AbortInv
<1>4. CASE ~ToBlame(c)
  <2>1. user' = [user EXCEPT ![c] = Idle] /\ UNCHANGED <<callVars, summaryVars, config, basis, ask>>
    BY <1>4 DEF Blame
  <2>2. inFlight' = inFlight
    BY <2>1 DEF summaryVars
  <2> QED BY <1>1, <2>1, <2>2, IdleInv
<1> QED BY <1>3, <1>4

LEMMA DeleteInv ==
  ASSUME IInv, CallsInv, Quiet, NEW next \in {Deleted, Rebuilt}, Delete(next)
  PROVE  CallsInv'
<1>1. Abort(user) /\ config' = next /\ decisions' = decisions + 1
  BY DEF Delete, Decide
<1>2. config' \in Configs /\ config'.status = "missing"
  BY <1>1, ConfigTypes DEF CallsInv, Deleted, Rebuilt, NoKey, Saved, Stored
<1>3. \A d \in Callers : /\ user[d] = user[d] \/ (user[d] = Idle /\ ~Open(d))
                         /\ user[d].phase = "refused" => StillFresh(user[d].cred)
  BY DEF Quiet
<1>4. decisions' \in Nat
  BY <1>1 DEF CallsInv, ModelTypeOK
<1>5. VerdictIsOfKey'
  BY <1>2 DEF VerdictIsOfKey
<1> QED BY <1>1, <1>2, <1>3, <1>4, <1>5, AbortInv

LEMMA AskForInv ==
  ASSUME IInv, CallsInv, NEW key \in Keys, NEW save \in BOOLEAN, AskFor(key, save)
  PROVE  CallsInv'
<1>1. PICK r \in Requests : /\ Schedule(r, "validation")
                            /\ ask' = [ask EXCEPT ![r] = Question(key, save, 0, decisions')]
  BY DEF AskFor
<1>2. UNCHANGED <<user, config, basis, inFlight>> /\ decisions' = decisions + 1
  BY DEF AskFor, summaryVars, Decide
<1>3. decisions' \in Nat /\ key # None
  BY <1>2, ModelCallsAssumption DEF CallsInv, ModelTypeOK
<1>4. Question(key, save, 0, decisions') \in Questions /\ Question(key, save, 0, decisions').key = key
  BY <1>3 DEF Question, Questions
<1>5. ask \in [Requests \cup {Startup} -> Questions]
  BY DEF CallsInv, ModelTypeOK
<1> DEFINE q == Question(key, save, 0, decisions')
<1> HIDE DEF q
<1>6. ask' = [ask EXCEPT ![r] = q] /\ q \in Questions /\ q.key # None
  BY <1>1, <1>3, <1>4 DEF q
<1>7. /\ ask' \in [Requests \cup {Startup} -> Questions] /\ ask'[r].key # None
      /\ \A x \in Requests \cup {Startup} : ask'[x] = ask[x] \/ ask'[x].key # None
  BY <1>5, <1>6
<1>8. r \in Calls /\ r # Startup /\ \A d \in Callers : d # r
  BY Places
<1>9. ask'[Startup] = ask[Startup]
  BY <1>5, <1>6, <1>8
<1>10. user' \in [Callers -> [phase : Phases, cred : Configs]]
  BY <1>2 DEF CallsInv, ModelTypeOK
<1>11. "validation" \in Priorities
  BY DEF Priorities
<1>12. (\A d \in Callers : (d # r /\ user'[d] = user[d]) \/ UserRight(d)')
  BY <1>2, <1>8
<1> QED BY <1>1, <1>2, <1>3, <1>7, <1>8, <1>9, <1>10, <1>11, <1>12, AddedInv

LEMMA AskInv ==
  ASSUME IInv, SummaryInv, CallsInv, NEW c \in Callers, Ask(c)
  PROVE  CallsInv'
<1>1. /\ user[c] = Idle /\ config.status = "verified" /\ Prepare(c)
      /\ user' = [user EXCEPT ![c] = User(IF waiting'[c] = 0 THEN "ready" ELSE "context", config)]
      /\ IF waiting'[c] # 0 /\ inFlight.done THEN Schedule(Summary, "summary") ELSE UNCHANGED callVars
      /\ UNCHANGED <<config, decisions, effective, basis, ask>>
  BY DEF Ask, configVars
<1>2. Schedule(Summary, "summary") \/ UNCHANGED callVars
  BY <1>1
<1>3. /\ user \in [Callers -> [phase : Phases, cred : Configs]] /\ config \in Configs
      /\ decisions \in Nat /\ ask \in [Requests \cup {Startup} -> Questions]
  BY DEF CallsInv, ModelTypeOK
<1> DEFINE u == User(IF waiting'[c] = 0 THEN "ready" ELSE "context", config)
<1>4. /\ u \in [phase : Phases, cred : Configs] /\ u.cred = config
      /\ u.phase = IF waiting'[c] = 0 THEN "ready" ELSE "context"
  BY <1>3 DEF User, Phases
<1> HIDE DEF u
<1>5. user' \in [Callers -> [phase : Phases, cred : Configs]] /\ user'[c] = u
  BY <1>1, <1>3, <1>4 DEF u
<1>6. ~inFlight'.done => ~inFlight.done \/ Open(Summary)'
  <2> SUFFICES ASSUME inFlight.done, ~inFlight'.done PROVE Open(Summary)'
    OBVIOUS
  <2>1. waiting' = [waiting EXCEPT ![c] = latest] /\ latest > 0 /\ latest \in Nat
    BY <1>1 DEF Prepare, SummaryInv, SummaryTypeOK
  <2>2. waiting'[c] # 0
    BY <2>1 DEF SummaryInv, SummaryTypeOK
  <2>3. Schedule(Summary, "summary") /\ "summary" \in Priorities
    BY <1>1, <2>2 DEF Priorities
  <2> QED BY <2>3, Places, ScheduleKeeps
<1>7. waiting'[c] # 0 => Open(Summary)'
  <2> SUFFICES ASSUME waiting'[c] # 0 PROVE Open(Summary)'
    OBVIOUS
  <2>1. CASE inFlight.done
    <3>1. Schedule(Summary, "summary") /\ "summary" \in Priorities
      BY <1>1, <2>1 DEF Priorities
    <3> QED BY <3>1, Places, ScheduleKeeps
  <2>2. CASE ~inFlight.done
    <3>1. UNCHANGED callVars
      BY <1>1, <2>2
    <3> QED BY <2>2, <3>1 DEF CallsInv, callVars, Open
  <2> QED BY <2>1, <2>2
<1>8. UserRight(c)'
  <2>1. ~Open(c)
    BY <1>1 DEF CallsInv, UserRight, Idle, User
  <2>2. ~Open(c)'
    <3>1. CASE UNCHANGED callVars
      BY <2>1, <3>1 DEF callVars, Open
    <3>2. CASE Schedule(Summary, "summary")
      <4>1. c \in Calls \ {Summary} /\ Summary \in Calls /\ "summary" \in Priorities
        BY Places DEF Priorities
      <4> QED BY <2>1, <3>2, <4>1, ScheduleKeeps
    <3> QED BY <1>2, <3>1, <3>2
  <2>3. Fresh(user[c].cred)'
    BY <1>1, <1>3, <1>4, <1>5 DEF Fresh, Configs
  <2> QED BY <1>4, <1>5, <1>7, <2>2, <2>3 DEF UserRight
<1>9. \A d \in Callers : (d # Summary /\ user'[d] = user[d]) \/ UserRight(d)'
  <2>1. ASSUME NEW d \in Callers, d # c PROVE d # Summary /\ user'[d] = user[d]
    BY <1>1, <1>3, <2>1, Places
  <2> QED BY <1>8, <2>1
<1>10. "summary" \in Priorities
  BY DEF Priorities
<1> QED BY <1>1, <1>2, <1>3, <1>5, <1>6, <1>9, <1>10, Places, AddedInv

------------------------------------------------------------------------------
(* The ends of calls *)

LEMMA EndInv ==
  ASSUME IInv, CallsInv, End, NEW r \in Calls, r = running, decisions' = decisions,
         config' = config \/ (config'.version = config.version + 1 /\ Quiet),
         config' \in Configs, VerdictIsOfKey',
         config'.key = None => config'.status \in {"missing", "config_error"},
         user' \in [Callers -> [phase : Phases, cred : Configs]],
         ask' = ask \/ ask' = [ask EXCEPT ![r] = NoQuestion],
         \A d \in Callers :
           \/ d # r /\ user'[d] = user[d] /\ (user[d].phase = "context" => r # Summary)
           \/ UserRight(d)',
         ~inFlight'.done => ~inFlight.done /\ r # Summary
  PROVE  CallsInv'
<1>1. /\ aborted' # TRUE /\ ~Open(r)'
      /\ \A d \in Calls \ {r} : (Open(d)' <=> Open(d)) /\ ~Doomed(d)
  BY EndKeeps
<1>2. ask \in [Requests \cup {Startup} -> Questions] /\ config \in Configs /\ decisions \in Nat
  BY DEF CallsInv, ModelTypeOK
<1>3. /\ ask' \in [Requests \cup {Startup} -> Questions]
      /\ \A q \in Requests \cup {Startup} : q # r => ask'[q] = ask[q]
  BY <1>2, ConfigTypes DEF CallsInv
<1>4. ASSUME NEW d \in Callers PROVE UserRight(d)'
  <2>1. CASE d # r /\ user'[d] = user[d] /\ (user[d].phase = "context" => r # Summary)
    <3>1. (Open(d)' <=> Open(d)) /\ (Doomed(d) => Doomed(d)')
      BY <1>1, <2>1, Places
    <3>2. user[d].phase = "context" =>
            (Open(Summary) => Open(Summary)') /\ (Doomed(Summary) => Doomed(Summary)')
      BY <1>1, <2>1, Places
    <3>3. config' = config \/ (config'.version = config.version + 1 /\ user[d].phase # "ready")
      BY DEF Quiet
    <3>4. UserRight(d) /\ ModelTypeOK
      BY DEF CallsInv
    <3> QED BY <2>1, <3>1, <3>2, <3>3, <3>4, UserKept
  <2> QED BY <2>1
<1>5. ModelTypeOK'
  BY <1>2, <1>3 DEF ModelTypeOK
<1>6. ASSUME NEW q \in Requests \cup {Startup}, Open(q)' PROVE ask'[q].key # None
  <2>1. q # r /\ Open(q)
    BY <1>1, <1>6, Places
  <2> QED BY <1>3, <2>1 DEF CallsInv
<1>7. ASSUME Open(Startup)' PROVE Fresh(ask[Startup])'
  <2>1. Startup # r /\ Open(Startup) /\ ~Doomed(Startup)
    BY <1>1, <1>7, Places
  <2>2. Fresh(ask[Startup]) /\ ask'[Startup] = ask[Startup]
    BY <1>3, <2>1 DEF CallsInv
  <2>3. StillFresh(ask[Startup])
    <3>1. ask[Startup].version \in Nat /\ config.version \in Nat
      BY <1>2 DEF Questions, Configs
    <3> QED BY <2>2, <3>1, FreshKept
  <2> QED BY <2>2, <2>3 DEF Fresh, StillFresh
<1>8. ~inFlight'.done => Open(Summary)'
  BY <1>1, Places DEF CallsInv
<1> QED BY <1>1, <1>4, <1>5, <1>6, <1>7, <1>8 DEF CallsInv

\* The verdict on a key
LEMMA ValidationInv ==
  ASSUME IInv, CallsInv, End, Quiet,
         ValidationOk \/ \E why \in Reasons : (aborted => why = "other") /\ ValidationFails(why)
  PROVE  CallsInv'
<1> PICK r \in Requests \cup {Startup} : r = running
  BY DEF ValidationOk, ValidationFails, ValidationEnds
<1>1. r \in Calls /\ r # Summary /\ r \notin Callers /\ Open(r) /\ state[r] = "running"
  BY Places, EndKeeps
<1>2. /\ UNCHANGED <<user, decisions, inFlight>>
      /\ ask' = [ask EXCEPT ![r] = NoQuestion]
  BY DEF ValidationOk, ValidationFails, Forget, summaryVars
<1>3. config \in Configs /\ ask[r] \in Questions /\ ask[r].key \in Keys
  BY <1>1 DEF CallsInv, ModelTypeOK, Questions
<1> DEFINE key == ask[r].key
<1>4. \/ config' = config /\ basis' = basis
      \/ config' = Saved(key, "verified") /\ basis' = key
      \/ config' = Saved(key, "unverified")
      \/ config' = MarkedInvalid /\ basis' = key /\ key = config.key
  <2>1. CASE ValidationOk
    BY <2>1 DEF ValidationOk
  <2>2. ASSUME NEW why \in Reasons, aborted => why = "other", ValidationFails(why)
        PROVE  \/ config' = config /\ basis' = basis
               \/ config' = Saved(key, "unverified")
               \/ config' = MarkedInvalid /\ basis' = key /\ key = config.key
    <3>1. CASE why = "invalid_key" /\ Concerns(r)
      <4>1. config' = MarkedInvalid /\ basis' = key
        BY <2>2, <3>1 DEF ValidationFails
      <4>2. CASE r # Startup
        BY <3>1, <4>1, <4>2 DEF Concerns
      <4>3. CASE r = Startup
        <5>1. ~aborted
          BY <2>2, <3>1
        <5>2. Fresh(ask[Startup])
          BY <1>1, <4>3, <5>1 DEF CallsInv, Doomed
        <5>3. config.version = ask[r].version
          BY <3>1, <4>3 DEF Concerns, Counts
        <5> QED BY <4>1, <4>3, <5>2, <5>3 DEF Fresh
      <4> QED BY <4>2, <4>3
    <3>2. CASE why = "network" /\ r # Startup /\ ask[r].save /\ config.key = None
      BY <2>2, <3>2 DEF ValidationFails
    <3>3. CASE /\ ~(why = "invalid_key" /\ Concerns(r))
               /\ ~(why = "network" /\ r # Startup /\ ask[r].save /\ config.key = None)
      BY <2>2, <3>3 DEF ValidationFails
    <3> QED BY <3>1, <3>2, <3>3
  <2> QED BY <2>1, <2>2
<1>5. key # None
  BY <1>3, ModelCallsAssumption
<1> HIDE DEF key
<1>6. /\ config' = config \/ config'.version = config.version + 1
      /\ config' \in Configs
      /\ config'.key = None => config'.status \in {"missing", "config_error"}
      /\ VerdictIsOfKey'
  <2>1. CASE config' = config /\ basis' = basis
    BY <2>1 DEF CallsInv, ModelTypeOK, VerdictIsOfKey
  <2>2. CASE config' = Saved(key, "verified") /\ basis' = key
    BY <1>3, <1>5, <2>2 DEF Saved, Stored, Configs, ConfigStatuses, VerdictIsOfKey, key
  <2>3. CASE config' = Saved(key, "unverified")
    BY <1>3, <1>5, <2>3 DEF Saved, Stored, Configs, ConfigStatuses, VerdictIsOfKey, key
  <2>4. CASE config' = MarkedInvalid /\ basis' = key /\ key = config.key
    <3>1. config' = Saved(key, "invalid")
      BY <1>5, <2>4 DEF MarkedInvalid
    <3> QED BY <1>3, <1>5, <2>4, <3>1 DEF Saved, Stored, Configs, ConfigStatuses, VerdictIsOfKey, key
  <2> QED BY <1>4, <2>1, <2>2, <2>3, <2>4
<1>7. user' \in [Callers -> [phase : Phases, cred : Configs]]
  BY <1>2 DEF CallsInv, ModelTypeOK
<1>8. \A d \in Callers :
        \/ d # r /\ user'[d] = user[d] /\ (user[d].phase = "context" => r # Summary)
        \/ UserRight(d)'
  BY <1>1, <1>2
<1> QED BY <1>1, <1>2, <1>6, <1>7, <1>8, EndInv

\* The summary is there, or it failed: who waited goes on.
LEMMA SummaryEndInv ==
  ASSUME IInv, CallsInv, End, SummaryEnds, SummarizeOk \/ SummarizeFails,
         user' = ContextReady, UNCHANGED <<configVars, ask>>
  PROVE  CallsInv'
<1>1. Summary \in Calls /\ Summary = running /\ inFlight'.done
  BY Places, ConstantTypes DEF SummaryEnds, SummarizeOk, SummarizeFails, Resume
<1>2. UNCHANGED <<config, basis, decisions, ask>>
  BY DEF configVars
<1>3. user \in [Callers -> [phase : Phases, cred : Configs]] /\ config \in Configs
  BY DEF CallsInv, ModelTypeOK
<1>4. /\ user' \in [Callers -> [phase : Phases, cred : Configs]]
      /\ \A d \in Callers : user[d].phase # "context" => user'[d] = user[d]
      /\ \A d \in Callers : user[d].phase = "context" =>
           user'[d].phase = "ready" /\ user'[d].cred = user[d].cred
  BY <1>3 DEF ContextReady, Phases
<1>5. ASSUME NEW d \in Callers, user[d].phase = "context" PROVE UserRight(d)'
  <2>1. Fresh(user[d].cred) \/ config.status # "verified"
    BY <1>5 DEF CallsInv, UserRight, Doomed
  <2>2. Fresh(user[d].cred)' \/ config'.status # "verified"
    BY <1>2, <1>4, <1>5, <2>1 DEF Fresh
  <2>3. ~Open(d)'
    <3>1. ~Open(d) /\ d \in Calls /\ d # Summary
      BY <1>5, Places DEF CallsInv, UserRight
    <3> QED BY <1>1, <3>1, EndKeeps
  <2> QED BY <1>4, <1>5, <2>2, <2>3 DEF UserRight
<1>6. \A d \in Callers :
        \/ d # Summary /\ user'[d] = user[d] /\ (user[d].phase = "context" => Summary # Summary)
        \/ UserRight(d)'
  BY <1>4, <1>5, Places
<1>7. VerdictIsOfKey' /\ (config'.key = None => config'.status \in {"missing", "config_error"})
  BY <1>2 DEF CallsInv, VerdictIsOfKey
<1> QED BY <1>1, <1>2, <1>3, <1>4, <1>6, <1>7, EndInv

\* The router or the freshness check has its answer.
LEMMA UseEndInv ==
  ASSUME IInv, CallsInv, End,
         UseOk \/ \E why \in Reasons : (aborted => why = "other") /\ UseFails(why)
  PROVE  CallsInv'
<1> PICK r \in Callers : r = running
  BY DEF UseOk, UseFails, UseEnds
<1>1. r \in Calls /\ r # Summary /\ Open(r) /\ state[r] = "running" /\ ~Open(r)'
  BY Places, EndKeeps
<1>2. UNCHANGED <<config, basis, decisions, ask, inFlight>>
  BY DEF UseOk, UseFails, configVars, summaryVars
<1>3. user \in [Callers -> [phase : Phases, cred : Configs]] /\ config \in Configs
  BY DEF CallsInv, ModelTypeOK
<1>4. user[r].phase = "called" /\ (Fresh(user[r].cred) \/ aborted = TRUE)
  BY <1>1 DEF CallsInv, UserRight, Doomed
<1>5. \/ user' = [user EXCEPT ![r] = Idle]
      \/ user' = [user EXCEPT ![r].phase = "refused"] /\ Fresh(user[r].cred)
  <2>1. CASE UseOk
    BY <2>1 DEF UseOk
  <2>2. ASSUME NEW why \in Reasons, aborted => why = "other", UseFails(why)
        PROVE  \/ user' = [user EXCEPT ![r] = Idle]
               \/ user' = [user EXCEPT ![r].phase = "refused"] /\ Fresh(user[r].cred)
    <3>1. CASE why = "invalid_key"
      <4>1. ~aborted
        BY <2>2, <3>1
      <4> QED BY <1>4, <2>2, <3>1, <4>1 DEF UseFails
    <3>2. CASE why # "invalid_key"
      BY <2>2, <3>2 DEF UseFails
    <3> QED BY <3>1, <3>2
  <2> QED BY <2>1, <2>2
<1>6. /\ user' \in [Callers -> [phase : Phases, cred : Configs]]
      /\ \A d \in Callers : d # r => user'[d] = user[d]
  BY <1>3, <1>5, ConfigTypes DEF CallsInv, Phases
<1>7. UserRight(r)'
  <2>1. CASE user' = [user EXCEPT ![r] = Idle]
    <3>1. user'[r].phase = "idle"
      BY <1>3, <2>1 DEF Idle, User
    <3> QED BY <1>1, <3>1, UserIdle
  <2>2. CASE user' = [user EXCEPT ![r].phase = "refused"] /\ Fresh(user[r].cred)
    <3>1. user'[r].phase = "refused" /\ user'[r].cred = user[r].cred
      BY <1>3, <2>2
    <3>2. Fresh(user[r].cred)'
      BY <1>2, <2>2, <3>1 DEF Fresh
    <3> QED BY <1>1, <3>1, <3>2 DEF UserRight
  <2> QED BY <1>5, <2>1, <2>2
<1>8. \A d \in Callers :
        \/ d # r /\ user'[d] = user[d] /\ (user[d].phase = "context" => r # Summary)
        \/ UserRight(d)'
  BY <1>1, <1>6, <1>7
<1>9. VerdictIsOfKey' /\ (config'.key = None => config'.status \in {"missing", "config_error"})
  BY <1>2 DEF CallsInv, VerdictIsOfKey
<1> QED BY <1>1, <1>2, <1>3, <1>6, <1>8, <1>9, EndInv

------------------------------------------------------------------------------
(* The rest *)

LEMMA RebootInv == CallsInv /\ Reboot => CallsInv'
<1> SUFFICES ASSUME CallsInv, Reboot PROVE CallsInv'
  OBVIOUS
<1> DEFINE check == config'.status = "unverified"
<1>1. /\ config' \in {config, Stored(None, "config_error", 0)}
      /\ user' = [c \in Callers |-> Idle] /\ aborted' = FALSE
      /\ inFlight' = NoUpdate /\ decisions' = decisions /\ basis' = basis
      /\ state' = IF check THEN [[c \in Calls |-> "new"] EXCEPT ![Startup] = "running"]
                  ELSE [c \in Calls |-> "new"]
      /\ ask' = IF check THEN [[c \in Requests \cup {Startup} |-> NoQuestion] EXCEPT
                                  ![Startup] = Question(config'.key, TRUE, config'.version, 0)]
                ELSE [c \in Requests \cup {Startup} |-> NoQuestion]
  BY DEF Reboot, Restart
<1>2. config \in Configs /\ decisions \in Nat
  BY DEF CallsInv, ModelTypeOK
<1>3. /\ config' \in Configs
      /\ config'.key = None => config'.status \in {"missing", "config_error"}
      /\ VerdictIsOfKey'
  <2>1. CASE config' = config
    BY <1>1, <1>2, <2>1 DEF CallsInv, VerdictIsOfKey
  <2>2. CASE config' = Stored(None, "config_error", 0)
    <3>1. config'.status = "config_error"
      BY <2>2 DEF Stored
    <3> QED BY <2>2, <3>1, ConfigTypes DEF CallsInv, VerdictIsOfKey
  <2> QED BY <1>1, <2>1, <2>2
<1>4. \A c \in Calls : Open(c)' <=> check /\ c = Startup
  <2>1. CASE check
    BY <1>1, <2>1 DEF Open
  <2>2. CASE ~check
    BY <1>1, <2>2 DEF Open
  <2> QED BY <2>1, <2>2
<1>5. user' \in [Callers -> [phase : Phases, cred : Configs]] /\ \A c \in Callers : user'[c].phase = "idle"
  BY <1>1, ConfigTypes DEF CallsInv, Idle, User
<1>6. ask' \in [Requests \cup {Startup} -> Questions]
  <2>1. NoQuestion \in Questions /\ Question(config'.key, TRUE, config'.version, 0) \in Questions
    BY <1>3, ConfigTypes DEF CallsInv, Question, Questions, Configs
  <2> QED BY <1>1, <2>1
<1>7. check => ask'[Startup].key = config'.key /\ ask'[Startup].version = config'.version /\ config'.key # None
  BY <1>1, <1>3 DEF Question
<1>8. Open(Startup)' => Fresh(ask[Startup])'
  BY <1>3, <1>4, <1>7, Places DEF Fresh, Configs
<1>9. \A r \in Requests \cup {Startup} : Open(r)' => ask'[r].key # None
  BY <1>4, <1>7, Places
<1>10. \A c \in Callers : UserRight(c)'
  BY <1>4, <1>5, Places, UserIdle
<1>11. ModelTypeOK'
  BY <1>1, <1>2, <1>3, <1>5, <1>6 DEF ModelTypeOK
<1> QED BY <1>1, <1>3, <1>8, <1>9, <1>10, <1>11, ConstantTypes DEF CallsInv

LEMMA KeptInv ==
  ASSUME CallsInv, UNCHANGED <<state, aborted, inFlight, config, decisions, basis, ask, user>>
  PROVE  CallsInv'
  BY DEF CallsInv, ModelTypeOK, UserRight, Open, Doomed, Fresh, VerdictIsOfKey,
         Configs, ConfigStatuses, Phases, Questions

LEMMA SystemCallsInv == ModelInv /\ [SystemNext]_modelVars => CallsInv'
<1> SUFFICES ASSUME IInv, SummaryInv, CallsInv, [SystemNext]_modelVars PROVE CallsInv'
  BY DEF ModelInv
<1>1. ASSUME Microtask PROVE CallsInv'
  BY <1>1, CallInv, BlameInv DEF Microtask
<1>2. ASSUME Quiet, Succeeds PROVE CallsInv'
  <2>1. End
    BY <1>2 DEF Succeeds
  <2>2. CASE ValidationOk
    BY <1>2, <2>1, <2>2, ValidationInv
  <2>3. CASE SummaryOk
    BY <2>1, <2>3, SummaryEndInv DEF SummaryOk
  <2>4. CASE UseOk
    BY <2>1, <2>4, UseEndInv
  <2> QED BY <1>2, <2>2, <2>3, <2>4 DEF Succeeds
<1>3. ASSUME Quiet, NEW why \in Reasons, Fails(why) PROVE CallsInv'
  <2>1. End /\ (aborted => why = "other")
    BY <1>3 DEF Fails
  <2>2. CASE ValidationFails(why)
    BY <1>3, <2>1, <2>2, ValidationInv
  <2>3. CASE SummaryFails
    BY <2>1, <2>3, SummaryEndInv DEF SummaryFails
  <2>4. CASE UseFails(why)
    BY <2>1, <2>4, UseEndInv
  <2> QED BY <1>3, <2>2, <2>3, <2>4 DEF Fails
<1>4. ASSUME NEW key \in Keys, Update(key) \/ Validate(key) PROVE CallsInv'
  BY <1>4, AskForInv DEF Update, Validate
<1>5. ASSUME ValidateStored PROVE CallsInv'
  <2>1. config.key \in Keys
    BY <1>5 DEF ValidateStored, CallsInv, ModelTypeOK, Configs
  <2> QED BY <1>5, <2>1, AskForInv DEF ValidateStored
<1>6. ASSUME Quiet, NEW next \in {Deleted, Rebuilt}, Delete(next) PROVE CallsInv'
  BY <1>6, DeleteInv
<1>7. ASSUME Post, UNCHANGED <<callVars, configVars, ask, user>> PROVE CallsInv'
  BY <1>7, KeptInv DEF Post, callVars, configVars
<1>8. ASSUME NEW c \in Callers, Ask(c) PROVE CallsInv'
  BY <1>8, AskInv
<1>9. ASSUME Reboot PROVE CallsInv'
  BY <1>9, RebootInv
<1>10. CASE UNCHANGED modelVars
  BY <1>10, KeptInv DEF modelVars, callVars, configVars, summaryVars
<1> QED
  BY <1>1, <1>2, <1>3, <1>4, <1>5, <1>6, <1>7, <1>8, <1>9, <1>10 DEF SystemNext, Answer

LEMMA SystemInitInv == SystemInit => ModelInv
<1> SUFFICES ASSUME SystemInit PROVE ModelInv
  OBVIOUS
<1>1. IInv /\ SummaryInv
  BY InvInit, SummaryInitInv DEF SystemInit
<1>2. /\ state = [c \in Calls |-> "new"] /\ aborted = FALSE /\ inFlight = NoUpdate
      /\ decisions = 0 /\ basis = config.key
      /\ user = [c \in Callers |-> Idle]
      /\ ask = [c \in Requests \cup {Startup} |-> NoQuestion]
  BY DEF SystemInit, Init, SummaryInit
<1>3. \A c \in Calls : ~Open(c)
  BY <1>2 DEF Open
<1>4. /\ config \in Configs
      /\ config.key = None => config.status \in {"missing", "config_error"}
  <2>1. CASE config = NoKey
    BY <2>1 DEF NoKey, Stored, Configs, ConfigStatuses
  <2>2. CASE config = Stored(CHOOSE key \in Keys : TRUE, "verified", 1)
    <3>1. (CHOOSE key \in Keys : TRUE) \in Keys
      BY ModelCallsAssumption
    <3> QED BY <2>2, <3>1, ModelCallsAssumption DEF Stored, Configs, ConfigStatuses
  <2> QED BY <2>1, <2>2 DEF SystemInit
<1>5. /\ NoQuestion \in Questions /\ Idle \in [phase : Phases, cred : Configs] /\ Idle.phase = "idle"
  BY DEF NoQuestion, Question, Questions, Idle, User, Phases, NoKey, Stored, Configs, ConfigStatuses
<1>6. ModelTypeOK
  BY <1>2, <1>4, <1>5 DEF ModelTypeOK
<1>7. \A c \in Callers : UserRight(c)
  BY <1>2, <1>3, <1>5, Places DEF UserRight
<1>8. CallsInv
  BY <1>2, <1>3, <1>4, <1>6, <1>7, ConstantTypes, Places DEF CallsInv, VerdictIsOfKey
<1> QED BY <1>1, <1>8 DEF ModelInv

LEMMA ModelInvariant == System => []ModelInv
<1>1. ModelInv /\ [SystemNext]_modelVars => ModelInv'
  BY SystemIInv, SystemSummaryInv, SystemCallsInv DEF ModelInv
<1> QED BY <1>1, SystemInitInv, PTL DEF System

------------------------------------------------------------------------------
(* The order of decisions *)

\* Requests of users wait in one queue, in the order of their numbers a.
InOrder(q, a) ==
  /\ \A p \in Priorities, i \in Nat, r \in Requests : In(q, p, i, r) => p = "validation"
  /\ \A i, j \in Nat, r, s \in Requests :
       In(q, "validation", i, r) /\ In(q, "validation", j, s) /\ i <= j => a[r].number <= a[s].number

\* No request that waits is older than c.
Oldest(c, q, a) ==
  c \in Requests =>
    \A p \in Priorities, i \in Nat, r \in Requests : In(q, p, i, r) => a[c].number <= a[r].number

\* A request that may still have an effect is no older than what is stored.
InTime(r) ==
  Open(r) => ask[r].number <= decisions /\ (effective <= ask[r].number \/ Doomed(r))

OrderInv ==
  /\ effective \in Nat /\ effective <= decisions
  /\ \A r \in Requests : InTime(r)
  /\ InOrder(queues, ask) /\ Oldest(running, queues, ask)

LEMMA AppendInOrder ==
  ASSUME NEW q \in [Priorities -> Seq(Calls)], NEW c \in Calls, NEW p \in Priorities, NEW a,
         InOrder(q, a),
         c \in Requests =>
           /\ p = "validation" /\ a[c].number \in Nat
           /\ \A x \in Priorities, i \in Nat, r \in Requests :
                In(q, x, i, r) => a[r].number <= a[c].number
  PROVE  /\ InOrder([q EXCEPT ![p] = Append(@, c)], a)
         /\ \A x : /\ Oldest(x, q, a)
                   /\ x \in Requests /\ c \in Requests => a[x].number <= a[c].number
                   => Oldest(x, [q EXCEPT ![p] = Append(@, c)], a)
<1> DEFINE q2 == [q EXCEPT ![p] = Append(@, c)]
<1>1. /\ \A x \in Priorities : x # p => q2[x] = q[x]
      /\ q2[p] = Append(q[p], c) /\ Len(q2[p]) = Len(q[p]) + 1 /\ Len(q[p]) \in Nat
      /\ \A i \in 1..Len(q[p]) : q2[p][i] = q[p][i]
      /\ q2[p][Len(q[p]) + 1] = c
  OBVIOUS
<1> HIDE DEF q2
<1>2. ASSUME NEW x \in Priorities, NEW i \in Nat, NEW r, In(q2, x, i, r)
      PROVE  \/ In(q, x, i, r)
             \/ x = p /\ i = Len(q[p]) + 1 /\ r = c
  <2>1. CASE x # p
    BY <1>1, <1>2, <2>1 DEF In
  <2>2. CASE x = p /\ i = Len(q[p]) + 1
    BY <1>1, <1>2, <2>2 DEF In
  <2>3. CASE x = p /\ i # Len(q[p]) + 1
    <3>1. i \in 1..Len(q[p])
      BY <1>1, <1>2, <2>3 DEF In
    <3> QED BY <1>1, <1>2, <2>3, <3>1 DEF In
  <2> QED BY <2>1, <2>2, <2>3
<1>3. ASSUME NEW x \in Priorities, NEW i \in Nat, NEW r \in Requests, In(q2, x, i, r)
      PROVE  x = "validation"
  BY <1>2, <1>3 DEF InOrder
<1>4. ASSUME NEW i \in Nat, NEW j \in Nat, NEW r \in Requests, NEW s \in Requests,
             In(q2, "validation", i, r), In(q2, "validation", j, s), i <= j
      PROVE  a[r].number <= a[s].number
  <2>0. "validation" \in Priorities
    BY DEF Priorities
  <2>1. CASE In(q, "validation", i, r) /\ In(q, "validation", j, s)
    BY <1>4, <2>1 DEF InOrder
  <2>2. CASE In(q, "validation", i, r) /\ s = c
    BY <2>0, <2>2
  <2>3. CASE r = c /\ p = "validation" /\ i = Len(q[p]) + 1
    <3>1. ~In(q, "validation", j, s)
      BY <1>1, <1>4, <2>3 DEF In
    <3>2. s = c
      BY <1>2, <1>4, <2>0, <3>1
    <3> QED BY <2>3, <3>2
  <2> QED BY <1>2, <1>4, <2>0, <2>1, <2>2, <2>3
<1>5. InOrder(q2, a)
  BY <1>3, <1>4 DEF InOrder
<1>6. ASSUME NEW x, Oldest(x, q, a), x \in Requests /\ c \in Requests => a[x].number <= a[c].number
      PROVE  Oldest(x, q2, a)
  <2> SUFFICES ASSUME x \in Requests, NEW y \in Priorities, NEW i \in Nat, NEW r \in Requests,
                      In(q2, y, i, r)
               PROVE  a[x].number <= a[r].number
    BY DEF Oldest
  <2>1. CASE In(q, y, i, r)
    BY <1>6, <2>1 DEF Oldest
  <2>2. CASE r = c
    BY <1>6, <2>2
  <2>3. In(q, y, i, r) \/ r = c
    BY <1>2
  <2> QED BY <2>1, <2>2, <2>3
<1> QED BY <1>5, <1>6 DEF q2

\* The request that starts is the oldest one.
LEMMA StartInOrder ==
  ASSUME NEW q \in [Priorities -> Seq(Calls)], NEW st, NEW a, InOrder(q, a), StartNext(q, st)
  PROVE  InOrder(queues', a) /\ Oldest(running', queues', a)
<1> PICK p : p = NextPriority(q, burst)
  OBVIOUS
<1>1. p \in Priorities \cup {"none"} /\ (p # "none" => q[p] # <<>>)
  BY NextHasCall
<1>2. CASE p = "none"
  <2>1. running' = None /\ queues' = q
    BY <1>2 DEF StartNext
  <2> QED BY <2>1, ConstantsAssumption, Places DEF Oldest
<1>3. CASE p # "none"
  <2> DEFINE h == Head(q[p])
             q2 == [q EXCEPT ![p] = Tail(@)]
  <2>1. running' = h /\ queues' = q2
    BY <1>3 DEF StartNext
  <2>2. /\ \A x \in Priorities : x # p => q2[x] = q[x]
        /\ p \in Priorities /\ h = q[p][1] /\ Len(q[p]) \in Nat /\ Len(q[p]) >= 1
        /\ Len(q2[p]) = Len(q[p]) - 1
        /\ \A i \in 1..(Len(q[p]) - 1) : q2[p][i] = q[p][i + 1]
    BY <1>1, <1>3
  <2> HIDE DEF h, q2
  <2>3. ASSUME NEW x \in Priorities, NEW i \in Nat, NEW r, In(q2, x, i, r)
        PROVE  In(q, x, IF x = p THEN i + 1 ELSE i, r)
    BY <2>2, <2>3 DEF In
  <2>4. In(q, p, 1, h)
    BY <2>2 DEF In
  <2>5. InOrder(q2, a)
    <3>1. ASSUME NEW x \in Priorities, NEW i \in Nat, NEW r \in Requests, In(q2, x, i, r)
          PROVE  x = "validation"
      <4> DEFINE k == IF x = p THEN i + 1 ELSE i
      <4>1. k \in Nat /\ In(q, x, k, r)
        BY <2>3, <3>1
      <4> QED BY <4>1 DEF InOrder
    <3>2. ASSUME NEW i \in Nat, NEW j \in Nat, NEW r \in Requests, NEW s \in Requests,
                 In(q2, "validation", i, r), In(q2, "validation", j, s), i <= j
          PROVE  a[r].number <= a[s].number
      <4> DEFINE m == IF "validation" = p THEN i + 1 ELSE i
                 n == IF "validation" = p THEN j + 1 ELSE j
      <4>1. "validation" \in Priorities
        BY DEF Priorities
      <4>2. m \in Nat /\ n \in Nat /\ m <= n
        BY <3>2
      <4>3. In(q, "validation", m, r) /\ In(q, "validation", n, s)
        BY <2>3, <3>2, <4>1
      <4> QED BY <4>2, <4>3 DEF InOrder
    <3> QED BY <3>1, <3>2 DEF InOrder
  <2>6. Oldest(h, q2, a)
    <3> SUFFICES ASSUME h \in Requests, NEW x \in Priorities, NEW i \in Nat, NEW r \in Requests,
                        In(q2, x, i, r)
                 PROVE  a[h].number <= a[r].number
      BY DEF Oldest
    <3>1. p = "validation" /\ x = "validation"
      BY <2>2, <2>4, <2>5 DEF InOrder
    <3>2. In(q, "validation", i + 1, r) /\ In(q, "validation", 1, h) /\ 1 <= i + 1
      BY <2>3, <2>4, <3>1
    <3> QED BY <3>2 DEF InOrder
  <2> QED BY <2>1, <2>5, <2>6
<1> QED BY <1>2, <1>3

LEMMA ScheduleInOrder ==
  ASSUME IInv, NEW c \in Calls, NEW p \in Priorities, Schedule(c, p), NEW a,
         InOrder(queues, a), Oldest(running, queues, a),
         c \in Requests =>
           /\ p = "validation" /\ a[c].number \in Nat
           /\ \A r \in Requests : r # c /\ Open(r) => a[r].number <= a[c].number
  PROVE  InOrder(queues', a) /\ Oldest(running', queues', a)
<1> DEFINE q == [queues EXCEPT ![p] = Append(@, c)]
           st == [state EXCEPT ![c] = "queued"]
<1>1. queues \in [Priorities -> Seq(Calls)] /\ q \in [Priorities -> Seq(Calls)]
  BY DEF IInv, TypeOK
<1>2. \A x \in Priorities, i \in Nat, r \in Calls : In(queues, x, i, r) => state[r] = "queued"
  BY DEF IInv, Held
<1>3. ~Open(c)
  BY DEF Schedule, Open
<1>4. c \in Requests =>
        /\ p = "validation" /\ a[c].number \in Nat
        /\ \A x \in Priorities, i \in Nat, r \in Requests :
             In(queues, x, i, r) => a[r].number <= a[c].number
  BY <1>2, <1>3, Places DEF Open
<1>5. running \in Requests /\ c \in Requests => a[running].number <= a[c].number
  <2> SUFFICES ASSUME running \in Requests, c \in Requests PROVE a[running].number <= a[c].number
    OBVIOUS
  <2>1. Open(running)
    BY Places, RunningIs DEF Open
  <2> QED BY <1>3, <2>1
<1>6. InOrder(q, a) /\ Oldest(running, q, a)
  BY <1>1, <1>4, <1>5, AppendInOrder
<1>7. IF running = None THEN StartNext(q, st) ELSE queues' = q /\ running' = running
  BY DEF Schedule
<1> HIDE DEF q, st
<1>8. CASE running = None
  BY <1>1, <1>6, <1>7, <1>8, StartInOrder
<1>9. CASE running # None
  BY <1>6, <1>7, <1>9
<1> QED BY <1>8, <1>9

LEMMA EndInOrder ==
  ASSUME IInv, End, NEW a, InOrder(queues, a)
  PROVE  InOrder(queues', a) /\ Oldest(running', queues', a)
<1>1. queues \in [Priorities -> Seq(Calls)] /\ StartNext(queues, [state EXCEPT ![running] = "new"])
  BY DEF IInv, TypeOK, End, Finish
<1> QED BY <1>1, StartInOrder

\* Nothing waits.
LEMMA EmptyInOrder ==
  ASSUME NEW q, NEW a, NEW c, \A p \in Priorities : q[p] = <<>>
  PROVE  InOrder(q, a) /\ Oldest(c, q, a)
<1>1. "validation" \in Priorities /\ \A p \in Priorities, i \in Nat : \A r : ~In(q, p, i, r)
  BY DEF Priorities, In
<1> QED BY <1>1 DEF InOrder, Oldest

\* The numbers of requests that do not wait make no difference.
LEMMA OthersInOrder ==
  ASSUME NEW q, NEW a, NEW b, InOrder(q, a),
         \A p \in Priorities, i \in Nat, r \in Requests : In(q, p, i, r) => b[r] = a[r]
  PROVE  /\ InOrder(q, b)
         /\ \A c : Oldest(c, q, a) /\ (c \in Requests => b[c] = a[c]) => Oldest(c, q, b)
<1>1. "validation" \in Priorities
  BY DEF Priorities
<1>2. InOrder(q, b)
  BY <1>1 DEF InOrder
<1>3. ASSUME NEW c, Oldest(c, q, a), c \in Requests => b[c] = a[c] PROVE Oldest(c, q, b)
  BY <1>3 DEF Oldest
<1> QED BY <1>2, <1>3

LEMMA QueuedAreOpen ==
  ASSUME IInv, NEW p \in Priorities, NEW i \in Nat, NEW r \in Calls, In(queues, p, i, r)
  PROVE  state[r] = "queued" /\ Open(r) /\ r # running
  BY DEF IInv, Held, Open

\* A step that schedules a call which is no request of a user, or none
LEMMA AddedOrder ==
  ASSUME IInv, OrderInv, NEW c \in Calls, c \notin Requests, NEW p \in Priorities,
         Schedule(c, p) \/ UNCHANGED callVars, UNCHANGED <<decisions, effective, ask>>
  PROVE  OrderInv'
<1>1. CASE Schedule(c, p)
  <2>1. InOrder(queues', ask) /\ Oldest(running', queues', ask)
    BY <1>1, ScheduleInOrder DEF OrderInv
  <2>2. ASSUME NEW r \in Requests PROVE InTime(r)'
    <3>1. r \in Calls \ {c}
      BY Places
    <3>2. (Open(r)' <=> Open(r)) /\ (Doomed(r) => Doomed(r)')
      BY <1>1, <3>1, ScheduleKeeps
    <3> QED BY <3>2 DEF OrderInv, InTime
  <2> QED BY <2>1, <2>2 DEF OrderInv
<1>2. CASE UNCHANGED callVars
  BY <1>2 DEF callVars, OrderInv, InTime, Open, Doomed
<1> QED BY <1>1, <1>2

LEMMA AskForOrder ==
  ASSUME IInv, ModelTypeOK, OrderInv, NEW key \in Keys, NEW save \in BOOLEAN, AskFor(key, save)
  PROVE  OrderInv' /\ effective' = effective
<1>1. PICK c \in Requests : /\ Schedule(c, "validation")
                            /\ ask' = [ask EXCEPT ![c] = Question(key, save, 0, decisions')]
  BY DEF AskFor
<1>2. effective' = effective /\ decisions' = decisions + 1 /\ decisions \in Nat
      /\ ask \in [Requests \cup {Startup} -> Questions]
  BY DEF AskFor, Decide, ModelTypeOK
<1>3. ask'[c].number = decisions + 1 /\ \A r \in Requests : r # c => ask'[r] = ask[r]
  BY <1>1, <1>2 DEF Question
<1>4. c \in Calls /\ ~Open(c) /\ "validation" \in Priorities
  BY <1>1, Places DEF Schedule, Open, Priorities
<1>5. \A r \in Requests : ask[r].number \in Nat
  BY <1>2 DEF Questions
<1>6. InOrder(queues, ask') /\ Oldest(running, queues, ask')
  <2>1. \A p \in Priorities, i \in Nat, r \in Requests : In(queues, p, i, r) => ask'[r] = ask[r]
    BY <1>3, <1>4, Places, QueuedAreOpen
  <2>2. running \in Requests => ask'[running] = ask[running]
    <3> SUFFICES ASSUME running \in Requests PROVE ask'[running] = ask[running]
      OBVIOUS
    <3>1. Open(running)
      BY Places, RunningIs DEF Open
    <3> QED BY <1>3, <1>4, <3>1
  <2> QED BY <2>1, <2>2, OthersInOrder DEF OrderInv
<1>7. \A r \in Requests : r # c /\ Open(r) => ask'[r].number <= ask'[c].number
  BY <1>2, <1>3, <1>5 DEF OrderInv, InTime
<1>8. InOrder(queues', ask') /\ Oldest(running', queues', ask')
  <2>1. ask'[c].number \in Nat
    BY <1>2, <1>3
  <2> QED BY <1>1, <1>4, <1>6, <1>7, <2>1, ScheduleInOrder
<1>9. ASSUME NEW r \in Requests PROVE InTime(r)'
  <2>1. CASE r = c
    BY <1>2, <1>3, <2>1 DEF InTime, OrderInv
  <2>2. CASE r # c
    <3>1. (Open(r)' <=> Open(r)) /\ (Doomed(r) => Doomed(r)')
      BY <1>1, <1>4, <2>2, Places, ScheduleKeeps
    <3>2. InTime(r)
      BY DEF OrderInv
    <3> QED BY <1>2, <1>3, <1>5, <2>2, <3>1, <3>2 DEF InTime
  <2> QED BY <2>1, <2>2
<1>10. effective' \in Nat /\ effective' <= decisions'
  BY <1>2 DEF OrderInv
<1> QED BY <1>2, <1>8, <1>9, <1>10 DEF OrderInv

\* After abortAll only the running call is left, and it fails.
LEMMA AbortOrder ==
  ASSUME IInv, ModelTypeOK, OrderInv, NEW users, Abort(users),
         decisions' \in Nat, decisions' >= decisions, effective' \in Nat, effective' <= decisions'
  PROVE  OrderInv'
<1>1. AbortAll /\ ask' = [r \in Requests \cup {Startup} |-> IF Rejected(r) THEN NoQuestion ELSE ask[r]]
  BY DEF Abort
<1>2. InOrder(queues', ask') /\ Oldest(running', queues', ask')
  <2>1. \A p \in Priorities : queues'[p] = <<>>
    BY <1>1 DEF AbortAll
  <2> QED BY <2>1, EmptyInOrder
<1>3. ASSUME NEW r \in Requests, Open(r)' PROVE ask'[r].number <= decisions' /\ Doomed(r)'
  <2>1. r \in Calls
    BY Places
  <2>2. state[r] # "queued" /\ Open(r) /\ Doomed(r)'
    BY <1>1, <1>3, <2>1, AbortKeeps
  <2>3. ask'[r] = ask[r]
    BY <1>1, <2>2 DEF Rejected
  <2>4. ask[r].number \in Nat /\ ask[r].number <= decisions /\ decisions \in Nat
    BY <2>2 DEF OrderInv, InTime, ModelTypeOK, Questions
  <2> QED BY <2>2, <2>3, <2>4
<1>4. \A r \in Requests : InTime(r)'
  BY <1>3 DEF InTime
<1> QED BY <1>2, <1>4 DEF OrderInv

\* The running call ends; when it is a request that was not aborted, what it asked
\* for may be stored.
LEMMA EndOrder ==
  ASSUME IInv, ModelTypeOK, OrderInv, End, NEW r \in Calls, r = running,
         decisions' = decisions, ask' = ask \/ ask' = [ask EXCEPT ![r] = NoQuestion],
         \/ effective' = effective
         \/ r \in Requests /\ aborted # TRUE /\ effective' = ask[r].number
  PROVE  OrderInv' /\ effective' >= effective
<1>1. /\ state[r] = "running" /\ Open(r) /\ ~Open(r)'
      /\ \A d \in Calls \ {r} : (Open(d)' <=> Open(d)) /\ ~Doomed(d)
  BY EndKeeps
<1>2. decisions \in Nat /\ ask \in [Requests \cup {Startup} -> Questions]
  BY DEF ModelTypeOK
<1>3. \A d \in Requests : ask[d].number \in Nat /\ (d # r => ask'[d] = ask[d])
  BY <1>2 DEF Questions
<1>4. InOrder(queues', ask) /\ Oldest(running', queues', ask)
  BY EndInOrder DEF OrderInv
<1>5. IInv'
  BY FinishStep DEF End, Settled
<1>6. \A p \in Priorities, i \in Nat, d \in Requests : In(queues', p, i, d) => ask'[d] = ask[d]
  <2> SUFFICES ASSUME NEW p \in Priorities, NEW i \in Nat, NEW d \in Requests, In(queues', p, i, d)
               PROVE  ask'[d] = ask[d]
    OBVIOUS
  <2>1. Open(d)'
    BY <1>5, Places DEF IInv, Held, Open
  <2> QED BY <1>1, <1>3, <2>1
<1>7. running' \in Requests => ask'[running'] = ask[running']
  <2> SUFFICES ASSUME running' \in Requests PROVE ask'[running'] = ask[running']
    OBVIOUS
  <2>1. state'[running'] = "running"
    BY <1>5, Places DEF IInv, Held
  <2>2. running' # r
    BY <1>1, <2>1 DEF Open
  <2> QED BY <1>3, <2>2
<1>8. InOrder(queues', ask') /\ Oldest(running', queues', ask')
  BY <1>4, <1>6, <1>7, OthersInOrder
<1>9. ASSUME NEW d \in Requests, Open(d)'
      PROVE  ask'[d].number <= decisions' /\ effective' <= ask'[d].number
  <2>1. d # r /\ Open(d) /\ ~Doomed(d) /\ ask'[d] = ask[d] /\ d \in Calls
    BY <1>1, <1>3, <1>9, Places
  <2>2. ask[d].number <= decisions /\ effective <= ask[d].number
    BY <2>1 DEF OrderInv, InTime
  <2>3. CASE effective' = effective
    BY <2>1, <2>2, <2>3
  <2>4. CASE r \in Requests /\ effective' = ask[r].number
    <3>1. state[d] = "queued"
      BY <2>1, RunningIs DEF Open
    <3>2. PICK p \in Priorities, i \in Nat : In(queues, p, i, d)
      BY <2>1, <3>1 DEF IInv, Held
    <3>3. ask[r].number <= ask[d].number
      BY <2>4, <3>2 DEF OrderInv, Oldest
    <3> QED BY <2>1, <2>2, <2>4, <3>3
  <2> QED BY <2>3, <2>4
<1>10. effective' \in Nat /\ effective' >= effective /\ effective' <= decisions'
  <2>1. CASE effective' = effective
    BY <2>1 DEF OrderInv
  <2>2. CASE r \in Requests /\ aborted # TRUE /\ effective' = ask[r].number
    <3>1. ask[r].number \in Nat /\ ask[r].number <= decisions /\ effective <= ask[r].number
      BY <1>1, <1>3, <2>2 DEF OrderInv, InTime, Doomed
    <3> QED BY <2>2, <3>1 DEF OrderInv
  <2> QED BY <2>1, <2>2
<1>11. \A d \in Requests : InTime(d)'
  BY <1>9 DEF InTime
<1> QED BY <1>8, <1>10, <1>11 DEF OrderInv

LEMMA RebootOrder == OrderInv /\ Reboot => OrderInv' /\ effective' = effective
<1> SUFFICES ASSUME OrderInv, Reboot PROVE OrderInv' /\ effective' = effective
  OBVIOUS
<1>1. /\ queues' = [p \in Priorities |-> <<>>] /\ UNCHANGED <<decisions, effective>>
      /\ state' = IF config'.status = "unverified"
                  THEN [[c \in Calls |-> "new"] EXCEPT ![Startup] = "running"]
                  ELSE [c \in Calls |-> "new"]
  BY DEF Reboot
<1>2. \A r \in Requests : ~Open(r)'
  <2>1. \A r \in Requests : state'[r] = "new"
    BY <1>1, Places
  <2> QED BY <2>1 DEF Open
<1>3. InOrder(queues', ask') /\ Oldest(running', queues', ask')
  <2>1. \A p \in Priorities : queues'[p] = <<>>
    BY <1>1
  <2> QED BY <2>1, EmptyInOrder
<1> QED BY <1>1, <1>2, <1>3 DEF OrderInv, InTime

LEMMA SystemOrder == ModelInv /\ OrderInv /\ [SystemNext]_modelVars => OrderInv' /\ effective' >= effective
<1> SUFFICES ASSUME IInv, CallsInv, ModelTypeOK, OrderInv, [SystemNext]_modelVars
             PROVE  OrderInv' /\ effective' >= effective
  BY DEF ModelInv, CallsInv
<1>0. effective \in Nat /\ effective <= decisions /\ decisions \in Nat
      /\ {"validation", "summary", "router", "freshness"} \subseteq Priorities
  BY DEF OrderInv, ModelTypeOK, Priorities
<1>1. ASSUME NEW c \in Callers, Call(c) PROVE OrderInv' /\ effective' >= effective
  <2>1. /\ UNCHANGED <<decisions, effective, ask>>
        /\ Schedule(c, "router") \/ Schedule(c, "freshness") \/ UNCHANGED callVars
    BY <1>1 DEF Call, configVars
  <2>2. c \in Calls /\ c \notin Requests
    BY Places
  <2> QED BY <1>0, <2>1, <2>2, AddedOrder
<1>2. ASSUME NEW c \in Callers, Blame(c) PROVE OrderInv' /\ effective' >= effective
  <2>1. decisions' = decisions /\ effective' = effective
    BY <1>2 DEF Blame
  <2>2. CASE ToBlame(c)
    <3>1. Abort([user EXCEPT ![c] = Idle])
      BY <1>2, <2>2 DEF Blame
    <3> QED BY <1>0, <2>1, <3>1, AbortOrder
  <2>3. CASE ~ToBlame(c)
    <3>1. UNCHANGED <<callVars, ask>>
      BY <1>2, <2>3 DEF Blame
    <3>2. Summary \in Calls /\ Summary \notin Requests
      BY Places
    <3> QED BY <1>0, <2>1, <3>1, <3>2, AddedOrder
  <2> QED BY <2>2, <2>3
<1>3. ASSUME Succeeds PROVE OrderInv' /\ effective' >= effective
  <2>1. aborted # TRUE /\ End
    BY <1>3 DEF Succeeds
  <2>2. PICK r \in Calls : r = running
    BY <2>1, EndKeeps
  <2>3. /\ decisions' = decisions /\ (ask' = ask \/ ask' = [ask EXCEPT ![r] = NoQuestion])
        /\ effective' = effective \/ (r \in Requests /\ effective' = ask[r].number)
    BY <1>3, <2>2 DEF Succeeds, ValidationOk, ValidationEnds, Forget, SummaryOk, UseOk, configVars
  <2> QED BY <2>1, <2>2, <2>3, EndOrder
<1>4. ASSUME NEW why \in Reasons, Fails(why) PROVE OrderInv' /\ effective' >= effective
  <2>1. End /\ (aborted => why = "other")
    BY <1>4 DEF Fails
  <2>2. PICK r \in Calls : r = running
    BY <2>1, EndKeeps
  <2>3. /\ decisions' = decisions /\ (ask' = ask \/ ask' = [ask EXCEPT ![r] = NoQuestion])
        /\ effective' = effective \/ (r \in Requests /\ aborted # TRUE /\ effective' = ask[r].number)
    <3>1. CASE ValidationFails(why)
      <4>1. r \in Requests \cup {Startup} /\ decisions' = decisions
            /\ ask' = [ask EXCEPT ![r] = NoQuestion]
        BY <2>2, <3>1 DEF ValidationFails, ValidationEnds, Forget
      <4>2. CASE why = "network" /\ r # Startup /\ ask[r].save /\ config.key = None
        BY <2>1, <2>2, <3>1, <4>1, <4>2 DEF ValidationFails
      <4>3. CASE ~(why = "network" /\ r # Startup /\ ask[r].save /\ config.key = None)
        BY <2>2, <3>1, <4>1, <4>3 DEF ValidationFails
      <4> QED BY <4>2, <4>3
    <3>2. CASE SummaryFails \/ UseFails(why)
      BY <3>2 DEF SummaryFails, UseFails, configVars
    <3> QED BY <1>4, <3>1, <3>2 DEF Fails
  <2> QED BY <2>1, <2>2, <2>3, EndOrder
<1>5. ASSUME NEW key \in Keys, NEW save \in BOOLEAN, AskFor(key, save)
      PROVE  OrderInv' /\ effective' >= effective
  BY <1>0, <1>5, AskForOrder
<1>6. ASSUME ValidateStored PROVE OrderInv' /\ effective' >= effective
  <2>1. config.key \in Keys
    BY <1>6 DEF ValidateStored, ModelTypeOK, Configs
  <2> QED BY <1>5, <1>6, <2>1 DEF ValidateStored
<1>7. ASSUME NEW next, Delete(next) PROVE OrderInv' /\ effective' >= effective
  <2>1. Abort(user) /\ decisions' = decisions + 1 /\ effective' = decisions'
    BY <1>7 DEF Delete, Decide
  <2> QED BY <1>0, <2>1, AbortOrder
<1>8. ASSUME NEW c \in Callers, Ask(c) PROVE OrderInv' /\ effective' >= effective
  <2>1. /\ UNCHANGED <<decisions, effective, ask>>
        /\ Schedule(Summary, "summary") \/ UNCHANGED callVars
    BY <1>8 DEF Ask, configVars
  <2> QED BY <1>0, <2>1, Places, AddedOrder
<1>9. ASSUME UNCHANGED <<callVars, configVars, ask>> PROVE OrderInv' /\ effective' >= effective
  <2>1. UNCHANGED <<decisions, effective, ask>>
    BY <1>9 DEF configVars
  <2> QED BY <1>0, <1>9, <2>1, Places, AddedOrder
<1>10. CASE UNCHANGED modelVars
  BY <1>9, <1>10 DEF modelVars
<1>11. ASSUME Reboot PROVE OrderInv' /\ effective' >= effective
  BY <1>0, <1>11, RebootOrder
<1> QED
  BY <1>1, <1>2, <1>3, <1>4, <1>5, <1>6, <1>7, <1>8, <1>9, <1>10, <1>11
     DEF SystemNext, Microtask, Answer, Update, Validate

LEMMA OrderInvariant == System => [](ModelInv /\ OrderInv)
<1>1. SystemInit => OrderInv
  <2> SUFFICES ASSUME SystemInit PROVE OrderInv
    OBVIOUS
  <2>1. queues = [p \in Priorities |-> <<>>] /\ decisions = 0 /\ effective = 0
        /\ state = [c \in Calls |-> "new"]
    BY DEF SystemInit, Init
  <2>2. \A r \in Requests : ~Open(r)
    BY <2>1, Places DEF Open
  <2>3. InOrder(queues, ask) /\ Oldest(running, queues, ask)
    <3>1. \A p \in Priorities : queues[p] = <<>>
      BY <2>1
    <3> QED BY <3>1, EmptyInOrder
  <2> QED BY <2>1, <2>2, <2>3 DEF OrderInv, InTime
<1>2. ModelInv /\ [SystemNext]_modelVars => ModelInv'
  BY SystemIInv, SystemSummaryInv, SystemCallsInv DEF ModelInv
<1>3. ModelInv /\ OrderInv /\ [SystemNext]_modelVars => OrderInv'
  BY SystemOrder
<1> QED BY <1>1, <1>2, <1>3, SystemInitInv, PTL DEF System

------------------------------------------------------------------------------
(* The theorems *)

\* The stored key, the questions and the callers keep their types.
THEOREM ModelTypeCorrect == System => []ModelTypeOK
<1>1. ModelInv => ModelTypeOK
  BY DEF ModelInv, CallsInv
<1> QED BY <1>1, ModelInvariant, PTL

\* VerdictIsOfKey: however answers of the provider (server.ts, onInvalidKey and
\* validateConfigKey) and changes of the key overlap, also when the versions
\* start again, no key bears the verdict on another.
THEOREM VerdictRight == System => []VerdictIsOfKey
<1>1. ModelInv => VerdictIsOfKey
  BY DEF ModelInv, CallsInv
<1> QED BY <1>1, ModelInvariant, PTL

\* NoOlderDecision: what is stored never goes back to an older decision of a
\* user (server.ts, validateConfigKey and broker.config.delete): keys are
\* checked in the order in which they were sent, and a deletion dooms every
\* check before it.
THEOREM DecisionsInOrder == System => NoOlderDecision
<1>1. ModelInv /\ OrderInv /\ [SystemNext]_modelVars => [effective' >= effective]_modelVars
  BY SystemOrder
<1>2. System => [][effective' >= effective]_modelVars
  BY <1>1, OrderInvariant, PTL DEF System
<1> QED BY <1>2 DEF NoOlderDecision

\* SummaryIsContinuous: the stored summary has no gap in the range it claims,
\* with all that shares the scheduler and aborts its calls.
THEOREM NoGapsInSystem == System => []SummaryIsContinuous
<1>1. ModelInv => SummaryIsContinuous
  BY ContinuousFromInv DEF ModelInv
<1> QED BY <1>1, ModelInvariant, PTL

\* CoveredOrMarked: the router and the freshness check are told when their
\* context leaves something out.
THEOREM NothingLeftOutInSystem == System => []CoveredOrMarked
<1>1. ModelInv => CoveredOrMarked
  BY CoveredFromInv DEF ModelInv
<1> QED BY <1>1, ModelInvariant, PTL

\* The scheduler's guarantees hold as its callers use it: summaries are not
\* starved, nobody waits while nothing runs, and each call waits once.
THEOREM SchedulerKept ==
  System => [](SummaryWaitsForBurst /\ NobodyWaitsIdle /\ QueuesHoldWaiting)
<1>1. ModelInv => SummaryWaitsForBurst /\ NobodyWaitsIdle /\ QueuesHoldWaiting
  BY QueuesFromInv DEF ModelInv, IInv, Counted, SummaryWaitsForBurst
<1> QED BY <1>1, ModelInvariant, PTL

==============================================================================
