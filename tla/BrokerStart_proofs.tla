------------------------- MODULE BrokerStart_proofs -------------------------
(***************************************************************************)
(* Theorems of BrokerStart for any Pis, modes and builds, any number of    *)
(* launcher processes and any number of faults: what the lock file, the    *)
(* metadata file and the port say about the processes, as long as nobody   *)
(* unlinked the lock of a living process.                                  *)
(***************************************************************************)
EXTENDS BrokerStart, TLAPS

\* From the creation of its lock file to release().
Holding == {"write", "listen", "prepare", "supervise", "started", "closing",
            "draining", "sweep", "unlink", "undo", "release"}

\* A lock file that names a living process names one that is behind the lock,
\* and has its record once that process wrote it.  Unless a lock was stolen,
\* whoever is behind the lock is named.
LockInv ==
  /\ lock.by \in Brokers =>
       pc[lock.by] \in Holding /\ lock.written = (pc[lock.by] # "write")
  /\ ~stolen => \A b \in Brokers : pc[b] \in Holding =>
       lock = [by |-> b, written |-> pc[b] # "write"]

\* Who listens has opened the port and not closed it again.
PortInv == port # NoOne => pc[port] \in {"prepare", "supervise", "started", "closing"}

\* A connection leads to a process that waits for it to end before it closes
\* the database.
Serving == {"prepare", "supervise", "started", "closing", "draining", "undo"}
ClientInv ==
  \A p \in Pis : /\ sock[p] # NoOne => p \in on /\ pc[sock[p]] \in Serving
                 /\ p \in joined => sock[p] # NoOne

\* From its publication to its removal the metadata file names the broker.
Published == {"supervise", "started", "closing", "draining", "sweep", "unlink"}
MetaInv == ~stolen => \A b \in Brokers : pc[b] \in Published => meta = b

IInv == TypeOK /\ LockInv /\ PortInv /\ ClientInv /\ MetaInv

------------------------------------------------------------------------------
(* Names of processes and steps of a task *)

\* Neither the missing process nor an ended one is a living one.
LEMMA Names == /\ NoOne \notin Brokers /\ Dead \notin Brokers /\ NoOne # Dead
               /\ Brokers \subseteq Processes
               /\ NoOne \in Processes /\ Dead \in Processes
  BY ConstantsAssumption DEF Brokers, NoOne, Dead, Processes

\* A task goes on with a step of a task.
LEMMA TaskTypes == ASSUME TypeOK, NEW p \in Pis
                   PROVE  /\ FirstStep(p) \in Tasks
                          /\ TaskAfterLoss(p) \in Tasks
                          /\ TaskAfterStart(p) \in Tasks
<1>1. task[p] \in Tasks  BY DEF TypeOK
<1>2. FirstStep(p) \in Tasks  BY DEF FirstStep, Tasks
<1>3. TaskAfterLoss(p) \in Tasks  BY <1>1, <1>2 DEF TaskAfterLoss, Tasks
<1>4. TaskAfterStart(p) \in Tasks  BY DEF TaskAfterStart, Tasks
<1>. QED  BY <1>2, <1>3, <1>4

\* The end of connections keeps the types of what the Pis are.
LEMMA DropTypes == ASSUME TypeOK, NEW S \in SUBSET on, Drop(S)
                   PROVE  /\ task' \in [Pis -> Tasks]
                          /\ sock' \in [Pis -> Brokers \cup {NoOne}]
                          /\ joined' \in SUBSET on /\ armed' \in SUBSET on
<1>1. task' \in [Pis -> Tasks]  BY TaskTypes DEF Drop, TypeOK
<1>2. sock' \in [Pis -> Brokers \cup {NoOne}]  BY DEF Drop, TypeOK
<1>3. joined' \in SUBSET on /\ armed' \in SUBSET on  BY DEF Drop, TypeOK
<1>. QED  BY <1>1, <1>2, <1>3

\* Who is connected runs.
LEMMA ConnectedRun == ASSUME ClientInv, NEW b \in Brokers
                      PROVE  Connected(b) \in SUBSET on
  BY Names DEF ClientInv, Connected

LEMMA GotoType == ASSUME TypeOK, NEW b \in Brokers, NEW s \in Steps, Goto(b, s)
                  PROVE  pc' \in [Brokers -> Steps]
  BY DEF TypeOK, Goto

LEMMA EndsTypes == ASSUME TypeOK, NEW b \in Brokers, Ends(b)
                   PROVE  /\ pc' \in [Brokers -> Steps]
                          /\ retried' \in [Brokers -> BOOLEAN]
                          /\ kind' \in [Brokers -> {NoKind} \cup {team[p] : p \in Pis}]
                          /\ meta' \in Processes
<1>1. pc' \in [Brokers -> Steps]  BY GotoType DEF Ends, Steps
<1>2. retried' \in [Brokers -> BOOLEAN]  BY DEF Ends, TypeOK
<1>3. kind' \in [Brokers -> {NoKind} \cup {team[p] : p \in Pis}]
  <2> DEFINE K == {NoKind} \cup {team[p] : p \in Pis}
  <2>1. NoKind \in K /\ kind \in [Brokers -> K]  BY DEF TypeOK
  <2>. HIDE DEF K
  <2>2. kind' \in [Brokers -> K]  BY <2>1 DEF Ends
  <2>. QED  BY <2>2 DEF K
<1>4. meta' \in Processes  BY Names DEF Ends, TypeOK
<1>. QED  BY <1>1, <1>2, <1>3, <1>4

LEMMA SpawnTypes == ASSUME TypeOK, NEW p \in Pis, Spawn(p)
                    PROVE  /\ pc' \in [Brokers -> Steps]
                           /\ retried' \in [Brokers -> BOOLEAN]
                           /\ kind' \in [Brokers -> {NoKind} \cup {team[q] : q \in Pis}]
                           /\ task' \in [Pis -> Tasks]
<1>1. PICK b \in FreeSlots : Goto(b, "create") /\ kind' = [kind EXCEPT ![b] = team[p]]
  BY DEF Spawn
<1>2. b \in Brokers  BY DEF FreeSlots
<1>3. pc' \in [Brokers -> Steps]  BY <1>1, <1>2, GotoType DEF Steps
<1>4. retried' \in [Brokers -> BOOLEAN]  BY DEF Spawn, TypeOK
<1>5. kind' \in [Brokers -> {NoKind} \cup {team[q] : q \in Pis}]
  <2> DEFINE K == {NoKind} \cup {team[q] : q \in Pis}
  <2>1. team[p] \in K /\ kind \in [Brokers -> K]  BY DEF TypeOK
  <2>. HIDE DEF K
  <2>2. kind' \in [Brokers -> K]  BY <1>1, <2>1
  <2>. QED  BY <2>2 DEF K
<1>6. task' \in [Pis -> Tasks]  BY DEF Spawn, TypeOK, Tasks
<1>. QED  BY <1>3, <1>4, <1>5, <1>6

------------------------------------------------------------------------------
(* The invariant holds in every state *)

LEMMA InitIInv == Init => IInv
<1> SUFFICES ASSUME Init PROVE IInv
  OBVIOUS
<1>1. TypeOK
  <2>1. lock \in [by : Processes, written : BOOLEAN]  BY Names DEF Init, NoLock
  <2>2. 0 \in 0..MaxFaults  BY ConstantsAssumption
  <2>. QED  BY <2>1, <2>2, Names DEF Init, TypeOK, Steps, Tasks
<1>2. LockInv  BY Names DEF Init, LockInv, NoLock, Holding
<1>3. PortInv /\ ClientInv /\ MetaInv
  BY DEF Init, PortInv, ClientInv, MetaInv, Published
<1>. QED  BY <1>1, <1>2, <1>3 DEF IInv

\* The types of everything that one process or one Pi changes.
LEMMA TypeStep == IInv /\ [Next]_vars => TypeOK'
<1> SUFFICES ASSUME IInv, [Next]_vars PROVE TypeOK'
  OBVIOUS
<1>. USE Names DEF IInv
<1>1. ASSUME NEW b \in Brokers, Create(b) PROVE TypeOK'
  <2>1. pc' \in [Brokers -> Steps]  BY <1>1, GotoType DEF Create, Steps
  <2>2. lock' \in [by : Processes, written : BOOLEAN]
    <3>1. b \in Processes  OBVIOUS
    <3>2. lock' = lock \/ lock' = [by |-> b, written |-> FALSE]  BY <1>1 DEF Create
    <3>3. lock \in [by : Processes, written : BOOLEAN]  BY DEF TypeOK
    <3>4. [by |-> b, written |-> FALSE] \in [by : Processes, written : BOOLEAN]
      BY <3>1, Zenon
    <3>. QED  BY <3>2, <3>3, <3>4, Zenon
  <2>3. UNCHANGED <<team, retried, kind, on, task, sock, joined, armed, meta, port, faults, stolen>>
    BY <1>1 DEF Create, piVars
  <2>. QED  BY <2>1, <2>2, <2>3 DEF TypeOK
<1>2. ASSUME NEW b \in Brokers, Write(b) PROVE TypeOK'
  <2>1. pc' \in [Brokers -> Steps]  BY <1>2, GotoType DEF Write, Steps
  <2>2. lock' \in [by : Processes, written : BOOLEAN]  BY <1>2 DEF Write, TypeOK
  <2>3. retried' \in [Brokers -> BOOLEAN]  BY <1>2 DEF Write, TypeOK
  <2>4. UNCHANGED <<team, kind, on, task, sock, joined, armed, meta, port, faults, stolen>>
    BY <1>2 DEF Write, piVars
  <2>. QED  BY <2>1, <2>2, <2>3, <2>4 DEF TypeOK
<1>3. ASSUME NEW b \in Brokers, Inspect(b) PROVE TypeOK'
  <2>1. /\ pc' \in [Brokers -> Steps] /\ retried' \in [Brokers -> BOOLEAN]
        /\ kind' \in [Brokers -> {NoKind} \cup {team[p] : p \in Pis}]
        /\ meta' \in Processes
    <3>1. CASE Ends(b)  BY <3>1, EndsTypes
    <3>2. CASE Goto(b, "remove") /\ UNCHANGED <<retried, kind, meta>>
      BY <3>2, GotoType DEF TypeOK, Steps
    <3>. QED  BY <1>3, <3>1, <3>2 DEF Inspect
  <2>. QED  BY <1>3, <2>1 DEF Inspect, TypeOK, piVars
<1>4. ASSUME NEW b \in Brokers, RemoveStale(b) PROVE TypeOK'
  <2>1. /\ pc' \in [Brokers -> Steps] /\ retried' \in [Brokers -> BOOLEAN]
        /\ kind' \in [Brokers -> {NoKind} \cup {team[p] : p \in Pis}]
        /\ meta' \in Processes
    <3>1. CASE Ends(b)  BY <3>1, EndsTypes
    <3>2. CASE /\ Goto(b, "create") /\ retried' = [retried EXCEPT ![b] = TRUE]
               /\ UNCHANGED <<kind, meta>>
      BY <3>2, GotoType DEF TypeOK, Steps
    <3>. QED  BY <1>4, <3>1, <3>2 DEF RemoveStale
  <2>2. lock' \in [by : Processes, written : BOOLEAN] /\ stolen' \in BOOLEAN
    BY <1>4 DEF RemoveStale, TypeOK, NoLock
  <2>. QED  BY <1>4, <2>1, <2>2 DEF RemoveStale, TypeOK, piVars
<1>5. ASSUME NEW b \in Brokers, Listen(b) \/ Publish(b) \/ FinishStart(b) \/ Undo(b)
      PROVE  TypeOK'
  <2>1. pc' \in [Brokers -> Steps]
    BY <1>5, GotoType DEF Listen, Publish, FinishStart, Undo, Steps
  <2>2. port' \in Brokers \cup {NoOne} /\ meta' \in Processes
    BY <1>5 DEF Listen, Publish, FinishStart, Undo, TypeOK
  <2>. QED  BY <1>5, <2>1, <2>2 DEF Listen, Publish, FinishStart, Undo, TypeOK, piVars
<1>6. ASSUME NEW b \in Brokers, FailStart(b) PROVE TypeOK'
  <2>1. pc' \in [Brokers -> Steps]  BY <1>6, GotoType DEF FailStart, Steps
  <2>2. faults' \in 0..MaxFaults  BY <1>6, ConstantsAssumption DEF FailStart, TypeOK
  <2>. QED  BY <1>6, <2>1, <2>2 DEF FailStart, TypeOK, piVars
<1>7. ASSUME NEW b \in Brokers, IdleShutdown(b) PROVE TypeOK'
  <2>1. Drop(Connected(b) \cap joined) /\ Goto(b, "closing")
    BY <1>7 DEF IdleShutdown, BeginClose
  <2>2. pc' \in [Brokers -> Steps]  BY <2>1, GotoType DEF Steps
  <2>3. Connected(b) \cap joined \in SUBSET on  BY ConnectedRun
  <2>4. /\ task' \in [Pis -> Tasks] /\ sock' \in [Pis -> Brokers \cup {NoOne}]
        /\ joined' \in SUBSET on /\ armed' \in SUBSET on
    BY <2>1, <2>3, DropTypes
  <2>. QED  BY <1>7, <2>2, <2>4 DEF IdleShutdown, TypeOK
<1>8. ASSUME NEW b \in Brokers,
             StopAccepting(b) \/ Drained(b) \/ SweepMetadata(b) \/ UnlinkMetadata(b)
      PROVE  TypeOK'
  <2>1. pc' \in [Brokers -> Steps]
    BY <1>8, GotoType DEF StopAccepting, Drained, SweepMetadata, UnlinkMetadata, Steps
  <2>2. port' \in Brokers \cup {NoOne} /\ meta' \in Processes
    BY <1>8 DEF StopAccepting, Drained, SweepMetadata, UnlinkMetadata, TypeOK
  <2>. QED  BY <1>8, <2>1, <2>2
            DEF StopAccepting, Drained, SweepMetadata, UnlinkMetadata, TypeOK, piVars
<1>9. ASSUME NEW b \in Brokers, Release(b) PROVE TypeOK'
  <2>1. lock' \in [by : Processes, written : BOOLEAN]
    BY <1>9 DEF Release, TypeOK, NoLock
  <2>2. Ends(b)  BY <1>9 DEF Release
  <2>. QED  BY <1>9, <2>1, <2>2, EndsTypes DEF Release, TypeOK, piVars
<1>10. ASSUME NEW b \in Brokers, Crash(b) PROVE TypeOK'
  <2>1. Ends(b) /\ Drop(Connected(b))  BY <1>10 DEF Crash
  <2>2. /\ task' \in [Pis -> Tasks] /\ sock' \in [Pis -> Brokers \cup {NoOne}]
        /\ joined' \in SUBSET on /\ armed' \in SUBSET on
    BY <2>1, ConnectedRun, DropTypes
  <2>3. lock' \in [by : Processes, written : BOOLEAN]  BY <1>10 DEF Crash, TypeOK
  <2>4. faults' \in 0..MaxFaults  BY <1>10, ConstantsAssumption DEF Crash, TypeOK
  <2>. QED  BY <1>10, <2>1, <2>2, <2>3, <2>4, EndsTypes DEF Crash, TypeOK
<1>11. ASSUME NEW p \in Pis, Open(p) \/ Quit(p) \/ Retry(p) PROVE TypeOK'
  <2>1. task' \in [Pis -> Tasks]
    BY <1>11, TaskTypes DEF Open, Quit, Retry, TypeOK, Tasks
  <2>2. /\ on' \in SUBSET Pis /\ joined' \in SUBSET on' /\ armed' \in SUBSET on'
        /\ sock' \in [Pis -> Brokers \cup {NoOne}]
    BY <1>11 DEF Open, Quit, Retry, TypeOK
  <2>. QED  BY <1>11, <2>1, <2>2 DEF Open, Quit, Retry, TypeOK, processVars
<1>12. ASSUME NEW p \in Pis, Reach(p) PROVE TypeOK'
  BY <1>12 DEF Reach, TypeOK, processVars
<1>13. ASSUME NEW p \in Pis, Miss(p) PROVE TypeOK'
  <2>1. Drop({p}) /\ p \in on  BY <1>13 DEF Miss, Dialling
  <2>2. /\ task' \in [Pis -> Tasks] /\ sock' \in [Pis -> Brokers \cup {NoOne}]
        /\ joined' \in SUBSET on /\ armed' \in SUBSET on
    BY <2>1, DropTypes
  <2>. QED  BY <1>13, <2>2 DEF Miss, TypeOK, processVars
<1>14. ASSUME NEW p \in Pis, Join(p) PROVE TypeOK'
  <2>1. p \in on  BY <1>14 DEF Join, ClientInv
  <2>2. task' \in [Pis -> Tasks]  BY <1>14 DEF Join, TypeOK, Tasks
  <2>. QED  BY <1>14, <2>1, <2>2 DEF Join, TypeOK, processVars
<1>15. ASSUME NEW p \in Pis, Probe(p) PROVE TypeOK'
  <2>1. CASE port = NoOne
    BY <1>15, <2>1, SpawnTypes DEF Probe, TypeOK
  <2>2. CASE port # NoOne
    <3>1. /\ UNCHANGED processVars
          /\ task' = [task EXCEPT ![p] =
                        CASE CompatibilityAction(p, port) = "reuse" -> TaskAfterStart(p)
                          [] CompatibilityAction(p, port) = "restart" -> "stop"
                          [] OTHER -> "none"]
      BY <1>15, <2>2 DEF Probe
    <3>2. task' \in [Pis -> Tasks]  BY <3>1, TaskTypes DEF TypeOK, Tasks
    <3>. QED  BY <1>15, <3>1, <3>2 DEF Probe, TypeOK, processVars
  <2>. QED  BY <2>1, <2>2
<1>16. ASSUME NEW p \in Pis, RequestStop(p) PROVE TypeOK'
  <2>1. port \in Brokers  BY <1>16 DEF RequestStop, TypeOK
  <2> DEFINE cut == Connected(port) \cap joined
  <2>2. cut \in SUBSET on  BY <2>1, ConnectedRun
  <2>3. pc' \in [Brokers -> Steps]
    BY <1>16, <2>1, GotoType DEF RequestStop, Steps, TypeOK
  <2>4. task' \in [Pis -> Tasks]
    BY <1>16, TaskTypes DEF RequestStop, TypeOK, Tasks
  <2>5. /\ sock' \in [Pis -> Brokers \cup {NoOne}]
        /\ joined' \in SUBSET on /\ armed' \in SUBSET on
    BY <1>16, <2>2 DEF RequestStop, TypeOK
  <2>. QED  BY <1>16, <2>3, <2>4, <2>5 DEF RequestStop, TypeOK
<1>17. ASSUME NEW p \in Pis, AwaitGone(p) PROVE TypeOK'
  BY <1>17, SpawnTypes DEF AwaitGone, TypeOK
<1>18. ASSUME NEW p \in Pis, Poll(p) \/ GiveUp(p) PROVE TypeOK'
  <2>1. task' \in [Pis -> Tasks]
    BY <1>18, TaskTypes DEF Poll, GiveUp, TypeOK, Tasks
  <2>. QED  BY <1>18, <2>1 DEF Poll, GiveUp, TypeOK, processVars
<1>19. CASE UNCHANGED vars
  BY <1>19 DEF vars, processVars, piVars, TypeOK
<1>. QED
  BY <1>1, <1>2, <1>3, <1>4, <1>5, <1>6, <1>7, <1>8, <1>9, <1>10, <1>11, <1>12,
     <1>13, <1>14, <1>15, <1>16, <1>17, <1>18, <1>19 DEF Next, ProcessStep, TaskStep

------------------------------------------------------------------------------
(* Steps of processes, seen through pc *)

\* Where a step that leads one process to s leaves it and the others.
LEMMA GotoSteps == ASSUME TypeOK, NEW b \in Brokers, NEW s \in Steps, Goto(b, s)
                   PROVE  /\ pc'[b] = s
                          /\ \A c \in Brokers \ {b} : pc'[c] = pc[c]
  BY DEF TypeOK, Goto

\* A new process starts in a free slot.
LEMMA SpawnSteps == ASSUME TypeOK, NEW p \in Pis, Spawn(p)
                    PROVE  \E b \in Brokers :
                             pc[b] = "idle" /\ Goto(b, "create")
  BY DEF Spawn, FreeSlots, Alive

\* What the steps of the Pis do to the processes: one starts, a started one
\* begins to close, or none moves.
PiStep ==
  /\ UNCHANGED <<lock, meta, port, stolen>>
  /\ \/ UNCHANGED pc
     \/ \E b \in Brokers : \/ pc[b] = "idle" /\ Goto(b, "create")
                           \/ pc[b] = "started" /\ Goto(b, "closing")

LEMMA PiSteps ==
  ASSUME TypeOK, NEW p \in Pis,
         \/ Open(p) \/ Quit(p) \/ Retry(p) \/ Reach(p) \/ Miss(p) \/ Join(p)
         \/ TaskStep(p)
  PROVE  PiStep
<1>1. CASE Open(p) \/ Quit(p) \/ Retry(p) \/ Reach(p) \/ Miss(p) \/ Join(p)
  BY <1>1 DEF Open, Quit, Retry, Reach, Miss, Join, processVars, PiStep
<1>2. CASE Probe(p)
  BY <1>2, SpawnSteps DEF Probe, processVars, PiStep
<1>3. CASE RequestStop(p)
  <2>1. port \in Brokers  BY <1>3 DEF RequestStop, TypeOK
  <2>. QED  BY <1>3, <2>1 DEF RequestStop, PiStep
<1>4. CASE AwaitGone(p)
  BY <1>4, SpawnSteps DEF AwaitGone, PiStep
<1>5. CASE Poll(p) \/ GiveUp(p)
  BY <1>5 DEF Poll, GiveUp, processVars, PiStep
<1>. QED  BY <1>1, <1>2, <1>3, <1>4, <1>5 DEF TaskStep

------------------------------------------------------------------------------
(* Lock, port and metadata *)

LEMMA LockStep == IInv /\ [Next]_vars => LockInv'
<1> SUFFICES ASSUME IInv, [Next]_vars PROVE LockInv'
  OBVIOUS
<1>. USE Names DEF IInv
<1>1. ASSUME NEW b \in Brokers, Create(b) PROVE LockInv'
  <2>1. CASE lock = NoLock /\ lock' = [by |-> b, written |-> FALSE] /\ Goto(b, "write")
    <3>1. pc'[b] = "write" /\ \A c \in Brokers \ {b} : pc'[c] = pc[c]
      BY <2>1, GotoSteps DEF Steps
    <3>2. ~stolen => \A c \in Brokers : pc[c] \notin Holding
      BY <2>1 DEF LockInv, NoLock
    <3>. QED  BY <1>1, <2>1, <3>1, <3>2 DEF Create, LockInv, Holding
  <2>2. CASE Goto(b, "inspect") /\ UNCHANGED lock
    <3>1. pc'[b] = "inspect" /\ \A c \in Brokers \ {b} : pc'[c] = pc[c]
      BY <2>2, GotoSteps DEF Steps
    <3>. QED  BY <1>1, <2>2, <3>1 DEF Create, LockInv, Holding
  <2>. QED  BY <1>1, <2>1, <2>2 DEF Create
<1>2. ASSUME NEW b \in Brokers, Write(b) PROVE LockInv'
  <2>1. pc'[b] = "listen" /\ \A c \in Brokers \ {b} : pc'[c] = pc[c]
    BY <1>2, GotoSteps DEF Write, Steps
  <2>2. /\ lock'.by = lock.by
        /\ lock.by = b => lock' = [by |-> b, written |-> TRUE]
        /\ lock.by # b => lock' = lock
    BY <1>2 DEF Write, TypeOK
  <2>3. ~stolen => lock.by = b  BY <1>2 DEF Write, LockInv, Holding
  <2>4. stolen' = stolen  BY <1>2 DEF Write
  <2>5. ~stolen => \A c \in Brokers \ {b} : pc[c] \notin Holding
    BY <2>3 DEF LockInv
  <2>6. ~stolen => \A c \in Brokers : pc'[c] \in Holding =>
          lock' = [by |-> c, written |-> pc'[c] # "write"]
    BY <2>1, <2>2, <2>3, <2>5
  <2>7. lock'.by \in Brokers =>
          pc'[lock'.by] \in Holding /\ lock'.written = (pc'[lock'.by] # "write")
    <3>1. CASE lock.by = b
      <4>1. lock'.by = b /\ lock'.written = TRUE  BY <3>1, <2>2
      <4>2. (pc'[b] # "write") = TRUE  BY <2>1
      <4>3. pc'[b] \in Holding  BY <2>1 DEF Holding
      <4>. QED  BY <4>1, <4>2, <4>3, Zenon
    <3>2. CASE lock.by # b
      <4>1. lock.by \in Brokers =>
              pc[lock.by] \in Holding /\ lock.written = (pc[lock.by] # "write")
        BY DEF LockInv
      <4>2. lock' = lock  BY <3>2, <2>2
      <4>3. lock.by \in Brokers => pc'[lock.by] = pc[lock.by]  BY <3>2, <2>1
      <4>. QED  BY <4>1, <4>2, <4>3
    <3>. QED  BY <3>1, <3>2
  <2>. QED  BY <2>4, <2>6, <2>7 DEF LockInv
<1>3. ASSUME NEW b \in Brokers, Inspect(b) PROVE LockInv'
  <2>1. /\ pc'[b] \in {"remove", "idle"}
        /\ \A c \in Brokers \ {b} : pc'[c] = pc[c]
    BY <1>3, GotoSteps DEF Inspect, Ends, Steps
  <2>. QED  BY <1>3, <2>1 DEF Inspect, LockInv, Holding
<1>4. ASSUME NEW b \in Brokers, RemoveStale(b) PROVE LockInv'
  <2>1. /\ pc'[b] \in {"create", "idle"}
        /\ \A c \in Brokers \ {b} : pc'[c] = pc[c]
    BY <1>4, GotoSteps DEF RemoveStale, Ends, Steps
  <2>2. ~stolen' => ~stolen /\ lock.by \notin Brokers
    BY <1>4 DEF RemoveStale
  <2>3. ~stolen' => \A c \in Brokers : pc[c] \notin Holding
    BY <2>2 DEF LockInv
  <2>4. lock'.by = NoOne  BY <1>4 DEF RemoveStale, NoLock
  <2>. QED  BY <2>1, <2>3, <2>4 DEF LockInv, Holding
<1>5. ASSUME NEW b \in Brokers,
             \/ Listen(b) \/ Publish(b) \/ FinishStart(b) \/ FailStart(b) \/ Undo(b)
             \/ IdleShutdown(b) \/ StopAccepting(b) \/ Drained(b)
             \/ SweepMetadata(b) \/ UnlinkMetadata(b)
      PROVE  LockInv'
  <2>1. /\ pc[b] \in Holding \ {"write"} /\ pc'[b] \in Holding \ {"write"}
        /\ \A c \in Brokers \ {b} : pc'[c] = pc[c]
    BY <1>5, GotoSteps
       DEF Listen, Publish, FinishStart, FailStart, Undo, IdleShutdown, BeginClose,
           StopAccepting, Drained, SweepMetadata, UnlinkMetadata, Steps, Holding
  <2>2. UNCHANGED <<lock, stolen>>
    BY <1>5
       DEF Listen, Publish, FinishStart, FailStart, Undo, IdleShutdown,
           StopAccepting, Drained, SweepMetadata, UnlinkMetadata
  <2>. QED  BY <2>1, <2>2 DEF LockInv
<1>6. ASSUME NEW b \in Brokers, Release(b) PROVE LockInv'
  <2>1. pc'[b] = "idle" /\ \A c \in Brokers \ {b} : pc'[c] = pc[c]
    BY <1>6, GotoSteps DEF Release, Ends, Steps
  <2>2. pc[b] = "release" /\ lock.by = b => lock.written
    BY DEF LockInv
  <2>3. lock' = IF lock.by = b THEN NoLock ELSE lock
    BY <1>6, <2>2 DEF Release
  <2>4. ~stolen => lock.by = b  BY <1>6 DEF Release, LockInv, Holding
  <2>5. ~stolen => \A c \in Brokers \ {b} : pc[c] \notin Holding
    BY <2>4 DEF LockInv
  <2>6. stolen' = stolen  BY <1>6 DEF Release
  <2>. QED  BY <2>1, <2>3, <2>5, <2>6 DEF LockInv, Holding, NoLock
<1>7. ASSUME NEW b \in Brokers, Crash(b) PROVE LockInv'
  <2>1. pc'[b] = "idle" /\ \A c \in Brokers \ {b} : pc'[c] = pc[c]
    BY <1>7, GotoSteps DEF Crash, Ends, Steps
  <2>2. /\ lock.by = b => lock'.by = Dead
        /\ lock.by # b => lock' = lock
        /\ stolen' = stolen
    BY <1>7 DEF Crash, TypeOK
  <2>3. ~stolen /\ lock.by = b => \A c \in Brokers \ {b} : pc[c] \notin Holding
    BY DEF LockInv
  <2>. QED  BY <2>1, <2>2, <2>3 DEF LockInv, Holding
<1>8. ASSUME PiStep PROVE LockInv'
  <2>1. CASE UNCHANGED pc  BY <1>8, <2>1 DEF PiStep, LockInv
  <2>2. ASSUME NEW b \in Brokers, pc[b] = "idle", Goto(b, "create") PROVE LockInv'
    <3>1. pc'[b] = "create" /\ \A c \in Brokers \ {b} : pc'[c] = pc[c]
      BY <2>2, GotoSteps DEF Steps
    <3>. QED  BY <1>8, <2>2, <3>1 DEF PiStep, LockInv, Holding
  <2>3. ASSUME NEW b \in Brokers, pc[b] = "started", Goto(b, "closing") PROVE LockInv'
    <3>1. pc'[b] = "closing" /\ \A c \in Brokers \ {b} : pc'[c] = pc[c]
      BY <2>3, GotoSteps DEF Steps
    <3>. QED  BY <1>8, <2>3, <3>1 DEF PiStep, LockInv, Holding
  <2>. QED  BY <1>8, <2>1, <2>2, <2>3 DEF PiStep
<1>9. CASE UNCHANGED vars  BY <1>9 DEF vars, processVars, LockInv
<1>. QED
  BY <1>1, <1>2, <1>3, <1>4, <1>5, <1>6, <1>7, <1>8, <1>9, PiSteps
     DEF Next, ProcessStep

LEMMA PortStep == IInv /\ [Next]_vars => PortInv'
<1> SUFFICES ASSUME IInv, [Next]_vars PROVE PortInv'
  OBVIOUS
<1>. USE Names DEF IInv
<1>0. port \in Brokers \cup {NoOne}  BY DEF TypeOK
<1>1. ASSUME NEW b \in Brokers,
             \/ Create(b) \/ Write(b) \/ Inspect(b) \/ RemoveStale(b) \/ Undo(b)
             \/ Drained(b) \/ SweepMetadata(b) \/ UnlinkMetadata(b) \/ Release(b)
      PROVE  PortInv'
  <2>1. port' = port /\ \A c \in Brokers \ {b} : pc'[c] = pc[c]
    BY <1>1, GotoSteps
       DEF Create, Write, Inspect, RemoveStale, Undo, Drained, SweepMetadata,
           UnlinkMetadata, Release, Ends, Steps
  <2>2. port # b
    BY <1>1 DEF PortInv, Create, Write, Inspect, RemoveStale, Undo, Drained,
                SweepMetadata, UnlinkMetadata, Release
  <2>. QED  BY <1>0, <2>1, <2>2 DEF PortInv
<1>2. ASSUME NEW b \in Brokers, Listen(b) PROVE PortInv'
  <2>1. CASE port = NoOne /\ Goto(b, "prepare") /\ port' = b
    BY <2>1, GotoSteps DEF PortInv, Steps
  <2>2. CASE port # NoOne /\ Goto(b, "undo") /\ port' = port
    <3>1. port # b  BY <1>2 DEF Listen, PortInv
    <3>2. \A c \in Brokers \ {b} : pc'[c] = pc[c]  BY <2>2, GotoSteps DEF Steps
    <3>. QED  BY <1>0, <2>2, <3>1, <3>2 DEF PortInv
  <2>. QED  BY <1>2, <2>1, <2>2 DEF Listen
<1>3. ASSUME NEW b \in Brokers, Publish(b) \/ FinishStart(b) \/ IdleShutdown(b)
      PROVE  PortInv'
  <2>1. /\ pc'[b] \in {"supervise", "started", "closing"} /\ port' = port
        /\ \A c \in Brokers \ {b} : pc'[c] = pc[c]
    BY <1>3, GotoSteps DEF Publish, FinishStart, IdleShutdown, BeginClose, Steps
  <2>. QED  BY <1>0, <2>1 DEF PortInv
<1>4. ASSUME NEW b \in Brokers, FailStart(b) \/ StopAccepting(b) PROVE PortInv'
  BY <1>4 DEF FailStart, StopAccepting, PortInv
<1>5. ASSUME NEW b \in Brokers, Crash(b) PROVE PortInv'
  <2>1. \A c \in Brokers \ {b} : pc'[c] = pc[c]
    BY <1>5, GotoSteps DEF Crash, Ends, Steps
  <2>. QED  BY <1>0, <1>5, <2>1 DEF Crash, PortInv
<1>6. ASSUME PiStep PROVE PortInv'
  <2>1. CASE UNCHANGED pc  BY <1>6, <2>1 DEF PiStep, PortInv
  <2>2. ASSUME NEW b \in Brokers, pc[b] = "idle", Goto(b, "create") PROVE PortInv'
    <3>1. \A c \in Brokers \ {b} : pc'[c] = pc[c]  BY <2>2, GotoSteps DEF Steps
    <3>2. port # b  BY <2>2 DEF PortInv
    <3>. QED  BY <1>0, <1>6, <3>1, <3>2 DEF PiStep, PortInv
  <2>3. ASSUME NEW b \in Brokers, pc[b] = "started", Goto(b, "closing") PROVE PortInv'
    <3>1. pc'[b] = "closing" /\ \A c \in Brokers \ {b} : pc'[c] = pc[c]
      BY <2>3, GotoSteps DEF Steps
    <3>. QED  BY <1>0, <1>6, <3>1 DEF PiStep, PortInv
  <2>. QED  BY <1>6, <2>1, <2>2, <2>3 DEF PiStep
<1>7. CASE UNCHANGED vars  BY <1>7 DEF vars, processVars, PortInv
<1>. QED
  BY <1>1, <1>2, <1>3, <1>4, <1>5, <1>6, <1>7, PiSteps DEF Next, ProcessStep

LEMMA MetaStep == IInv /\ [Next]_vars => MetaInv'
<1> SUFFICES ASSUME IInv, [Next]_vars PROVE MetaInv'
  OBVIOUS
<1>. USE Names DEF IInv
\* Two processes behind the lock only after a theft.
<1>0. ASSUME ~stolen, NEW b \in Brokers, NEW c \in Brokers,
             pc[b] \in Holding, pc[c] \in Holding
      PROVE  b = c
  <2>1. lock.by = b /\ lock.by = c  BY <1>0 DEF LockInv
  <2>. QED  BY <2>1
<1>1. ASSUME NEW b \in Brokers,
             \/ Create(b) \/ Write(b) \/ Listen(b) \/ Undo(b) \/ FailStart(b)
      PROVE  MetaInv'
  <2>1. /\ pc'[b] \notin Published /\ \A c \in Brokers \ {b} : pc'[c] = pc[c]
        /\ UNCHANGED <<meta, stolen>>
    BY <1>1, GotoSteps DEF Create, Write, Listen, Undo, FailStart, Steps, Published
  <2>. QED  BY <2>1 DEF MetaInv
<1>2. ASSUME NEW b \in Brokers, Inspect(b) \/ RemoveStale(b) \/ Release(b) \/ Crash(b)
      PROVE  MetaInv'
  <2>1. /\ pc'[b] \in {"idle", "remove", "create"}
        /\ \A c \in Brokers \ {b} : pc'[c] = pc[c]
    BY <1>2, GotoSteps DEF Inspect, RemoveStale, Release, Crash, Ends, Steps
  <2>2. meta' = meta \/ meta = b
    BY <1>2 DEF Inspect, RemoveStale, Release, Crash, Ends
  <2>3. ~stolen' => ~stolen
    BY <1>2 DEF Inspect, RemoveStale, Release, Crash
  <2>. QED  BY <2>1, <2>2, <2>3 DEF MetaInv, Published
<1>3. ASSUME NEW b \in Brokers, Publish(b) PROVE MetaInv'
  <2>1. /\ \A c \in Brokers \ {b} : pc'[c] = pc[c]
        /\ meta' = b /\ stolen' = stolen
    BY <1>3, GotoSteps DEF Publish, Steps
  <2>2. ~stolen => \A c \in Brokers \ {b} : pc[c] \notin Published
    BY <1>3, <1>0 DEF Publish, Holding, Published
  <2> SUFFICES ASSUME ~stolen, NEW c \in Brokers, pc'[c] \in Published PROVE meta' = c
    BY <2>1 DEF MetaInv
  <2>3. c = b  BY <2>1, <2>2
  <2>. QED  BY <2>1, <2>3
<1>4. ASSUME NEW b \in Brokers,
             \/ FinishStart(b) \/ IdleShutdown(b) \/ StopAccepting(b) \/ Drained(b)
      PROVE  MetaInv'
  <2>1. /\ pc[b] \in Published /\ \A c \in Brokers \ {b} : pc'[c] = pc[c]
        /\ UNCHANGED <<meta, stolen>>
    BY <1>4, GotoSteps
       DEF FinishStart, IdleShutdown, BeginClose, StopAccepting, Drained, Steps, Published
  <2>. QED  BY <2>1 DEF MetaInv
<1>5. ASSUME NEW b \in Brokers, SweepMetadata(b) PROVE MetaInv'
  <2>1. /\ pc[b] = "sweep" /\ \A c \in Brokers \ {b} : pc'[c] = pc[c]
        /\ UNCHANGED <<meta, stolen>>
    BY <1>5, GotoSteps DEF SweepMetadata, Steps
  <2>. QED  BY <2>1 DEF MetaInv, Published
<1>6. ASSUME NEW b \in Brokers, UnlinkMetadata(b) PROVE MetaInv'
  <2>1. /\ pc'[b] = "release" /\ \A c \in Brokers \ {b} : pc'[c] = pc[c]
        /\ stolen' = stolen
    BY <1>6, GotoSteps DEF UnlinkMetadata, Steps
  <2>2. ~stolen => \A c \in Brokers \ {b} : pc[c] \notin Published
    BY <1>6, <1>0 DEF UnlinkMetadata, Holding, Published
  <2>. QED  BY <2>1, <2>2 DEF MetaInv, Published
<1>7. ASSUME PiStep PROVE MetaInv'
  <2>1. CASE UNCHANGED pc  BY <1>7, <2>1 DEF PiStep, MetaInv
  <2>2. ASSUME NEW b \in Brokers, pc[b] = "idle", Goto(b, "create") PROVE MetaInv'
    <3>1. pc'[b] = "create" /\ \A c \in Brokers \ {b} : pc'[c] = pc[c]
      BY <2>2, GotoSteps DEF Steps
    <3>. QED  BY <1>7, <3>1 DEF PiStep, MetaInv, Published
  <2>3. ASSUME NEW b \in Brokers, pc[b] = "started", Goto(b, "closing") PROVE MetaInv'
    <3>1. \A c \in Brokers \ {b} : pc'[c] = pc[c]
      BY <2>3, GotoSteps DEF Steps
    <3>. QED  BY <1>7, <2>3, <3>1 DEF PiStep, MetaInv, Published
  <2>. QED  BY <1>7, <2>1, <2>2, <2>3 DEF PiStep
<1>8. CASE UNCHANGED vars  BY <1>8 DEF vars, processVars, MetaInv
<1>. QED
  BY <1>1, <1>2, <1>3, <1>4, <1>5, <1>6, <1>7, <1>8, PiSteps DEF Next, ProcessStep

------------------------------------------------------------------------------
(* Connections *)

\* A step that keeps the connections and moves one process keeps ClientInv, if
\* that process goes on serving or serves nobody.
LEMMA ClientsKept ==
  ASSUME TypeOK, ClientInv, NEW b \in Brokers, UNCHANGED <<on, sock, joined>>,
         \A c \in Brokers \ {b} : pc'[c] = pc[c],
         pc'[b] \in Serving \/ pc[b] \notin Serving \/ Connected(b) = {}
  PROVE  ClientInv'
<1> SUFFICES ASSUME NEW p \in Pis, sock[p] # NoOne PROVE pc'[sock[p]] \in Serving
  BY DEF ClientInv
<1>1. sock[p] \in Brokers /\ pc[sock[p]] \in Serving  BY DEF TypeOK, ClientInv
<1>2. CASE sock[p] = b
  <2>1. p \in Connected(b)  BY <1>2 DEF Connected
  <2>. QED  BY <1>1, <1>2, <2>1
<1>3. CASE sock[p] # b  BY <1>1, <1>3
<1>. QED  BY <1>2, <1>3

\* Connections that end leave the others as they were.
LEMMA ClientsDropped ==
  ASSUME TypeOK, ClientInv, NEW S \in SUBSET Pis, on' = on, Drop(S),
         \A p \in Pis \ S : sock[p] # NoOne => pc'[sock[p]] \in Serving
  PROVE  ClientInv'
<1> SUFFICES ASSUME NEW p \in Pis
             PROVE  /\ sock'[p] # NoOne => p \in on' /\ pc'[sock'[p]] \in Serving
                    /\ p \in joined' => sock'[p] # NoOne
  BY DEF ClientInv
<1>1. CASE p \in S  BY <1>1 DEF Drop
<1>2. CASE p \notin S  BY <1>2 DEF Drop, ClientInv
<1>. QED  BY <1>1, <1>2

LEMMA ClientStep == IInv /\ [Next]_vars => ClientInv'
<1> SUFFICES ASSUME IInv, [Next]_vars PROVE ClientInv'
  OBVIOUS
<1>. USE Names DEF IInv
<1>1. ASSUME NEW b \in Brokers,
             \/ Create(b) \/ Write(b) \/ Inspect(b) \/ RemoveStale(b) \/ Listen(b)
             \/ SweepMetadata(b) \/ UnlinkMetadata(b) \/ Release(b)
      PROVE  ClientInv'
  <2>1. /\ pc[b] \notin Serving /\ \A c \in Brokers \ {b} : pc'[c] = pc[c]
        /\ UNCHANGED <<on, sock, joined>>
    BY <1>1, GotoSteps
       DEF Create, Write, Inspect, RemoveStale, Listen, SweepMetadata, UnlinkMetadata,
           Release, Ends, Steps, Serving, piVars
  <2>. QED  BY <2>1, ClientsKept
<1>2. ASSUME NEW b \in Brokers,
             \/ Publish(b) \/ FinishStart(b) \/ FailStart(b) \/ StopAccepting(b)
      PROVE  ClientInv'
  <2>1. /\ pc'[b] \in Serving /\ \A c \in Brokers \ {b} : pc'[c] = pc[c]
        /\ UNCHANGED <<on, sock, joined>>
    BY <1>2, GotoSteps
       DEF Publish, FinishStart, FailStart, StopAccepting, Steps, Serving, piVars
  <2>. QED  BY <2>1, ClientsKept
<1>3. ASSUME NEW b \in Brokers, Undo(b) \/ Drained(b) PROVE ClientInv'
  <2>1. /\ Connected(b) = {} /\ \A c \in Brokers \ {b} : pc'[c] = pc[c]
        /\ UNCHANGED <<on, sock, joined>>
    BY <1>3, GotoSteps DEF Undo, Drained, Steps, piVars
  <2>. QED  BY <2>1, ClientsKept
<1>4. ASSUME NEW b \in Brokers, IdleShutdown(b) PROVE ClientInv'
  <2>1. /\ pc'[b] = "closing" /\ \A c \in Brokers \ {b} : pc'[c] = pc[c]
        /\ Drop(Connected(b) \cap joined) /\ on' = on
    BY <1>4, GotoSteps DEF IdleShutdown, BeginClose, Steps
  <2>2. \A p \in Pis : sock[p] # NoOne => pc'[sock[p]] \in Serving
    BY <2>1 DEF ClientInv, TypeOK, Serving
  <2>3. Connected(b) \cap joined \in SUBSET Pis  BY DEF Connected
  <2>. QED  BY <2>1, <2>2, <2>3, ClientsDropped
<1>5. ASSUME NEW b \in Brokers, Crash(b) PROVE ClientInv'
  <2>1. /\ \A c \in Brokers \ {b} : pc'[c] = pc[c]
        /\ Drop(Connected(b)) /\ on' = on
    BY <1>5, GotoSteps DEF Crash, Ends, Steps
  <2>2. \A p \in Pis \ Connected(b) : sock[p] # NoOne => pc'[sock[p]] \in Serving
    BY <2>1 DEF ClientInv, TypeOK, Connected
  <2>3. Connected(b) \in SUBSET Pis  BY DEF Connected
  <2>. QED  BY <2>1, <2>2, <2>3, ClientsDropped
<1>6. ASSUME NEW p \in Pis, Open(p) \/ Quit(p) \/ Retry(p) PROVE ClientInv'
  <2>1. pc' = pc  BY <1>6 DEF Open, Quit, Retry, processVars
  <2>2. CASE Open(p) \/ Retry(p)  BY <2>1, <2>2 DEF Open, Retry, ClientInv
  <2>3. CASE Quit(p)  BY <2>1, <2>3 DEF Quit, ClientInv, TypeOK
  <2>. QED  BY <1>6, <2>2, <2>3
<1>7. ASSUME NEW p \in Pis, Reach(p) PROVE ClientInv'
  <2>1. /\ pc' = pc /\ on' = on /\ joined' = joined /\ p \in on
        /\ port # NoOne /\ sock' = [sock EXCEPT ![p] = port]
    BY <1>7 DEF Reach, Dialling, processVars
  <2>2. pc[port] \in Serving  BY <2>1 DEF PortInv, Serving
  <2>. QED  BY <2>1, <2>2 DEF ClientInv, TypeOK
<1>8. ASSUME NEW p \in Pis, Miss(p) PROVE ClientInv'
  <2>1. pc' = pc /\ on' = on /\ Drop({p})  BY <1>8 DEF Miss, processVars
  <2>2. \A q \in Pis : sock[q] # NoOne => pc'[sock[q]] \in Serving
    BY <2>1 DEF ClientInv
  <2>. QED  BY <2>1, <2>2, ClientsDropped
<1>9. ASSUME NEW p \in Pis, Join(p) PROVE ClientInv'
  BY <1>9 DEF Join, ClientInv, processVars
<1>10. ASSUME NEW p \in Pis, RequestStop(p), pc[port] = "started" PROVE ClientInv'
  <2>1. port \in Brokers /\ Goto(port, "closing") /\ on' = on
    BY <1>10 DEF RequestStop, TypeOK
  <2>2. pc'[port] = "closing" /\ \A c \in Brokers \ {port} : pc'[c] = pc[c]
    BY <2>1, GotoSteps DEF Steps
  <2>3. \A q \in Pis : sock[q] # NoOne => pc'[sock[q]] \in Serving
    BY <2>1, <2>2 DEF ClientInv, TypeOK, Serving
  <2>4. /\ sock' = [q \in Pis |-> IF q \in Connected(port) \cap joined THEN NoOne ELSE sock[q]]
        /\ joined' = joined \ (Connected(port) \cap joined)
    BY <1>10 DEF RequestStop
  <2>. QED  BY <2>1, <2>3, <2>4 DEF ClientInv
<1>11. ASSUME NEW p \in Pis,
              \/ Probe(p) \/ AwaitGone(p) \/ Poll(p) \/ GiveUp(p)
              \/ RequestStop(p) /\ pc[port] # "started"
       PROVE  ClientInv'
  <2>1. UNCHANGED <<on, sock, joined>>
    BY <1>11 DEF Probe, AwaitGone, Poll, GiveUp, RequestStop
  <2>2. CASE UNCHANGED pc  BY <2>1, <2>2 DEF ClientInv
  <2>3. ASSUME NEW b \in Brokers, pc[b] = "idle", Goto(b, "create") PROVE ClientInv'
    <3>1. \A c \in Brokers \ {b} : pc'[c] = pc[c]  BY <2>3, GotoSteps DEF Steps
    <3>2. pc[b] \notin Serving  BY <2>3 DEF Serving
    <3>. QED  BY <2>1, <3>1, <3>2, ClientsKept
  <2>4. \/ UNCHANGED pc
        \/ \E b \in Brokers : pc[b] = "idle" /\ Goto(b, "create")
    BY <1>11, SpawnSteps DEF Probe, AwaitGone, Poll, GiveUp, RequestStop, processVars
  <2>. QED  BY <2>2, <2>3, <2>4
<1>12. CASE UNCHANGED vars  BY <1>12 DEF vars, processVars, piVars, ClientInv
<1>. QED
  BY <1>1, <1>2, <1>3, <1>4, <1>5, <1>6, <1>7, <1>8, <1>9, <1>10, <1>11, <1>12
     DEF Next, ProcessStep, TaskStep

------------------------------------------------------------------------------
(* Theorems *)

LEMMA Inductive == Spec => []IInv
<1>1. IInv /\ [Next]_vars => IInv'
  BY TypeStep, LockStep, PortStep, MetaStep, ClientStep DEF IInv
<1>. QED  BY InitIInv, <1>1, PTL DEF Spec

\* TypeOK: every variable keeps its type, for any Pis, builds and bounds.
THEOREM TypeCorrect == Spec => []TypeOK
<1>1. IInv => TypeOK  BY DEF IInv
<1>. QED  BY <1>1, Inductive, PTL

\* OneBrokerUnlessStolen: acquireBrokerProcessLock admits one process at a time
\* to the database, whatever starts, closes, fails and crashes, unless a
\* launcher unlinked the lock of a living process.
THEOREM OneOwner == Spec => []OneBrokerUnlessStolen
<1>1. IInv => OneBrokerUnlessStolen
  <2> SUFFICES ASSUME IInv, ~stolen, NEW b \in Brokers, NEW c \in Brokers,
                      DatabaseOpen(b), DatabaseOpen(c)
               PROVE  b = c
    BY DEF OneBrokerUnlessStolen, OneBroker
  <2>1. pc[b] \in Holding /\ pc[c] \in Holding  BY DEF DatabaseOpen, Holding
  <2>2. lock.by = b /\ lock.by = c  BY <2>1 DEF IInv, LockInv
  <2>. QED  BY <2>2
<1>. QED  BY <1>1, Inductive, PTL

\* ServedByOwner: start(), its failure and close() never leave a client with a
\* process that closed the database or gave up the lock.
THEOREM ClientsOfOwner == Spec => []ServedByOwner
<1>1. IInv => ServedByOwner
  <2> SUFFICES ASSUME IInv, NEW p \in joined
               PROVE  /\ DatabaseOpen(sock[p])
                      /\ stolen \/ lock = [by |-> sock[p], written |-> TRUE]
    BY DEF ServedByOwner
  <2>1. p \in Pis  BY DEF IInv, TypeOK
  <2>2. sock[p] \in Brokers /\ pc[sock[p]] \in Serving
    BY <2>1 DEF IInv, ClientInv, TypeOK
  <2>3. DatabaseOpen(sock[p])  BY <2>2 DEF DatabaseOpen, Serving
  <2>4. pc[sock[p]] \in Holding /\ (pc[sock[p]] # "write") = TRUE
    BY <2>2 DEF Serving, Holding
  <2>5. ~stolen => lock = [by |-> sock[p], written |-> pc[sock[p]] # "write"]
    BY <2>2, <2>4 DEF IInv, LockInv
  <2>. QED  BY <2>3, <2>4, <2>5
<1>. QED  BY <1>1, Inductive, PTL

\* MetadataNamesServer: writeBrokerRuntimeMetadata and removeBrokerRuntimeMetadata
\* of successive brokers leave the file naming the one that runs.
THEOREM MetadataRight == Spec => []MetadataNamesServer
<1>1. IInv => MetadataNamesServer
  BY DEF IInv, MetaInv, MetadataNamesServer, Published
<1>. QED  BY <1>1, Inductive, PTL

------------------------------------------------------------------------------
(* No theft without a fault *)

\* Only a fault leaves a lock whose creator is dead, and only such a lock is
\* ever removed by another process.
TheftInv ==
  lock.by = Dead \/ stolen \/ (\E b \in Brokers : pc[b] = "remove") => faults > 0

\* What a step that leaves lock, faults and stolen alone may do to the steps of
\* the launchers.
LEMMA TheftKept ==
  ASSUME TheftInv, lock'.by = Dead => lock.by = Dead, stolen' => stolen, faults' = faults,
         \A b \in Brokers : pc'[b] = "remove" => pc[b] = "remove"
  PROVE  TheftInv'
  BY DEF TheftInv

LEMMA TheftStep == IInv /\ TheftInv /\ [Next]_vars => TheftInv'
<1> SUFFICES ASSUME IInv, TheftInv, [Next]_vars PROVE TheftInv'
  OBVIOUS
<1>. USE Names DEF IInv
<1>1. ASSUME NEW b \in Brokers, Create(b) PROVE TheftInv'
  <2>1. \A c \in Brokers : pc'[c] = "remove" => pc[c] = "remove"
    BY <1>1, GotoSteps DEF Create, Steps
  <2>2. lock'.by = Dead => lock.by = Dead
    BY <1>1 DEF Create
  <2>. QED  BY <1>1, <2>1, <2>2, TheftKept DEF Create
<1>2. ASSUME NEW b \in Brokers, Write(b) PROVE TheftInv'
  <2>1. \A c \in Brokers : pc'[c] = "remove" => pc[c] = "remove"
    BY <1>2, GotoSteps DEF Write, Steps
  <2>2. lock'.by = lock.by
    BY <1>2 DEF Write, TypeOK
  <2>. QED  BY <1>2, <2>1, <2>2, TheftKept DEF Write
<1>3. ASSUME NEW b \in Brokers, Inspect(b) PROVE TheftInv'
  <2>1. CASE lock.by = Dead
    BY <1>3, <2>1 DEF Inspect, TheftInv
  <2>2. CASE lock.by # Dead
    <3>1. \A c \in Brokers : pc'[c] = "remove" => pc[c] = "remove"
      BY <1>3, <2>2, GotoSteps DEF Inspect, Ends, Steps
    <3>. QED  BY <1>3, <3>1, TheftKept DEF Inspect
  <2>. QED  BY <2>1, <2>2
<1>4. ASSUME NEW b \in Brokers, RemoveStale(b) PROVE TheftInv'
  BY <1>4 DEF RemoveStale, TheftInv
<1>5. ASSUME NEW b \in Brokers, FailStart(b) \/ Crash(b) PROVE TheftInv'
  BY <1>5 DEF FailStart, Crash, TheftInv, TypeOK
<1>6. ASSUME NEW b \in Brokers,
             \/ Listen(b) \/ Publish(b) \/ FinishStart(b) \/ Undo(b) \/ StopAccepting(b)
             \/ Drained(b) \/ SweepMetadata(b) \/ UnlinkMetadata(b)
             \/ IdleShutdown(b)
      PROVE  TheftInv'
  <2>1. \A c \in Brokers : pc'[c] = "remove" => pc[c] = "remove"
    BY <1>6, GotoSteps DEF Listen, Publish, FinishStart, Undo, StopAccepting, Drained,
         SweepMetadata, UnlinkMetadata, IdleShutdown, BeginClose, Steps
  <2>2. UNCHANGED <<lock, stolen, faults>>
    BY <1>6 DEF Listen, Publish, FinishStart, Undo, StopAccepting, Drained,
         SweepMetadata, UnlinkMetadata, IdleShutdown
  <2>. QED  BY <2>1, <2>2, TheftKept
<1>7. ASSUME NEW b \in Brokers, Release(b) PROVE TheftInv'
  <2>1. \A c \in Brokers : pc'[c] = "remove" => pc[c] = "remove"
    BY <1>7, GotoSteps DEF Release, Ends, Steps
  <2>2. lock'.by = Dead => lock.by = Dead
    BY <1>7 DEF Release, NoLock
  <2>. QED  BY <1>7, <2>1, <2>2, TheftKept DEF Release
<1>8. ASSUME PiStep, faults' = faults PROVE TheftInv'
  <2>1. \A c \in Brokers : pc'[c] = "remove" => pc[c] = "remove"
    BY <1>8, GotoSteps DEF PiStep, Steps
  <2>. QED  BY <1>8, <2>1, TheftKept DEF PiStep
<1>9. ASSUME NEW p \in Pis,
             Open(p) \/ Quit(p) \/ Retry(p) \/ Reach(p) \/ Miss(p) \/ Join(p) \/ TaskStep(p)
      PROVE  PiStep /\ faults' = faults
  <2>1. faults' = faults
    BY <1>9 DEF Open, Quit, Retry, Reach, Miss, Join, TaskStep, Probe, RequestStop,
         AwaitGone, Poll, GiveUp
  <2>. QED  BY <1>9, <2>1, PiSteps
<1>10. CASE UNCHANGED vars
  BY <1>10 DEF vars, processVars, TheftInv
<1>. QED
  BY <1>1, <1>2, <1>3, <1>4, <1>5, <1>6, <1>7, <1>8, <1>9, <1>10 DEF Next, ProcessStep

LEMMA TheftAlways == Spec => []TheftInv
<1>1. Init => TheftInv
  BY Names DEF Init, TheftInv, NoLock
<1>2. IInv /\ TheftInv /\ [Next]_vars => TheftInv'
  BY TheftStep
<1>. QED  BY <1>1, <1>2, Inductive, PTL DEF Spec

\* However many Pis start launchers at the same moment, none unlinks the lock
\* of a living process before a broker was killed or its start failed.
THEOREM TheftNeedsFault == Spec => [](stolen => faults > 0)
<1>1. TheftInv => (stolen => faults > 0)
  BY DEF TheftInv
<1>. QED  BY <1>1, TheftAlways, PTL

\* OneBroker: without faults the lock file admits one process at a time to the
\* database, whatever Pis start, restart, stop and shut down.
THEOREM OneBrokerWithoutFaults ==
  ASSUME MaxFaults = 0
  PROVE  Spec => []OneBroker
<1>1. IInv /\ OneBrokerUnlessStolen /\ (stolen => faults > 0) => OneBroker
  BY DEF IInv, TypeOK, OneBrokerUnlessStolen
<1>. QED  BY <1>1, Inductive, OneOwner, TheftNeedsFault, PTL
=============================================================================
