---------------------------- MODULE BrokerStart ----------------------------
(***************************************************************************)
(* Who runs the broker.  Every Pi connects to the broker on the default    *)
(* port and starts one when nobody answers (extension/index.ts,            *)
(* broker-client.ts, broker-process.ts); a launcher process becomes the    *)
(* broker only through a lock file beside the database (process-lock.ts),  *)
(* publishes itself in a metadata file (runtime-metadata.ts) and leaves in *)
(* the order of server.ts close().  Each await of these programs is a      *)
(* step, so that processes, files and the port are seen halfway.           *)
(*                                                                         *)
(* Processes are the slots 1..MaxBrokers, and a slot runs again as another *)
(* process: a file that names a process which ended names Dead, a pid that *)
(* does not exist.  A probe and its answer are one step, and a Pi learns   *)
(* of a closed connection in the step that closes it.  Timeouts may strike *)
(* at any moment.                                                          *)
(***************************************************************************)
EXTENDS Naturals

CONSTANTS
  Pis,          \* Pi processes of one computer and one data directory
  Teams,        \* what the Pis may be: Teams is a set of functions t, t[p]
                \* the mode of p's connectionConfig and the build it runs
  MaxBrokers,   \* bound: launcher processes at one time
  MaxFaults     \* bound: crashes and failed starts of brokers

ASSUME ConstantsAssumption ==
  /\ Teams \subseteq [Pis -> [mode : {"local", "lan-host"}, version : Nat,
                             channel : {"release", "development"}]]
  /\ MaxBrokers \in Nat \ {0}
  /\ MaxFaults \in Nat

Brokers == 1..MaxBrokers
NoOne == 0
Dead == MaxBrokers + 1
Processes == Brokers \cup {NoOne, Dead}

VARIABLES
  team,     \* what each Pi is; fixed
  pc,       \* pc[b]: what launcher process b does next; "idle": no process
  retried,  \* retried[b]: b, still without the lock, is in its second try
  kind,     \* kind[b]: mode and build of b, those of the Pi that spawned it
  lock,     \* the lock file: its creator, and whether the record is in it
  meta,     \* the process the metadata file names
  port,     \* the process listening on the port
  on,       \* the Pis that run
  task,     \* task[p]: the step of connectOrStartBroker p is in, or "none"
  sock,     \* sock[p]: the process p's connection leads to
  joined,   \* the Pis whose connection reached its first snapshot
  armed,    \* the Pis without a connection whose client redials by its timer,
            \* which it has set when it last saw a connection end
  faults,
  stolen    \* history: a launcher removed the lock of a living process

processVars == <<pc, retried, kind>>
piVars == <<on, task, sock, joined, armed>>
vars == <<team, processVars, piVars, lock, meta, port, faults, stolen>>

NoKind == [mode |-> "local", version |-> 0, channel |-> "release"]
NoLock == [by |-> NoOne, written |-> FALSE]

Steps == {"idle", "create", "write", "inspect", "remove", "listen",
          "prepare", "supervise", "started", "closing", "draining", "sweep",
          "unlink", "undo", "release"}
Tasks == {"none", "dial", "probe", "stop", "gone", "poll", "join"}

-----------------------------------------------------------------------------
(* What the processes and the Pis are to each other.                       *)

\* process.kill(pid, 0)
Alive(b) == pc[b] # "idle"

\* Between new BrokerDatabase and database.close().
DatabaseOpen(b) ==
  pc[b] \in {"listen", "prepare", "supervise", "started", "closing",
             "draining", "undo"}

Connected(b) == {p \in Pis : sock[p] = b}

\* brokerCompatibilityAction
CompatibilityAction(p, b) ==
  LET mine == team[p]
      theirs == kind[b] IN
  IF mine.channel = "development" /\ theirs.channel = "release"
    THEN "reject"
  ELSE IF /\ theirs.version = mine.version
          /\ theirs.channel = mine.channel
          /\ mine.mode = "local" \/ theirs.mode = "lan-host"
    THEN "reuse" ELSE "restart"

\* connectOrStartBroker: a local Pi dials first, the host of a network group
\* starts its broker first.
FirstStep(p) == IF team[p].mode = "lan-host" THEN "probe" ELSE "dial"

\* What becomes of p's task when a connection of p ends: onDisconnected begins
\* one if there is none; a local Pi that could not connect starts a broker,
\* and keeps connecting once it did; a host gives up after one client.start.
TaskAfterLoss(p) ==
  CASE task[p] = "none" -> FirstStep(p)
    [] task[p] = "dial" -> "probe"
    [] task[p] = "join" /\ team[p].mode = "lan-host" -> "none"
    [] OTHER -> task[p]

\* The connections of the Pis in S end; their clients arm the timer.
Drop(S) ==
  /\ sock' = [p \in Pis |-> IF p \in S THEN NoOne ELSE sock[p]]
  /\ task' = [p \in Pis |-> IF p \in S THEN TaskAfterLoss(p) ELSE task[p]]
  /\ joined' = joined \ S
  /\ armed' = armed \cup S

Init ==
  /\ team \in Teams
  /\ pc = [b \in Brokers |-> "idle"]
  /\ retried = [b \in Brokers |-> FALSE]
  /\ kind = [b \in Brokers |-> NoKind]
  /\ lock = NoLock
  /\ meta = NoOne
  /\ port = NoOne
  /\ on = {}
  /\ task = [p \in Pis |-> "none"]
  /\ sock = [p \in Pis |-> NoOne]
  /\ joined = {}
  /\ armed = {}
  /\ faults = 0
  /\ stolen = FALSE

-----------------------------------------------------------------------------
(* acquireBrokerProcessLock                                                *)

Goto(b, step) == pc' = [pc EXCEPT ![b] = step]

\* The process of b ends; files that name it now name nobody.
Ends(b) ==
  /\ Goto(b, "idle")
  /\ retried' = [retried EXCEPT ![b] = FALSE]
  /\ kind' = [kind EXCEPT ![b] = NoKind]
  /\ meta' = IF meta = b THEN Dead ELSE meta

\* open(path, "wx"): creates the file, or finds one (EEXIST).
Create(b) ==
  /\ pc[b] = "create"
  /\ \/ /\ lock = NoLock
        /\ lock' = [by |-> b, written |-> FALSE]
        /\ Goto(b, "write")
     \/ /\ lock # NoLock
        /\ Goto(b, "inspect")
        /\ UNCHANGED lock
  /\ UNCHANGED <<team, retried, kind, piVars, meta, port, faults, stolen>>

\* file.writeFile(record): into the file b created, even if it was unlinked.
\* The launcher holds the lock and opens the database.
Write(b) ==
  /\ pc[b] = "write"
  /\ lock' = IF lock.by = b THEN [lock EXCEPT !.written = TRUE] ELSE lock
  /\ retried' = [retried EXCEPT ![b] = FALSE]
  /\ Goto(b, "listen")
  /\ UNCHANGED <<team, kind, piVars, meta, port, faults, stolen>>

\* A mutant for the runs: a lock file is never judged stale.
InspectTrusting(b) ==
  /\ pc[b] = "inspect"
  /\ Ends(b)
  /\ UNCHANGED <<team, piVars, lock, port, faults, stolen>>

\* readPublishedLock and processExists: a living owner, or a file that shows no
\* record for 50 ms, makes the launcher give up (waitForBroker only waits).
Inspect(b) ==
  /\ pc[b] = "inspect"
  /\ IF lock.written /\ lock.by = Dead
       THEN Goto(b, "remove") /\ UNCHANGED <<retried, kind, meta>>
       ELSE Ends(b)
  /\ UNCHANGED <<team, piVars, lock, port, faults, stolen>>

\* removeLock(path): unlinks whatever now has that name, then tries once more.
RemoveStale(b) ==
  /\ pc[b] = "remove"
  /\ stolen' = (stolen \/ lock.by \in Brokers)
  /\ lock' = NoLock
  /\ IF retried[b]
       THEN Ends(b)
       ELSE /\ Goto(b, "create")
            /\ retried' = [retried EXCEPT ![b] = TRUE]
            /\ UNCHANGED <<kind, meta>>
  /\ UNCHANGED <<team, piVars, port, faults>>

-----------------------------------------------------------------------------
(* start() behind the lock                                                 *)

\* server.listen with exclusive: true; EADDRINUSE fails the start.
Listen(b) ==
  /\ pc[b] = "listen"
  /\ IF port = NoOne
       THEN Goto(b, "prepare") /\ port' = b
       ELSE Goto(b, "undo") /\ UNCHANGED port
  /\ UNCHANGED <<team, retried, kind, piVars, lock, meta, faults, stolen>>

\* mcp.start, refreshNetworkAccess, web.start, then writeBrokerRuntimeMetadata.
\* The port already accepts clients.
Publish(b) ==
  /\ pc[b] = "prepare"
  /\ meta' = b
  /\ Goto(b, "supervise")
  /\ UNCHANGED <<team, retried, kind, piVars, lock, port, faults, stolen>>

\* syncBackgroundSupervisor, then started = true: from here on close() works.
FinishStart(b) ==
  /\ pc[b] = "supervise"
  /\ Goto(b, "started")
  /\ UNCHANGED <<team, retried, kind, piVars, lock, meta, port, faults, stolen>>

\* The catch of start(): one of the steps after listen threw.  server.close
\* stops listening; the clients already connected keep their connections, and
\* the metadata file stays.
FailStart(b) ==
  /\ pc[b] \in {"prepare", "supervise"}
  /\ faults < MaxFaults
  /\ faults' = faults + 1
  /\ port' = NoOne
  /\ Goto(b, "undo")
  /\ UNCHANGED <<team, retried, kind, piVars, lock, meta, stolen>>

\* ... and when the last of them is gone: database.close().
Undo(b) ==
  /\ pc[b] = "undo"
  /\ Connected(b) = {}
  /\ Goto(b, "release")
  /\ UNCHANGED <<team, retried, kind, piVars, lock, meta, port, faults, stolen>>

-----------------------------------------------------------------------------
(* close()                                                                 *)

\* close(): nothing unless started; the registered sessions are cut off.
BeginClose(b) == Goto(b, "closing") /\ Drop(Connected(b) \cap joined)

\* The idle timer: no client is registered and no group wants to stay open.
IdleShutdown(b) ==
  /\ pc[b] = "started"
  /\ Connected(b) \cap joined = {}
  /\ BeginClose(b)
  /\ UNCHANGED <<team, retried, kind, on, lock, meta, port, faults, stolen>>

\* A mutant for the runs: the lock goes before the clients and the database.
StopAndRelease(b) ==
  /\ pc[b] = "closing"
  /\ port' = NoOne
  /\ lock' = IF lock.by = b THEN NoLock ELSE lock
  /\ Goto(b, "draining")
  /\ UNCHANGED <<team, retried, kind, piVars, meta, faults, stolen>>

\* web.close, mcp.close and the mDNS stop are over: server.close().
StopAccepting(b) ==
  /\ pc[b] = "closing"
  /\ port' = NoOne
  /\ Goto(b, "draining")
  /\ UNCHANGED <<team, retried, kind, piVars, lock, meta, faults, stolen>>

\* Mutants for the runs: the lock goes before the metadata file; the database
\* is closed while clients are still connected.
DrainedAndReleased(b) ==
  /\ pc[b] = "draining"
  /\ Connected(b) = {}
  /\ lock' = IF lock.by = b THEN NoLock ELSE lock
  /\ Goto(b, "sweep")
  /\ UNCHANGED <<team, retried, kind, piVars, meta, port, faults, stolen>>

ClosedUnderClients(b) ==
  /\ pc[b] = "draining"
  /\ Goto(b, "sweep")
  /\ UNCHANGED <<team, retried, kind, piVars, lock, meta, port, faults, stolen>>

\* server.close calls back when every connection has ended: database.close().
Drained(b) ==
  /\ pc[b] = "draining"
  /\ Connected(b) = {}
  /\ Goto(b, "sweep")
  /\ UNCHANGED <<team, retried, kind, piVars, lock, meta, port, faults, stolen>>

\* removeBrokerRuntimeMetadata: the read, which compares the instance ...
SweepMetadata(b) ==
  /\ pc[b] = "sweep"
  /\ Goto(b, IF meta = b THEN "unlink" ELSE "release")
  /\ UNCHANGED <<team, retried, kind, piVars, lock, meta, port, faults, stolen>>

\* ... and the unlink, which does not.
UnlinkMetadata(b) ==
  /\ pc[b] = "unlink"
  /\ meta' = NoOne
  /\ Goto(b, "release")
  /\ UNCHANGED <<team, retried, kind, piVars, lock, port, faults, stolen>>

\* release(): removes the lock if its token is still b's; the process ends.
Release(b) ==
  /\ pc[b] = "release"
  /\ lock' = IF lock.by = b /\ lock.written THEN NoLock ELSE lock
  /\ Ends(b)
  /\ UNCHANGED <<team, piVars, port, faults, stolen>>

\* The process is killed: the files stay, the system closes its sockets.
Crash(b) ==
  /\ Alive(b)
  /\ faults < MaxFaults
  /\ faults' = faults + 1
  /\ Ends(b)
  /\ port' = IF port = b THEN NoOne ELSE port
  /\ lock' = IF lock.by = b THEN [lock EXCEPT !.by = Dead] ELSE lock
  /\ Drop(Connected(b))
  /\ UNCHANGED <<team, on, stolen>>

-----------------------------------------------------------------------------
(* The client of a Pi (broker-client.ts)                                   *)

\* session_start with a saved connection.
Open(p) ==
  /\ p \notin on
  /\ on' = on \cup {p}
  /\ task' = [task EXCEPT ![p] = FirstStep(p)]
  /\ UNCHANGED <<team, processVars, sock, joined, armed, lock, meta, port, faults, stolen>>

\* The Pi process ends; a launcher it spawned is detached and goes on.
Quit(p) ==
  /\ p \in on
  /\ on' = on \ {p}
  /\ task' = [task EXCEPT ![p] = "none"]
  /\ sock' = [sock EXCEPT ![p] = NoOne]
  /\ joined' = joined \ {p}
  /\ armed' = armed \ {p}
  /\ UNCHANGED <<team, processVars, lock, meta, port, faults, stolen>>

\* /comms: ensureConnected calls connectOrStartBroker again.  For a client
\* whose timer is set this is the step its Miss takes.
Retry(p) ==
  /\ p \in on \ armed
  /\ task[p] = "none"
  /\ sock[p] = NoOne
  /\ task' = [task EXCEPT ![p] = FirstStep(p)]
  /\ UNCHANGED <<team, processVars, on, sock, joined, armed, lock, meta, port, faults, stolen>>

\* connect(), from the task or from the reconnect timer, which runs beside it ...
Dialling(p) == p \in on /\ sock[p] = NoOne /\ (task[p] \in {"dial", "join"} \/ p \in armed)

\* ... reaches whoever listens ...
Reach(p) ==
  /\ Dialling(p)
  /\ port # NoOne
  /\ sock' = [sock EXCEPT ![p] = port]
  /\ armed' = armed \ {p}
  /\ UNCHANGED <<team, processVars, on, task, joined, lock, meta, port, faults, stolen>>

\* ... or nobody.
Miss(p) ==
  /\ Dialling(p)
  /\ port = NoOne
  /\ Drop({p})
  /\ UNCHANGED <<team, processVars, on, lock, meta, port, faults, stolen>>

\* Probe, hello, welcome and snapshot on an accepted connection: the broker
\* registers the client, in whatever step of its life it is.
Join(p) ==
  /\ sock[p] # NoOne
  /\ p \notin joined
  /\ joined' = joined \cup {p}
  /\ task' = IF task[p] \in {"dial", "join"}
               THEN [task EXCEPT ![p] = "none"] ELSE task
  /\ UNCHANGED <<team, processVars, on, sock, armed, lock, meta, port, faults, stolen>>

-----------------------------------------------------------------------------
(* startBroker and stopBroker of a Pi (broker-process.ts)                  *)

FreeSlots == {b \in Brokers : ~Alive(b)}

\* spawn(launcher, detached)
Spawn(p) ==
  /\ \E b \in FreeSlots :
       /\ \A c \in FreeSlots : b <= c
       /\ Goto(b, "create")
       /\ kind' = [kind EXCEPT ![b] = team[p]]
  /\ task' = [task EXCEPT ![p] = "poll"]
  /\ UNCHANGED retried

\* startBroker returned: client.start, or the loop of connect().
TaskAfterStart(p) == IF p \in joined THEN "none" ELSE "join"

\* The first probe of startBroker: nobody answers, or what to do with who does.
Probe(p) ==
  /\ task[p] = "probe"
  /\ IF port = NoOne
       THEN Spawn(p)
       ELSE /\ LET action == CompatibilityAction(p, port) IN
                 task' = [task EXCEPT ![p] =
                            CASE action = "reuse" -> TaskAfterStart(p)
                              [] action = "restart" -> "stop"
                              [] OTHER -> "none"]
            /\ UNCHANGED processVars
  /\ UNCHANGED <<team, on, sock, joined, armed, lock, meta, port, faults, stolen>>

\* stopBroker: broker.probe and broker.shutdown to whoever listens by now.  A
\* broker that has not started, or is closing, answers and does nothing.
RequestStop(p) ==
  /\ task[p] = "stop"
  /\ port # NoOne
  /\ \/ /\ pc[port] = "started"
        /\ Goto(port, "closing")
        /\ LET cut == Connected(port) \cap joined IN
             /\ sock' = [q \in Pis |-> IF q \in cut THEN NoOne ELSE sock[q]]
             /\ task' = [q \in Pis |->
                  IF q = p THEN "gone"
                  ELSE IF q \in cut THEN TaskAfterLoss(q) ELSE task[q]]
             /\ joined' = joined \ cut
             /\ armed' = armed \cup cut
     \/ /\ pc[port] # "started"
        /\ task' = [task EXCEPT ![p] = "gone"]
        /\ UNCHANGED <<pc, sock, joined, armed>>
  /\ UNCHANGED <<team, retried, kind, on, lock, meta, port, faults, stolen>>

\* The port is unreachable: the old broker counts as stopped.
AwaitGone(p) ==
  /\ task[p] = "gone"
  /\ port = NoOne
  /\ Spawn(p)
  /\ UNCHANGED <<team, on, sock, joined, armed, lock, meta, port, faults, stolen>>

\* A compatible broker answers, for a host one that serves the network.
Poll(p) ==
  /\ task[p] = "poll"
  /\ port # NoOne
  /\ team[p].mode = "local" \/ kind[port].mode = "lan-host"
  /\ task' = [task EXCEPT ![p] = TaskAfterStart(p)]
  /\ UNCHANGED <<team, processVars, on, sock, joined, armed, lock, meta, port, faults, stolen>>

\* An error ends the task: a wait timed out, the broker to stop is not there, or
\* the probe's connection was reset by a broker that is closing.
GiveUp(p) ==
  /\ \/ task[p] \in {"gone", "poll"}
     \/ task[p] = "join" /\ team[p].mode = "local" /\ sock[p] = NoOne
     \/ task[p] = "stop" /\ port = NoOne
     \/ task[p] = "probe" /\ port # NoOne /\ pc[port] = "closing"
  /\ task' = [task EXCEPT ![p] = "none"]
  /\ UNCHANGED <<team, processVars, on, sock, joined, armed, lock, meta, port, faults, stolen>>

-----------------------------------------------------------------------------
ProcessStep(b) ==
  \/ Create(b) \/ Write(b) \/ Inspect(b) \/ RemoveStale(b)
  \/ Listen(b) \/ Publish(b) \/ FinishStart(b) \/ Undo(b)
  \/ StopAccepting(b) \/ Drained(b) \/ SweepMetadata(b)
  \/ UnlinkMetadata(b) \/ Release(b)

TaskStep(p) ==
  Probe(p) \/ RequestStop(p) \/ AwaitGone(p) \/ Poll(p) \/ GiveUp(p)

Next ==
  \/ \E b \in Brokers :
       ProcessStep(b) \/ IdleShutdown(b) \/ FailStart(b) \/ Crash(b)
  \/ \E p \in Pis :
       Open(p) \/ Quit(p) \/ Retry(p) \/ Reach(p) \/ Miss(p) \/ Join(p) \/ TaskStep(p)

\* A process runs on, timers fire and a client's handshake is answered.  A client
\* redials every second, or every 50 ms, on its own clock: it does not miss a port
\* that is open again and again (SF).  Nothing makes a user open, leave or retry, a
\* broker idle or a process crash.
Fairness ==
  /\ \A b \in Brokers : WF_vars(ProcessStep(b))
  /\ \A p \in Pis : /\ WF_vars(Miss(p)) /\ SF_vars(Reach(p))
                     /\ WF_vars(Join(p)) /\ WF_vars(TaskStep(p))

Spec == Init /\ [][Next]_vars /\ Fairness

-----------------------------------------------------------------------------
TypeOK ==
  /\ team \in Teams
  /\ pc \in [Brokers -> Steps]
  /\ retried \in [Brokers -> BOOLEAN]
  /\ kind \in [Brokers -> {NoKind} \cup {team[p] : p \in Pis}]
  /\ lock \in [by : Processes, written : BOOLEAN]
  /\ meta \in Processes
  /\ port \in Brokers \cup {NoOne}
  /\ on \in SUBSET Pis
  /\ task \in [Pis -> Tasks]
  /\ sock \in [Pis -> Brokers \cup {NoOne}]
  /\ joined \in SUBSET on
  /\ armed \in SUBSET on
  /\ faults \in 0..MaxFaults
  /\ stolen \in BOOLEAN

\* At most one process of a data directory has the database open, whoever
\* starts, stops, fails or crashes (SPECIFICATION.md:114, process-lock.ts 29-66).
OneBroker == \A b, c \in Brokers : DatabaseOpen(b) /\ DatabaseOpen(c) => b = c

\* The lock file is the only thing that keeps a second process out: as long as
\* no launcher unlinked the lock of a living process, there is one.
OneBrokerUnlessStolen == stolen \/ OneBroker

\* A client is only ever served by a process that has the database open and
\* still owns the lock, also while it starts, fails to start or closes
\* (start 2795-2893, close 2945-2984).
ServedByOwner ==
  \A p \in joined :
    /\ DatabaseOpen(sock[p])
    /\ stolen \/ lock = [by |-> sock[p], written |-> TRUE]

\* The metadata file names the broker that has started: a predecessor on its
\* way out never removes it (removeBrokerRuntimeMetadata, close 2979-2983).
MetadataNamesServer ==
  \A b \in Brokers : pc[b] = "started" /\ ~stolen => meta = b

\* A creator died between open(path, "wx") and the write: no launcher may ever
\* remove that lock.
EmptyLockLeft == lock = [by |-> Dead, written |-> FALSE]

\* Some Pi tries: it has a task or a connection, or its client redials.
Trying == \E p \in on : task[p] # "none" \/ sock[p] # NoOne \/ p \in armed

\* From some moment on, nobody opens or leaves a Pi or types /comms.
UsersSettle == <>[][~ \E p \in Pis : Open(p) \/ Quit(p) \/ Retry(p)]_vars

\* As long as some Pi tries, it or another is served again and again: no
\* crash, failed start, lost connection or shutdown race leaves every Pi
\* outside for good, except a lock whose creator died before writing it, or a
\* launcher that removed the lock of a living process.
SomeoneServed ==
  UsersSettle => []<>(joined # {} \/ ~Trying \/ EmptyLockLeft \/ stolen)
=============================================================================
