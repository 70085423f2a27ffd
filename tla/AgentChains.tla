----------------------------- MODULE AgentChains -----------------------------
(***************************************************************************)
(* Agents that answer one another.  The answer of an Agent may name        *)
(* further Agents; each becomes a request of the next round of the same    *)
(* chain (handleAgentResult and handleChainDecision in                     *)
(* src/src/broker/server.ts, completeAndRoute and the paused_chains table  *)
(* in database.ts).  A chain may run RoundLimit rounds; then it pauses and *)
(* only the session that asked first may continue it, for RoundLimit more  *)
(* rounds, or end it.                                                      *)
(*                                                                         *)
(* One chain, one group.  A request id stands for the Agents the chain     *)
(* went through, and an answer for the request it answers.  How a request  *)
(* reaches its Agent and the result comes back over connections that fail  *)
(* is the module AgentRequests; here a delivery is held by its target until*)
(* its result is acknowledged.                                             *)
(***************************************************************************)
EXTENDS Naturals, Sequences, FiniteSets

CONSTANTS Agents,        \* one per Pi session
          Initiator,     \* the Agent whose session asked
          RoundLimit,    \* 10 in the code
          MaxRequests,   \* bound: requests of the chain
          Depth,         \* bound: length of the longest path that is modelled
          MaxContinues,  \* bound: how often the initiator continues the chain
          MaxFlight,     \* bound: decisions on their way to the broker
          MaxFaults      \* bound: sessions that leave, connections that break,
                         \* restarts of the broker

ASSUME ConstantsAssumption ==
  /\ Initiator \in Agents
  /\ RoundLimit \in Nat \ {0}
  /\ Depth \in Nat
  /\ {MaxRequests, MaxContinues, MaxFlight, MaxFaults} \subseteq Nat

\* Request ids: the Agents from the first one named to the target.
Paths == UNION {[1..n -> Agents] : n \in 1..Depth}
Target(p) == p[Len(p)]
Parent(p) == SubSeq(p, 1, Len(p) - 1)
Children(p, T) == {Append(p, a) : a \in T} \cap Paths

NoPath == <<>>
NoPause == [at |-> NoPath, targets |-> {}, unknown |-> FALSE, hasTask |-> TRUE,
            limit |-> 0, client |-> 0]

VARIABLES
  \* The database
  asked,          \* the user's message is stored
  status,         \* agent_requests.status
  round, limit,   \* agent_requests.round, round_limit
  hasTask,        \* agent_requests.text is not empty
  route,          \* messages.route_status of the answer to a request
  routeRequest,   \* messages.route_request_id of that answer; NoPath: none
  paused,         \* the row of paused_chains; NoPause: none
  \* The sessions
  joined,         \* the session is a member of the group
  client,         \* which clientId it has, counted
  held,           \* deliveries whose result the broker has not acknowledged
  connected,      \* the initiator's connection
  panel,          \* pausedChains in the initiator's extension; NoPath: empty
  decisions,      \* on their way from the initiator to the broker
  news,           \* chain.paused and chain.resolved on their way back
  \* Histories and bounds
  continues,      \* how often the chain was continued
  faults

rows == <<asked, status, round, limit, hasTask>>
routes == <<route, routeRequest>>
ui == <<connected, panel, decisions, news>>
vars == <<rows, routes, paused, joined, client, held, ui, continues, faults>>

Active == {"waiting", "open"}
Status == {"none", "completed", "failed"} \cup Active
RouteStatus == {"none", "open", "completed", "failed", "paused", "ended"}

Pauses == [at : Paths \cup {NoPath}, targets : SUBSET Agents, unknown : BOOLEAN,
           hasTask : BOOLEAN, limit : Nat, client : Nat]

Init ==
  /\ asked = FALSE
  /\ status = [p \in Paths |-> "none"]
  /\ round = [p \in Paths |-> 0]
  /\ limit = [p \in Paths |-> 0]
  /\ hasTask = [p \in Paths |-> FALSE]
  /\ route = [p \in Paths |-> "none"]
  /\ routeRequest = [p \in Paths |-> NoPath]
  /\ paused = NoPause
  /\ joined = [a \in Agents |-> TRUE]
  /\ client = [a \in Agents |-> 1]
  /\ held = {}
  /\ connected = TRUE /\ panel = NoPath
  /\ decisions = <<>> /\ news = <<>>
  /\ continues = 0 /\ faults = 0

Fault == faults < MaxFaults /\ faults' = faults + 1

------------------------------------------------------------------------------
(* Creating and failing requests *)

\* Bound: requests to T can be added.
Room(T) ==
  Cardinality({p \in Paths : status[p] # "none"}) + Cardinality(T) <= MaxRequests

\* A target that is a member may have lost its connection or be blocked; its
\* permission decides between the other two.
Outcomes(fails, a) ==
  IF fails \/ ~joined[a] THEN {"failed"} ELSE {"open", "waiting", "failed"}

\* The rows st with the requests in S added, all of the same round.
Insert(st, S, out, n, max, task) ==
  /\ status' = [p \in Paths |-> IF p \in S THEN out[Target(p)] ELSE st[p]]
  /\ round' = [p \in Paths |-> IF p \in S THEN n ELSE round[p]]
  /\ limit' = [p \in Paths |-> IF p \in S THEN max ELSE limit[p]]
  /\ hasTask' = [p \in Paths |-> IF p \in S THEN task ELSE hasTask[p]]

\* Mutant: those that wait for approval are delivered, the others announced.
DeliveredWaiting(S, out) == {p \in S : out[Target(p)] = "waiting"}

Delivered(S, out) == {p \in S : out[Target(p)] = "open"}

\* The answer to p shows where its only delivery goes; when it has several,
\* they are listed instead.
SetRoute(r, p, S, unknown, out) ==
  IF ~unknown /\ \E q \in S : S = {q}
  THEN LET q == CHOOSE q \in S : TRUE
       IN  /\ route' = [r EXCEPT ![p] = IF out[Target(q)] \in Active THEN "open" ELSE "failed"]
           /\ routeRequest' = [routeRequest EXCEPT ![p] = q]
  ELSE /\ route' = [r EXCEPT ![p] = IF S = {} /\ unknown THEN "failed" ELSE "none"]
       /\ routeRequest' = [routeRequest EXCEPT ![p] = NoPath]

\* Mutant: the answer that named a request does not learn of its failure.
RoutesAsBefore(S) == route

\* A request that ends without an answer fails the route that led to it.
FailedRoutes(S) ==
  [q \in Paths |-> IF \E p \in S : Parent(p) = q THEN "failed" ELSE route[q]]

\* rejectRequest, failRequest and the interruption by a restart
FailRequests(S) ==
  /\ status' = [p \in Paths |-> IF p \in S THEN "failed" ELSE status[p]]
  /\ route' = FailedRoutes(S)
  /\ held' = held \ S

\* Mutant: the group does not learn of the decision.
TellPause(msg) == news' = IF connected /\ msg.type = "paused" THEN Append(news, msg) ELSE news

\* chain.paused goes to the initiator's socket, chain.resolved to the group.
Tell(msg) == news' = IF connected THEN Append(news, msg) ELSE news

------------------------------------------------------------------------------
(* The broker: messages, permissions, results *)

\* The message that starts the chain: round 1.
ChatSend ==
  /\ ~asked /\ asked' = TRUE
  /\ joined[Initiator] /\ connected
  /\ \E T \in (SUBSET Agents) \ {{}}, task \in BOOLEAN :
       /\ Room(T)
       /\ \E out \in [T -> Status] :
            /\ \A a \in T : out[a] \in Outcomes(~task, a)
            /\ Insert(status, Children(NoPath, T), out, 1, RoundLimit, task)
            /\ held' = held \cup Delivered(Children(NoPath, T), out)
  /\ UNCHANGED <<routes, paused, joined, client, ui, continues, faults>>

\* approveRequest also marks the route that led here as queued.
Approve(p) ==
  /\ status[p] = "waiting"
  /\ status' = [status EXCEPT ![p] = "open"]
  /\ route' = [q \in Paths |-> IF Parent(p) = q THEN "open" ELSE route[q]]
  /\ held' = held \cup {p}
  /\ UNCHANGED <<asked, round, limit, hasTask, routeRequest, paused, joined, client,
                 ui, continues, faults>>

Reject(p) ==
  /\ status[p] = "waiting"
  /\ FailRequests({p})
  /\ UNCHANGED <<asked, round, limit, hasTask, routeRequest, paused, joined, client,
                 ui, continues, faults>>

\* agent.result of request p, not ok
ResultFailed(p) ==
  /\ p \in held /\ status[p] = "open"
  /\ FailRequests({p})
  /\ UNCHANGED <<asked, round, limit, hasTask, routeRequest, paused, joined, client,
                 ui, continues, faults>>

\* completeRequest: the row, and the route that has this request as its only
\* delivery.
CompletedRows(p) == [status EXCEPT ![p] = "completed"]
CompletedRoutes(p) ==
  [q \in Paths |-> IF routeRequest[q] = p THEN "completed" ELSE route[q]]

\* Mutant: the chain runs one round more than it may.
OverLimitLate(n, max) == n > max + 1

\* The round that may not start.
OverLimit(n, max) == n > max

\* The chain pauses before round n.  paused_chains has the chain's id as its
\* primary key: when another branch of the chain is paused already, the
\* transaction throws and nothing is written.  The target drops its result at
\* the acknowledgement all the same.
PauseAfter(p, T, unknown, task) ==
  /\ IF paused = NoPause
     THEN /\ status' = CompletedRows(p)
          /\ route' = [CompletedRoutes(p) EXCEPT ![p] = "paused"]
          /\ paused' = [at |-> p, targets |-> T, unknown |-> unknown, hasTask |-> task,
                        limit |-> limit[p], client |-> client[Target(p)]]
          /\ Tell([type |-> "paused", at |-> p])
     ELSE UNCHANGED <<status, route, paused, news>>
  /\ held' = held \ {p}
  /\ UNCHANGED <<round, limit, hasTask, routeRequest>>

\* Mutant: only the task is judged.
RefusedTask(p, a, task) == ~task

\* An answer addresses no Agent without a task, and not the Agent that gave it.
Refused(p, a, task) == ~task \/ a = Target(p)

\* The requests of the next round
RouteAfter(p, T, unknown, task) ==
  LET S == Children(p, T)
  IN  /\ T = {} \/ (Len(p) < Depth /\ Room(T))
      /\ \E out \in [T -> Status] :
           /\ \A a \in T : out[a] \in Outcomes(Refused(p, a, task), a)
           /\ Insert(CompletedRows(p), S, out, round[p] + 1, limit[p], task)
           /\ SetRoute(CompletedRoutes(p), p, S, unknown, out)
           /\ held' = (held \ {p}) \cup Delivered(S, out)
      /\ UNCHANGED <<paused, news>>

\* agent.result of request p, ok: the answer is public.  It begins by naming
\* the Agents T, and perhaps a name that nobody bears, with or without a task.
ResultOk(p, T, unknown, task) ==
  /\ p \in held /\ status[p] = "open"
  /\ IF T # {} /\ OverLimit(round[p] + 1, limit[p])
     THEN PauseAfter(p, T, unknown, task)
     ELSE RouteAfter(p, T, unknown, task)
  /\ UNCHANGED <<asked, joined, client, connected, panel, decisions, continues, faults>>

------------------------------------------------------------------------------
(* The broker: decisions about the paused chain *)

Decision(kind) ==
  /\ connected /\ decisions # <<>> /\ Head(decisions) = kind
  /\ decisions' = Tail(decisions)

\* The session that asked, in the group where it asked.
MayDecide == paused # NoPause /\ joined[Initiator]

\* chain.end
HandleEnd ==
  /\ Decision("end")
  /\ IF MayDecide
     THEN /\ route' = [route EXCEPT ![paused.at] = "ended"]
          /\ paused' = NoPause
          /\ Tell([type |-> "resolved", at |-> paused.at])
     ELSE UNCHANGED <<route, paused, news>>
  /\ UNCHANGED <<rows, routeRequest, joined, client, held, connected, panel,
                 continues, faults>>

\* Mutant: the requests of a continued chain are created beside the pause.
PauseKept == paused

\* resumePausedChain deletes the row in the transaction that adds the requests.
PauseAfterContinue == NoPause

\* chain.continue: the targets are judged anew, but for the empty task.
HandleContinue ==
  /\ Decision("continue")
  /\ IF MayDecide
     THEN LET p == paused.at
              S == Children(p, paused.targets)
              self(a) == a = Target(p) /\ client[a] = paused.client
          IN  /\ continues < MaxContinues /\ continues' = continues + 1
              /\ Len(p) < Depth /\ Room(paused.targets)
              /\ \E out \in [paused.targets -> Status] :
                   /\ \A a \in paused.targets : out[a] \in Outcomes(self(a), a)
                   /\ Insert(status, S, out, round[p] + 1, paused.limit + RoundLimit,
                             paused.hasTask)
                   /\ SetRoute(route, p, S, paused.unknown, out)
                   /\ held' = held \cup Delivered(S, out)
              /\ paused' = PauseAfterContinue
              /\ Tell([type |-> "resolved", at |-> p])
     ELSE UNCHANGED <<status, round, limit, hasTask, routes, held, paused, news, continues>>
  /\ UNCHANGED <<asked, joined, client, connected, panel, faults>>

------------------------------------------------------------------------------
(* Sessions *)

\* The user decides about the chain that the panel shows.
Decide(kind) ==
  /\ connected /\ panel # NoPath
  /\ Len(decisions) < MaxFlight
  /\ decisions' = Append(decisions, kind)
  /\ UNCHANGED <<rows, routes, paused, joined, client, held, connected, panel, news,
                 continues, faults>>

\* chain.paused and chain.resolved
ReceiveNews ==
  /\ connected /\ news # <<>>
  /\ panel' = IF Head(news).type = "paused" THEN Head(news).at ELSE NoPath
  /\ news' = Tail(news)
  /\ UNCHANGED <<rows, routes, paused, joined, client, held, connected, decisions,
                 continues, faults>>

\* The initiator's connection breaks.
Disconnect ==
  /\ Fault /\ connected /\ joined[Initiator]
  /\ connected' = FALSE /\ decisions' = <<>> /\ news' = <<>>
  /\ UNCHANGED <<rows, routes, paused, joined, client, held, panel, continues>>

\* The snapshot of a resumed connection replaces what the panel shows.
Resume ==
  /\ ~connected /\ joined[Initiator]
  /\ connected' = TRUE /\ panel' = paused.at
  /\ UNCHANGED <<rows, routes, paused, joined, client, held, decisions, news,
                 continues, faults>>

\* A session leaves the group, says goodbye or stays away too long.  Its open
\* requests fail.  The initiator leaves after what it sent before, and the
\* snapshot that answers it empties the panel.
Leave(a) ==
  /\ Fault /\ joined[a]
  /\ joined' = [joined EXCEPT ![a] = FALSE]
  /\ FailRequests({p \in Paths : Target(p) = a /\ status[p] \in Active})
  /\ IF a = Initiator
     THEN decisions = <<>> /\ panel' = NoPath /\ news' = <<>> /\ UNCHANGED <<connected, decisions>>
     ELSE UNCHANGED ui
  /\ UNCHANGED <<asked, round, limit, hasTask, routeRequest, paused, client, continues>>

\* It joins again, as a new client.
Join(a) ==
  /\ ~joined[a]
  /\ joined' = [joined EXCEPT ![a] = TRUE]
  /\ client' = [client EXCEPT ![a] = @ + 1]
  /\ IF a = Initiator
     THEN connected' = TRUE /\ panel' = paused.at /\ news' = <<>> /\ decisions' = <<>>
     ELSE UNCHANGED ui
  /\ UNCHANGED <<rows, routes, paused, held, continues, faults>>

\* The broker stops and starts again: active requests are interrupted, the
\* paused chain stays.
Restart ==
  /\ Fault
  /\ FailRequests({p \in Paths : status[p] \in Active})
  /\ joined' = [a \in Agents |-> FALSE]
  /\ connected' = FALSE /\ decisions' = <<>> /\ news' = <<>>
  /\ UNCHANGED <<asked, round, limit, hasTask, routeRequest, paused, client, panel, continues>>

------------------------------------------------------------------------------
Next ==
  \/ ChatSend
  \/ \E p \in Paths :
       \/ Approve(p)
       \/ Reject(p)
       \/ ResultFailed(p)
       \/ \E T \in SUBSET Agents, unknown \in BOOLEAN, task \in BOOLEAN :
            ResultOk(p, T, unknown, task)
  \/ HandleEnd
  \/ HandleContinue
  \/ \E kind \in {"continue", "end"} : Decide(kind)
  \/ ReceiveNews
  \/ Disconnect
  \/ Resume
  \/ \E a \in Agents : Leave(a) \/ Join(a)
  \/ Restart

Spec == Init /\ [][Next]_vars

------------------------------------------------------------------------------
(* Properties *)

\* Types of the rows, of the paused chain and of the sessions' state.
TypeOK ==
  /\ asked \in BOOLEAN
  /\ status \in [Paths -> Status]
  /\ round \in [Paths -> Nat] /\ limit \in [Paths -> Nat]
  /\ hasTask \in [Paths -> BOOLEAN]
  /\ route \in [Paths -> RouteStatus]
  /\ routeRequest \in [Paths -> Paths \cup {NoPath}]
  /\ paused \in Pauses
  /\ joined \in [Agents -> BOOLEAN] /\ client \in [Agents -> Nat]
  /\ held \subseteq Paths
  /\ connected \in BOOLEAN /\ panel \in Paths \cup {NoPath}
  /\ decisions \in Seq({"continue", "end"})
  /\ news \in Seq([type : {"paused", "resolved"}, at : Paths])
  /\ continues \in Nat /\ faults \in Nat

\* Agents left to themselves stop: however often they name one another, no
\* request is ever active in a round beyond the initial ones and those that
\* the initiator granted.
WithinGrant ==
  \A p \in Paths : status[p] \in Active => round[p] <= RoundLimit * (1 + continues)

\* The pause and the message that shows it are kept in two tables: a paused
\* chain belongs to exactly the answer that shows it, whatever is continued,
\* ended, failed or interrupted meanwhile.
PauseIsShown ==
  \A p \in Paths : route[p] = "paused" <=> paused # NoPause /\ paused.at = p

\* While a chain is paused, nothing behind the pause has been created.
NothingBehindPause ==
  paused # NoPause => \A a \in Agents :
    Append(paused.at, a) \in Paths => status[Append(paused.at, a)] = "none"

\* An answer with one delivery shows it as going on exactly while that request
\* is active, also after a restart.
RouteSettles ==
  \A p \in Paths : routeRequest[p] # NoPath =>
    (route[p] = "open" <=> status[routeRequest[p]] \in Active)

\* The initiator, connected and with nothing on its way, sees the paused chain
\* and no other: it can decide, and decides about what it sees.
PanelShowsPause == connected /\ joined[Initiator] /\ news = <<>> => panel = paused.at

\* An open request is being worked on by its target, or its result is under
\* way: nothing waits for an answer that was thrown away.
OpenIsHeld == \A p \in Paths : status[p] = "open" => p \in held

\* Until the limit is reached, no Agent is asked to follow its own answer or to
\* work on nothing.
TargetsAreJudged ==
  \A p \in Paths : status[p] \in Active /\ round[p] <= RoundLimit =>
    hasTask[p] /\ (Len(p) > 1 => Target(p) # Target(Parent(p)))

------------------------------------------------------------------------------
(* Refinement *)

\* What can address Agents: the user's message, and the answer to a request.
Askers == {Parent(p) : p \in Paths}

Phase(st) == CASE st = "none"      -> "unasked"
               [] st = "completed" -> "answered"
               [] st = "failed"    -> "refused"
               [] OTHER            -> st

Promise ==
  INSTANCE RequestPromise WITH
    Messages <- Askers,
    phase <- [r \in Askers \X Agents |-> Phase(status[Append(r[1], r[2])])],
    published <- [r \in Askers \X Agents |->
                    IF status[Append(r[1], r[2])] = "completed" THEN 1 ELSE 0]

\* However a chain branches, pauses, is continued, ended and interrupted, each
\* answer asks once, each Agent it names is judged on its own, and a request
\* ends once, answered or refused.
PromiseSpec == Promise!Spec

=============================================================================
