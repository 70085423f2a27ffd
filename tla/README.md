# Verification of pi-comms

pi-comms lets several Pi sessions on one LAN, each a person and an Agent, join
a group and talk in one public conversation. A message that names Agents
becomes work for them; their answers are public and may name further Agents. A
broker process owns the SQLite database and the TCP endpoint; an extension in
every Pi session connects to it and starts one if there is none.

This directory holds TLA+ specifications of that program, TLC configurations
that check them on small instances, and proofs checked by TLAPS. Paths of the
code are below `src/src/`; "SPEC" is `SPECIFICATION.md` of the repository.

Contents: the system, what is hard in it, the modules, the runs, fairness,
disagreements found, proofs, what is not modelled, the plan.

## The system

| component | state | operations | interacts with | correct means |
|---|---|---|---|---|
| Request lifecycle, `broker/server.ts`, `broker/database.ts` | `agent_requests` and `messages` rows; `pendingRequests`, `completedRequests`, `clients`, `disconnectedSessions` | fan-out of a message, approve/reject, delivery acknowledgement, result, leave, goodbye, grace timer, member removal, resume, stop, start | extensions over TCP, database in the same event loop | one answer per request, memory and rows agree, ended stays ended, nothing unauthorised is delivered |
| Remote work of a session, `extension/index.ts`, `extension/remote-queue.ts` | `RemoteQueue`, `pendingApprovals`, known broker instance | receive a delivery, start the Agent, report and retry results, decide, leave, shut down | broker; the Pi Agent through callbacks | each request runs once, acknowledged work is not lost |
| Agent chains, `server.ts` (`handleAgentResult`, `handleChainDecision`) | rounds and limits in request contexts, `paused_chains` rows | route an answer to the Agents it names, pause at the limit, continue, end | request lifecycle | rounds stay within the grant, three tables agree on the pause |
| Proactive scheduler, `broker/proactive-scheduler.ts` | four queues, running flag, burst counter | run, cancel, abortAll, drain | model calls | priorities, no starvation, every call settles once |
| Proactive batches, `broker/proactive-coordinator.ts` | batches and timers per group, router queue | trigger, fire, drain, route, clear | scheduler, summaries, key configuration | each message is covered by a call in time, groups take turns |
| Proactive answers, the rest of `proactive-coordinator.ts`, `extension/index.ts` | pending invitations, result queue, cursors, cooldowns | deliver, acknowledge, decline, expire, result, publish | model calls, database, extensions | answers are judged with the earlier ones in view, cancelled ones stay silent |
| Group context summary, `broker/group-context-summary.ts` | `group_summaries` row, update under way | prepare, summarise, store | model calls | no gaps, incompleteness is marked |
| Groups and memberships, `broker/group-state.ts`, `database.ts`, `server.ts` | `groups`, `group_memberships`, tombstones, live members, credentials saved by the extensions | create, join, leave, return, remove, allow, delete, take over | session registry, request lifecycle | rows, memory and credentials agree, blocks hold, one owner |
| Session registry, `server.ts` | registered sessions, heartbeat, idle timer, invite attempts | hello, resume, takeover by the Web, goodbye, idle shutdown | every client | a session is one connection, its grace time ends once |
| Broker connection of a client, `extension/broker-client.ts`, `extension/broker-process.ts` | socket, resume credentials, reconnect timer | start, connect, reconnect, heartbeat, switch, stop | broker start | a client that should be connected becomes connected |
| Broker process, `broker/launcher.ts`, `process-lock.ts`, `runtime-metadata.ts`, `start()` and `close()` of `server.ts` | lock file, metadata file, port, database | lock, listen, publish, fail, close, release | other launchers, every client | one broker per data directory |
| Wire protocol `protocol.ts`; `tui/`; `discovery/`; MCP; settings and identity files; autostart of the operating system | small or none | shape checks, rendering, mDNS, file I/O | all | not modelled, see the end |

`PROJECT.json` lists every component with its status under `components`, and
under `hazards` what is hard to test, each at its line.

What is hard here: two event loops per request (broker, extension) that
interleave through sockets; retries on both sides (deliveries are sent again at
every resume, results every second until acknowledged) with deduplication on
both sides; three lifetimes that differ (connection, session with its grace
time, broker instance); state kept two or three times (memory, SQLite, files of
the extension); rows that a restart must end; model calls that answer late
while the world changes; several launchers that race for one lock file.

## Modules

| module | models | composed from | proofs |
|---|---|---|---|
| `RemoteQueue` | the class of `extension/remote-queue.ts` | | |
| `RequestPromise` | abstract: what the broker promises about a request | | |
| `SessionPromise` | abstract: what a session may rely on with its broker | | |
| `AgentRequests` | broker, extensions and connections of requests | `RemoteQueue`; implements `RequestPromise`, `SessionPromise` | `AgentRequests_proofs` |
| `AgentChains` | answers that name further Agents | implements `RequestPromise` | `AgentChains_proofs` |
| `ProactiveScheduler` | order of the model calls | | in `ModelCalls_proofs` |
| `GroupContextSummary` | rolling summary of a group | | in `ModelCalls_proofs` |
| `ModelCalls` | everything that calls the model, and the key it is called with | `ProactiveScheduler`, `GroupContextSummary` | `ModelCalls_proofs` |
| `ProactiveBatches` | from a message to the router's call | | `ProactiveBatches_proofs` |
| `ProactiveAnswers` | from the router's choice to the published answer | | `ProactiveAnswers_proofs` |
| `GroupMembership` | who belongs to a group | | `GroupMembership_proofs` |
| `SessionConnections` | connections between the sessions of one user and the brokers | implements `SessionPromise` | `SessionConnections_proofs` |
| `BrokerStart` | who runs the broker | | `BrokerStart_proofs` |

`MC*` modules give constants that a `.cfg` cannot. Operators that begin a
comment with "Mutant" are plausible bugs: each replaces one definition in turn
and some property must then fail; no specification uses them.

Every handler of the broker and of an extension runs to its end without
awaiting unless said otherwise, so it is one action, with everything it calls.

### RemoteQueue, RequestPromise, AgentRequests

`RemoteQueue` is the class as a record and one operator per method; a request
is its id. The pending results, a JavaScript `Map`, are a sequence because
`flushPendingResults` sends them in insertion order.

`RequestPromise`: each target of a message has a request of its own, which
waits, opens, is answered once or refused, and is final. `AgentRequests`
implements it with the mapping `Phase` from the status of a row, `AgentChains` with
a request being the message that asks (the user's, or the answer to another
request) and its target: there an answer may ask in the same step (`Reply`).

`SessionPromise`: a session has at most one connection that counts; a handshake
gives it its client id or keeps it and ends the connection it replaces; only the
holder's goodbye, the timer while nobody holds it and the end of the broker take
the id away, and what becomes of any other connection changes nothing.
`SessionConnections` implements it with every message of the handshakes;
`AgentRequests`, which takes a handshake in one step and knows one connection of a
session at a time, implements it too. So what the requests suppose of sessions is
within what the connections were shown to keep.

| state of `AgentRequests` | code |
|---|---|
| `reqStatus`, `msgStatus`, `answers` | `agent_requests.status`, `messages.status`, count of answer messages with the request's id |
| `pending`, `completedBy` | `pendingRequests`, `completedRequests` |
| `session`, `lastClient` | `clients` and `disconnectedSessions` by session; the `clientId` handed out last |
| `joined` | membership of the session in the group |
| `link` | the connection: `none`, `live`, or `half` (the client's end is gone, the broker has not read the close) |
| `clientId`, `knownInstance` | `BrokerClient`'s resume credentials, the `brokerInstanceId` of the last snapshot |
| `remote`, `approvals` | the `RemoteQueue`, `pendingApprovals` |
| `runs` | history: how often `tryStartNext` handed the request to Pi |
| `toBroker`, `toClient` | written to the connection and not read |

A request id stands for the pair (message, target), which is what the code's
UUIDs identify. `Connect` is the handshake and what both ends do with it
(`registerClient`, the resends, the snapshot), because no other message of that
session can come between. Permissions are any of auto, approval and blocked for
every target; a run succeeds or fails; Pi is idle or busy at each delivery.

### AgentChains

One chain of one group. A request is the path of Agents from the first one
named; an answer is known by the request it answers. `status`, `round`, `limit`
and `hasTask` are the columns of `agent_requests`, `route` and `routeRequest`
those of `messages`, `paused` is the row of `paused_chains`; `panel`,
`decisions` and `news` are the initiator's extension and its connection.
`ResultOk` is `handleAgentResult` with `completeAndRoute`: it completes the row,
settles the route before it, publishes, and creates the next rows, the pause
or nothing; `HandleContinue` and `HandleEnd` are `handleChainDecision`. How a
delivery reaches its target is left to `AgentRequests`: `held` is the set of
deliveries whose result was not acknowledged.

### ProactiveScheduler

`queues`, `running`, `burst` are the private fields; `aborted` the state of the
controller of the running call; `state` what the caller's promise shows.
`schedule()` and the end of a call both drain without an await in between, so
the drain is part of both actions (`StartNext`).

### GroupContextSummary

A text is the set of messages it was made from, so that gaps and double
counting are visible. `stored` is the row, `inFlight` the one update that runs,
`waiting` the callers that await it, each with its own required message.
`Snapshot` is what a caller gets, marked incomplete or not. `Post` gives numbers
to messages that are public and to notices that are not.

### ModelCalls

The two modules above with their callers. `SystemNext` uses the actions of both
(`Schedule`, `Finish`, `AbortAll`; `Prepare`, `SummarizeOk`, `SummarizeFails`),
so that the update of a summary is a call in the queues and ends with it.

| state of `ModelCalls` | code |
|---|---|
| `config` | the stored key, `verificationStatus` and `configVersion` of `proactive-config.ts` |
| `ask` | of each validation under way, what it was asked with: key, whether a good key is saved, the version seen by the check at the start |
| `user` | where the router and the freshness check are (`context`: await the summary; `ready`: it settled and they are about to continue; `called`: in the scheduler; `refused`: the key was refused and they are about to say so) and the credentials they read before |
| `decisions`, `effective`, `basis` | history: the requests of users, the one the stored configuration comes from, the key the last verdict in it was about |

Each caller has one place in the scheduler, as in the code: one drain routes, one
loop judges results, one update of a summary runs. The continuation of a settled
promise (`Microtask`) comes before the broker reads anything else (`Quiet`); but
`Blame` finds the next call already started, as `onInvalidKey` does. `Update`,
`Validate`, `ValidateStored` and `Delete` are the handlers of `broker.config.*`,
`Delete(Rebuilt)` the one after which versions start again at 0. `Reboot` finds
the file as it was or broken and validates an unverified key. Which answers
count is the subject: a validation by a user compares keys, the one at the start
and the callers compare versions.

### ProactiveBatches

`batches`, `queue`, `queued` are `#batches`, `#routerQueue`, `#queuedGroups`;
`drain` says what the one `#drain` awaits: the interval of a group, a context, the
queue of calls, the call, the pause between tries. Time is relative and discrete;
`Tick` is disabled while a timer is due. Timers of batches that left the map are
`loose` and fire later, as in the code. `said` and `owed` say what a call
has to cover.

A key is lost in three ways. `DeleteKey` aborts all calls and clears the batches.
`KeyRefused` (`onInvalidKey`, after a call of the router or of the freshness check)
aborts all calls. `ValidationRefused` (`validateConfigKey`) marks the key and aborts nothing: a router call that waits in the
scheduler goes on with it, with all its tries. Its answer is dropped, because the
version has changed, but the call is made. The scheduler runs one call at a time, so
the mark comes before the router's call or just as it begins, never between its
tries. The validation at the start of the broker, which aborts nothing either, is
about a key that is not ready and routes nothing. A rebuild of the configuration,
after which versions start again, is in `ModelCalls`.

### ProactiveAnswers

One group; "other" stands for any other. An offer is the n-th invitation of an
Agent. `job` is the result at the head of `#resultQueue` with its phase: each
await (summary, queue of calls, freshness call) is a state, and everything else
interleaves. `member` is what the broker believes of each client, `ext` what the
extension does: the group it is in, the offer it works on, its switch and the
number it has read. `cancelled` is a history of declined, expired and
cancelled offers. `Window` is the number of public messages that `#isDuplicate` reads
(20 in the code, `Recent`): an answer that was said earlier may be said again.
`DeleteKey` clears the invitations; `KeyInvalid` only changes the configuration.

### GroupMembership

One group, three stores: the database (`group`, `row`, `tomb`), the broker's
memory (`live`, `conn`, `epoch`) and the extensions (`saved`, `want`, `here`,
`token`, `inst`). A credential is a number issued once, a session's user and
Agent names are one name. Every connection is a channel in each direction;
breaking it loses what is on its way. `Create` is
`handleGroupCreate`, `Enroll` and `Return` are `handleGroupJoin` without and with
a credential; `Leave`, `Goodbye`, `SetNearby`, `Remove`, `Allow`, `Delete`,
`Recover` (`group.owner.recover`) the other handlers; `Hear*` the cases of
the extension's message handler; `Connect` the handshake with resume. `astray`
is a history of the sessions for which the code itself separates the stores: they
left before the broker decided, their credential was lost on its way, or the owner's
`allow` deleted a row in use or `remove` hit the live member with a row's name. A
welcome ends it only when its credential still opens the row and nothing behind it
takes it back (`Lasting`).

### SessionConnections

One user of two brokers: a Pi with its session, or two pages of a browser that
share one (`kind`). A connection has two ends that close one after the other, and
may be cut so that neither hears of it.

| state of `SessionConnections` | code |
|---|---|
| `conn[s].mine`, `its`, `cut` | each end is open, has ended (sends no more, still reads), is destroyed (its `close` handler has not run) or closed; whether the path is cut |
| `conn[s].step`, `probed`, `id` | how far the client got; the broker's `acceptedProbe` and `clientId` of the connection |
| `conn[s].up`, `down` | under way; `fin` is the end of the stream, behind what was sent before |
| `proc[p].sock`, `task`, `connected`, `retry`, `stopping`, `permanent` | `#socket`, the attempt of `#connectTask`, `#connected`, the reconnect timer, `#stopping`, a permanent error of `BrokerClient`; of a page their counterparts in `web/public/app.js` |
| `proc[p].cred`, `known`, `target`, `expects` | `clientId` and `resumeToken` with the instance that gave them, the instance of the last snapshot, the configured connection and its expected broker |
| `broker[b].inst`, `identity` | `brokerInstanceId`; the `brokerId`, another one when the broker restarts with another database |
| `broker[b].id`, `sock`, `grace`, `clients` | the session's client and socket, the client its `disconnectTimer` waits for, the map `clients` |

Heartbeats need no clock: `ClientSilence` and `BrokerSilence` are what they do, to
end a connection over a path that is cut (`BrokerGivesUp`: TCP itself ends what
the broker has ended). `SlowHandshake` and `SlowHello` are the timeouts of a
handshake in which nothing is lost. `Hello` and `WebHello` are
`registerClient` with resume, refusal (`session_in_use`, `resume_rejected`) and
replacement by the same session; `Probe`, `WebJoin`, `RefreshNetworkAccess` the
Web's path; `Lost` is the unexpected disconnect, with its check that the entry is
still this connection's; `GraceEnds` the timer. `SetConnection` moves a Pi to
another broker while attempts of the old one are under way. What the session does
over the connection belongs to the other modules, which take a handshake as one step.

### BrokerStart

Launcher processes, the lock file, the metadata file and the port of one data
directory, and the Pis of one computer. Here awaits matter, and each await of
the launcher (`pc`) and of `connectOrStartBroker` (`task`) is a step: the lock
is created, written, inspected and unlinked in separate steps, `start()` and
`close()` go through their order of resources one by one. A client's reconnect
timer (`armed`) runs beside its task, as in the code. Processes are slots; a
file whose process ended names `Dead`. `stolen` is a history: a launcher unlinked
the lock of a living process. A Pi that hears of a closed connection does so in
the step that closes it, and a probe and its answer are one step.

## Runs

Each run asks one question.

| run | question | bounds and why they suffice |
|---|---|---|
| `requests_sessions` | One session through broken connections, crash, quit, restart: does a request run once, is acknowledged work held, do messages settle, do open requests end? | one Agent and two requests, so that one waits in the queue behind the other; `MaxFaults` 2: every special case of the code is about one fault (a break) or one after another (a second break before the first resume was read, a restart while a session is away); `MaxFlight` 2: a duplicate result beside its original |
| `requests_fanout` | A fan-out to two Agents under all six faults: do memory and rows agree, is `RequestPromise` implemented? | two Agents, because targets share only the message; same bounds |
| `requests_rerun` | violation, see below | one Agent, breaks and removals |
| `chains_branches` | Do branching chains stay within the grant, do rows, messages and `paused_chains` agree, does the initiator see the pause? | `RoundLimit` 2 (10 in the code, compared and added only), paths of 3, so that a chain pauses, is continued and pauses again; 4 requests allow two branches at each level; two decisions under way |
| `chains_lost` | violation, see below | `RoundLimit` 1, two branches |
| `model_calls` | Does the stored key follow the last decision and each verdict its own key, are contexts without gaps, is everybody answered? | two keys and two requests at once, so that a key is exchanged and exchanged back while a call with the first runs; router, freshness check and the summary they share, so that one joins the update of the other and both are aborted in each phase; `Burst` 1, `Window` 1 and `MaxSeq` 3: two updates, a freshness call on each side of the burst; with a second decision of a user one message less; one fault beside a restart's broken file |
| `answers` | Late, duplicate, cancelled answers | two Agents, one offer each, two texts (equal or not), `Window` 2, so that an answer is repeated within it and beyond it; two messages of people or other Agents, or one and a fault of any kind at any moment |
| `batches` | Timeliness, turns, coverage, keys | `Debounce` < `MaxWait` < `Interval` in the order of the code (1, 2, 3 for 0.8, 2 and 5 seconds); two groups, four messages: a batch that is extended while it waits for each of the five awaits; two faults (a refused validation and then a deletion, a key exchanged and refused), each in place of a message |
| `connections` | Do the broker's books agree, is `SessionPromise` implemented, do credentials stay where they belong, does a client that wants a connection get one? | one Pi or two pages (the code treats more pages alike: one holds the session, the others ask for it); two brokers, for moves between them; two connections at once: the old and the new one of a session; `MaxFaults` 2: the second fault hits what the first left half done; one decision of the user beside the first start, in place of one fault; `MaxIds` 8 is never reached, ids that nobody holds are used again |
| `membership` | Do database, memory and extensions agree? | two local sessions that want the same names and a remote one; four credentials (the group's founder, two who join and a key), two commands of an owner, a fault takes the place of one |
| `broker_start` | One broker, clients served by it, metadata right, somebody served | two launcher slots (a process and its successor or rival), one crash or failed start, a local development build and a host of a release: all three answers of `brokerCompatibilityAction` occur; a behaviour is followed to the first theft of a lock, after which `OneBrokerUnlessStolen`, `MetadataNamesServer` and `SomeoneServed` hold by their disjunct `stolen`, and what `ServedByOwner` still says is the theorem's |
| `broker_race` | violation, see below | as `broker_start` |

Not checked where the code itself does not keep it, each named as a hazard with
a note: `RunsOnce` with a removal, `OpenRequestsEnd` with leave and removal,
`MessageSettles` for messages with two targets.

Deadlock checking is off where the system may rest once its bounds are spent;
`broker_start` and `broker_race` check it. `TypeOK` (`SummaryTypeOK`,
`ModelTypeOK`) describes the state of a module; TLAPS proves it where there is a
proof module. `ProactiveScheduler` alone and `PauseIsShown` need no run of
their own: their properties are theorems, and `model_calls` and
`chains_branches` run the actions. So are `ConnectedIsRegistered`, the client's
side of what `SessionSpec` promises, `SessionSpec` of `AgentRequests`, and
`PromiseSpec` of `AgentChains`, whose comparison with `RequestPromise` takes TLC
too long at the bounds of `chains_branches` (paths of 2 take minutes and hold).

## Fairness

- `AgentRequests`: both event loops handle what arrived, a closed socket is
  noticed, the grace timer fires, a stopped broker is started again (every
  extension that cannot connect starts one), an Agent that was set to work
  settles. No user, no returning session and no retry timer is obliged to act.
- `ModelCalls`: continuations run, and a request to the model ends: it has a
  timeout and at most three tries. No user, router or restart is obliged to act.
  (`ProactiveScheduler` and `GroupContextSummary` state the same for themselves.)
- `SessionConnections`: both ends read what arrives, notice a close and, after
  their heartbeats, a silence; reconnect and grace timers fire. No user must
  start, stop or move anything, no page must go on or off line. Faults are
  bounded, so `Reconnects` speaks of the time after the last one; a client that
  met a permanent error or was stopped is exempt, as in the code.
- `ProactiveBatches`: timers fire, time passes, contexts and calls end, each of
  them bounded by a timeout in the code.
- `BrokerStart`: a process runs on, handshakes are answered, timers fire. A
  client redials every second (every 50 ms in the loop of `connect()`) on a clock
  of its own: it is strongly fair, it does not miss a port that is open again
  and again. Nobody must open, leave or retry, no broker must idle or crash, and
  `SomeoneServed` supposes that users stop opening and leaving.
- `AgentChains`, `ProactiveAnswers`, `GroupMembership`: none; they have safety
  properties only.

## Disagreements found

1. `requests_rerun`: SPEC 501 says that a repeated request is acknowledged and
   not queued again. `group.member.remove` keeps the target's `pendingRequests`,
   the removed session clears its queue with the ids it has seen, and a resume
   delivers the request again: the Agent runs it twice.
2. `chains_lost`: SPEC 515 says the answer of the last round is still public.
   When two branches of a chain reach the limit, the second `paused_chains` row
   collides with the first (`chain_id` is the primary key), the result is
   acknowledged as not accepted, the extension drops it: the answer is lost and
   its request stays open.
3. `broker_race`: SPEC 114 says that one broker runs on a data directory. Two
   launchers that both judged the lock of a crashed broker stale unlink it one
   after the other, the second unlinks the lock of the first: two processes open
   the database. The theorems say that this is the only way
   (`OneOwner`) and that it takes a broker that was killed or failed to start
   (`OneBrokerWithoutFaults`).

The hazards name more places where the code departs from SPEC without a
property that could be stated of it: a session that comes back after its grace
time stays outside (SPEC 391), the cursor of Proactive is one number for all
groups (SPEC 775), a broker that is closing admits clients that reconnect and
waits for them (SPEC 413), a lock whose creator died before writing it blocks
every later launcher.

Seen while modelling and left to later work, because no property of a present
module touches them: a router call that waits, and each of its tries, is sent with a
key that a validation has found invalid meanwhile (SPEC 735: only `ready` calls the
router), the cooldown starts at publication and not at receipt
(SPEC 788), results pass during the pause after failures (SPEC 791), membership
is not compared with the group when an invitation is written (SPEC 757), the
interval of a group counts from before its context was ready (SPEC 753),
approvals outlive removals and restarts in panel and rows, removing or allowing
the same row twice hits whoever has its name now, a tombstone is consumed
when it is told and may be lost, a rename changes memory before the row, a pid
may be reused after a reboot, `stopBroker` stops whoever listens by then.

## Proofs

All theorems hold for any constants that satisfy the named assumptions of the
modules: any sets (finite ones of Agents and messages in `AgentRequests`, of groups
in `ProactiveBatches`), any limits and any number of faults. Every safety property
and action property that a passing run checks is a theorem; two hypotheses, named
below, restrict three of them to what the code keeps. Fairness and
the liveness properties are outside the prover's reach; so is what a recursive
definition computes by induction over data.

The same few arguments return. What is on its way counts as state: a channel is
seen as the set of its messages (`On`, `Under`) where only their presence matters, and
by position where the order does. Steps are sorted into a few kinds first
(`RowStep`, `ExtensionStep`, `SeatSteps`, ...), and invariants are proved for the kinds.

### `AgentRequests_proofs`

Every action changes rows in one of five ways (ask, acknowledge, approve, answer,
refuse), the operator `RowStep`; `NextRows` shows it. `PendingMatchesRows` is needed
there, because the code decides from memory whether a row may change.

| theorem | property | argument |
|---|---|---|
| `TypeCorrect` | `TypeOK` | one step per action |
| `MemoryMatchesDatabase` | `PendingMatchesRows` | inductive with `TypeOK`: an action changes an entry and its row together, a stop clears all entries, a start ends all active rows |
| `OneAnswer` | `AnsweredOnce` | only answering counts, and only from an active row |
| `SettledStays` | `SettledIsFinal` | none of the five ways touches an ended row |
| `KeepsPromise` | `PromiseSpec` | the five ways are the steps of `RequestPromise` or stutter |
| `KeepsSessions` | (`SessionSpec`) | connections, grace timers, goodbyes and restarts are the steps of `SessionPromise`, everything else stutters; with the types and `SessionOf`, by which who is connected has a session and a session has a broker |
| `OnlyAuthorisedWork` | `WorkIsAuthorised` | `WorkInv`: whatever is on a session's connection or in its `RemoteQueue` is about a request to its own Agent, and where work is concerned one that was let through; a request is queued once |
| `HandedWorkIsHeld` | `AcknowledgedIsHeld` | `HandsInv`, if `NobodyLeaves` |
| `RunsAtMostOnce` | `RunsOnce` | `HandsInv`, if `NobodyLeaves` |
| `LoneMessagesSettle` | (`SettlesInv`) | the message of a request that is its only one settles with it, through every fault |
| `MessagesSettle` | `MessageSettles` | `SettlesInv`, if there is one Agent or no restart |

`HandsInv` says for each request that is addressed to the client which its target
now is (`Present`): if the broker counts it as acknowledged, or the acknowledgement is on
its way, or it ever ran, then the extension has seen it; and what it has seen it
holds, because a result is only acknowledged for an entry that is gone. It
needs that client ids are never reused (`IdsInv`) and that a client whose
connection is not live has nothing left to read (`Silent`). `NobodyLeaves` is the
hypothesis that the faults contain neither `leave` nor `remove`: both empty the
`RemoteQueue` while the broker still counts on it, and `requests_rerun` shows what
happens then. The hypothesis of `MessagesSettle` is the gap at
`broker/database.ts:1082`: a restart ends all requests of a fan-out but finds only
the message of a lone one.

### `AgentChains_proofs`

The properties are not inductive alone. The invariant adds the shape of the data: a
request behind an answer exists only when that answer's request completed, the
paused answer's request completed and has none behind it, and a route names the
only request its answer led to; for the rounds, that an active row is within
its own limit and every limit, also that of the pause, within what was granted so
far; for the targets, that what pauses has used up the first limit; for the
panel (`PanelInv`), that the last news on its way shows the chain that is paused, and
that nothing is on its way without a connection. Theorems `TypeCorrect`, `WithinTheGrant`
(`WithinGrant`), `PauseShown` (`PauseIsShown`), `RoutesSettle` (`RouteSettles`),
`NothingBehindThePause` (`NothingBehindPause`), `JudgedTargets` (`TargetsAreJudged`),
`PanelRight` (`PanelShowsPause`).

`KeepsPromise` (`PromiseSpec`): every action is one of five kinds for the statuses
(`RowStep`: none, approve, end some, ask, answer and ask), each of them a step of
`RequestPromise`. That an asker has asked nothing before is the shape of the data: an
answer that is being published completes its request only now, a continued one has
nothing behind its pause, and the first message finds no rows.

### `ModelCalls_proofs`

Three parts, one for each of the modules that it composes and one for the composition;
the lemmas of the first two are per action and the third one uses them again.

The scheduler (`Schedule`, `Finish`, `AbortAll`): `Held` says that queues, promises and
the running call tell the same story, also halfway through an action (after a call
was added or settled and before the next one starts), and `Counted` bounds the
history by the burst counter. Theorems `TypeCorrect`, `NoStarvation`
(`SummaryWaitsForBurst`), `NoLostWakeup` (`NobodyWaitsIdle`), `QueuesRight`
(`QueuesHoldWaiting`), `SettleOnce` (`SettledOnce`).

The summary: a text in the row, in the update under way and in every caller's context
is a set of messages, and the argument is what each of them covers: the row, all
public messages up to its number (`Covers`); the update, everything from the end of
the summary it continues to the last message it reads (`UpdateRight`), also when the
prompt version changes; a context, everything up to the number it names, or it is
marked (`ContextRight`). Theorems `SummaryTypeCorrect`, `NoGaps`
(`SummaryIsContinuous`), `NothingLeftOut` (`CoveredOrMarked`).

The composition: `CallsInv` joins the two. A caller is in phase `called` exactly while
its place is queued or runs, the summary is queued or runs while an update is under
way or someone awaits its context, a validation under way has its question.
`VerdictIsOfKey` is not inductive alone, because versions start again at 0 after
`Rebuilt`: two keys may have had the same version. `Fresh` says that credentials read
with the present version are the present key, unless the call made or awaited with
them is aborted, or the key is not `verified` and the caller asks nothing; while an
aborted call runs the key is not `verified`, and it ends without a verdict.
`OrderInv` is for `NoOlderDecision`: the requests of users wait in one queue in the
order of their numbers, the one that runs is the oldest of them, and one that may
still have an effect is no older than what is stored, unless a deletion has doomed
it. Theorems `ModelTypeCorrect`, `VerdictRight` (`VerdictIsOfKey`), `DecisionsInOrder`
(`NoOlderDecision`), `NoGapsInSystem`, `NothingLeftOutInSystem` (the properties of the
summary, when its updates are queued behind other calls and aborted with them),
`SchedulerKept` (the scheduler's invariants hold with these callers).

### `ProactiveBatches_proofs`

`DueInTime` is inductive with the types, which also say that a batch's messages were
said. `RoundRobin` (a property of the history `passed`) needs `QueueInv`: the set
`#queuedGroups` and the queue are one, without repetition, and whoever had its turn
while a group waits does not wait in front of it. `CallCoversOwed` needs `OwedInv`:
between the choice of a group and its call, the call that is prepared and the
batch that grows meanwhile have what is owed between them, or the call is
stale. `DeletedKeyUnused` speaks of deletions and of refusals that abort calls; a refused
validation leaves the calls that wait, until the key is deleted. It needs `KeyInv`: a
call that is going to be sent has a key
from after the last deletion or is aborted. Theorems `TypeCorrect`, `BatchesDue`
(`DueInTime`), `GroupsTakeTurns` (`RoundRobin`), `CallsCover` (`CallCoversOwed`),
`KeysForgotten` (`DeletedKeyUnused`).

### `ProactiveAnswers_proofs`

The invariant has four parts. `BooksInv`: an offer that nobody was sent is nowhere, a
pending one is neither cancelled nor answered nor judged, and one that is judged
though it was cancelled belongs to another version of the key. `TimesInv`: the numbers
of messages that an invitation, a job and a published answer carry are in order.
`SpeechInv`: the answer that is judged has no twin among the last `Window` messages,
where proactive answers and what its invitation showed are concerned, and from the
moment its call read what was said only people speak until its own answer is there;
this is what one result at a time gives. Messages that come while it waits only move
a twin away. `HandInv`: an offer that was acknowledged, or whose
acknowledgement is on its way, is worked on, declined or answered somewhere, as long
as the broker holds it. Theorems `TypeCorrect`, `WithdrawnStaysSilent`
(`CancelledStaysSilent`), `AnswersSeeEarlier` (`LaterSeesEarlier`), `NoAnswerTwice`
(`NoTwins`), `AcknowledgedInHand` (`AckedIsInHand`).

### `GroupMembership_proofs`

`SeatsInv` is `SeatsAgree` and `OwnerKeepsSeat` with `NoGroup` (no rows and no members
without a group) over eight kinds of steps: a seat is created, taken, taken again, left,
removed, unblocked, dissolved, taken over; everything else only takes members out of
memory (`Fewer`). It needs `UpInv`: the owner's commands never name the sender, and
only a session on the broker's computer asks to take the group over. `BlocksHold`
follows: of the eight kinds only two touch a removed row.

`SavedOpens` speaks of three stores that agree only when nothing is on its way, so its
invariant speaks of the letters. `Pending`: an enrolment is on its way only while
nothing is saved, presented or told, at most one welcome is on its way, and what
a session wants to return to is what it saved. `Opens`, for a row in force: every
credential that is presented is the row's, and the last news on its way leaves
the row's credential saved. A session without a connection is told nothing, and before
the group exists there is nothing to tell (`Blank`). A refusal that makes the extension
forget then cannot meet a row in force, for it would have been presented the right
credential (`PresentedOpens`).

The first attempt at this proof failed for a reason: two owner's commands in a row
could take a row whose welcome was still on its way, and the welcome then ended
`astray` although the credential opened nothing. Channels of two messages (`MaxOnWay` 2)
hide this, three or four show it; the history was corrected, and the theorem holds for
channels of any length.

Theorems `TypeCorrect`, `SeatsAlwaysAgree` (`SeatsAgree`), `OwnerAlwaysSeated`
(`OwnerKeepsSeat`), `BlocksAlwaysHold` (`BlocksHold`), `SavedAlwaysOpens` (`SavedOpens`).

### `SessionConnections_proofs`

`SessionInv` has a part for each connection alone (`ConnRight`: what it may carry given
how far its ends are, and whose credentials), for what a client knows of its
connections (`ProcRight`, `PiRight`) and for what a broker knows (`Held`, `BrokerRight`: a
connection with a client id is the session's until it was replaced or said
goodbye). Most steps change one connection and say little: lemmas about a connection that
is as before with less under way (`Quieter`, `Kept`, `SameMine`) settle the rest of them.
Theorems `SessionsInv`, `TypeCorrect`, `SessionsHeld` (`SessionHeld`),
`EstablishedIsRegistered` (`ConnectedIsRegistered`), `CredentialsStayHome`
(`CredentialsGoHome`), `PiHasOneConnection` (`OneConnection`).

`KeepsSessions` (`SessionSpec`): with `SessionInv` every action is a step of
`SessionPromise` or a stutter. `SessionHeld` does the work: the client id and the
holder are the one entry of the broker's books, so a connection that closes is the
holder or of nobody, a timer finds nobody, and a takeover replaces exactly the holder.

### `BrokerStart_proofs`

The invariant is `TypeOK` with four parts. `LockInv`: a lock that names a living process
names one behind the lock, with its record once written, and unless a lock was stolen
whoever is behind the lock is named; `PortInv`: who listens is between `listen` and the
end of `close()`'s first half; `ClientInv`: a connection leads to a process that waits
for it to end before it closes the database; `MetaInv`: from publication to removal
the file names the broker. `LockInv` gives that two processes behind the lock are one,
which `MetaInv` needs for the writes and unlinks of others. Theorems `TypeCorrect`,
`OneOwner` (`OneBrokerUnlessStolen`), `ClientsOfOwner` (`ServedByOwner`),
`MetadataRight` (`MetadataNamesServer`).

`TheftInv` says how a lock gets stolen: only a process that died leaves a lock that
others judge stale, and only such a judgement removes a lock. So a theft needs a
fault (`TheftNeedsFault`), and without faults the lock file keeps SPEC 114 as it stands
(`OneBrokerWithoutFaults`: `OneBroker` when `MaxFaults` is 0, for any Pis that start, restart,
stop and shut down brokers at the same time).

### Model-checked only

The liveness properties `OpenRequestsEnd`, `EverybodyAnswered`, `TriggersEnd`,
`SomeoneServed` and `Reconnects`: fairness is not for this prover. `RunsOnce` and
`AcknowledgedIsHeld` with leaving and removal, and `MessageSettles` of a fan-out with
restarts, are false of the code.

## Not modelled

- Wire protocol: shape checks; messages are typed in the modules.
- `tui/`, `discovery/`, settings, connection and identity files, autostart and
  the migration of the Unix broker, the acceptance tool: rendering and
  input/output without protocol state. The MCP server translates two tools to
  queries.
- The limit of wrong invite codes and the catalogue of LAN groups: see the plan.
- Inside modelled parts: texts, prompts, names beyond equality, the HTTP client
  of the model (its outcomes and retries are there), the format and the backup of
  the key's file, renaming, availability, rotation of invite codes, the search
  for a moved group in the network.

## Plan

Done, in order of importance: requests, chains, scheduler, summaries, batches,
answers, memberships, start of the broker, connections and sessions, the
composition of everything that calls the model; proofs of the safety properties of
all of them; the promises to requests and to sessions, each kept by two modules.

Next modules:

1. Dissolution and removal across `GroupMembership` and `AgentRequests`: what
   remains in `pendingRequests`.
2. `InviteLimit` and the catalogue of LAN groups: small, with clock windows.

Next theorems: what still holds of runs when sessions leave or are removed, in place
of `NobodyLeaves`; that `ProactiveBatches` hands each call on to `ModelCalls` as its
router; that a chain, joined with `AgentRequests`, delivers what it asks.
