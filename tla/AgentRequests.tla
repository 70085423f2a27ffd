---------------------------- MODULE AgentRequests ----------------------------
(***************************************************************************)
(* The life of a request addressed to an Agent: the broker's SQLite rows   *)
(* and its in-memory maps (src/src/broker/server.ts and database.ts), the  *)
(* extension of the target session with its RemoteQueue                    *)
(* (src/src/extension/index.ts, remote-queue.ts), and the TCP connection   *)
(* between the two.  One group, one broker.  Every handler of the broker   *)
(* and of an extension runs to completion on its own event loop and is one *)
(* action; the two sides interleave through two FIFO channels per session  *)
(* whose content is lost when the connection breaks.                       *)
(*                                                                         *)
(* The answer of an Agent may address further Agents; that routing, with   *)
(* its round limit, is the module AgentChains.                             *)
(***************************************************************************)
EXTENDS Naturals, Sequences, FiniteSets

CONSTANTS Agents,      \* Pi sessions, each with one Agent
          Messages,    \* ids of public messages that address Agents
          NoRequest,   \* `undefined` where a request id may stand
          Faults,      \* which of FaultKinds may happen
          MaxFaults,   \* bound: how many of them in one behaviour
          MaxFlight    \* bound: a session's timer and its user send one more
                       \* message only while fewer than this are under way

FaultKinds == {"break",    \* the TCP connection of a session fails
               "crash",    \* a Pi process dies and is started again
               "quit",     \* session_shutdown, with client.goodbye
               "restart",  \* the broker stops or dies, and starts again
               "leave",    \* the user leaves the group
               "remove"}   \* the owner removes the member

\* The target of a request is one Agent and the request belongs to one
\* message, so the pair stands for the request id.
Requests == Messages \X Agents
MessageOf(r) == r[1]
TargetOf(r) == r[2]

ASSUME ConstantsAssumption ==
  /\ IsFiniteSet(Agents) /\ IsFiniteSet(Messages)
  /\ NoRequest \notin Requests
  /\ Faults \subseteq FaultKinds
  /\ MaxFaults \in Nat
  /\ MaxFlight \in Nat

INSTANCE RemoteQueue

VARIABLES
  \* The broker's database
  reqStatus,      \* agent_requests.status; "none": no row
  msgStatus,      \* messages.status of the message; "none": no row
  answers,        \* how many answers with this request id were published
  \* The broker's memory
  up,             \* the broker process runs
  instance,       \* its brokerInstanceId
  pending,        \* pendingRequests
  completedBy,    \* completedRequests: the clientId whose result closed it
  session,        \* clientId of the registered session; 0: not registered
  lastClient,     \* the latest clientId handed out to this session
  joined,         \* the session's client is a member of the group
  link,           \* the connection of a session, as both ends see it
  \* The extensions
  clientId,       \* BrokerClient's resume credentials; 0: none
  knownInstance,  \* brokerInstanceId of the last snapshot; 0: none yet
  remote,         \* the RemoteQueue
  approvals,      \* pendingApprovals
  runs,           \* how often the session's Agent was set to work on it
  \* The network
  toBroker, toClient,
  faults          \* how many faults have happened

dbVars     == <<reqStatus, msgStatus, answers>>
brokerVars == <<up, instance, pending, completedBy, session,
                lastClient, joined>>
clientVars == <<clientId, knownInstance, remote, approvals, runs>>
vars == <<dbVars, brokerVars, link, clientVars, toBroker, toClient, faults>>

------------------------------------------------------------------------------
(* Values *)

Active   == {"awaiting_approval", "pending", "delivered"}
Terminal == {"completed", "failed", "rejected", "blocked", "invalid", "interrupted"}
RequestStatus == {"none"} \cup Active \cup Terminal

Unsettled == {"processing", "queued", "waiting_approval"}
MessageStatus == {"none", "completed", "failed", "interrupted"} \cup Unsettled

\* An entry of pendingRequests: its state, the clientId it was addressed to
\* and deliveryAcknowledged.
NoEntry == [state |-> "none", client |-> 0, acked |-> FALSE]
Entry(state, c) == [state |-> state, client |-> c, acked |-> FALSE]
Entries == [state  : {"none", "awaiting_approval", "delivering"},
            client : Nat, acked : BOOLEAN]

\* "half": the client's end is gone and the broker has not seen it close.
Links == {"none", "live", "half"}

ToBroker == [type : {"deliver.ack", "approve", "reject"}, req : Requests]
              \cup [type : {"result"}, req : Requests, ok : BOOLEAN]
              \cup [type : {"leave", "goodbye"}]
ToClient == [type : {"deliver", "request.pending", "settled"}, req : Requests]
              \cup [type : {"result.ack"}, req : Requests, accepted : BOOLEAN]
              \cup [type : {"removed"}]

Asked(m, status) == {a \in Agents : status[<<m, a>>] # "none"}
EntriesOf(a, c) ==
  {r \in Requests : /\ TargetOf(r) = a
                    /\ pending[r].state # "none"
                    /\ pending[r].client = c}

\* The message shows the most advanced of its requests.
RefreshedStatus(m, status) ==
  LET of == {status[<<m, a>>] : a \in Agents}
  IN  CASE "delivered" \in of         -> "processing"
        [] "pending" \in of           -> "queued"
        [] "awaiting_approval" \in of -> "waiting_approval"
        [] "completed" \in of         -> "completed"
        [] OTHER                      -> "failed"

\* Writing the rows of the requests in S refreshes the rows of their messages.
SetStatus(S, new) ==
  LET status == [r \in Requests |-> IF r \in S THEN new[r] ELSE reqStatus[r]]
  IN  /\ reqStatus' = status
      /\ msgStatus' = [m \in Messages |->
                         IF \E r \in S : MessageOf(r) = m
                         THEN RefreshedStatus(m, status)
                         ELSE msgStatus[m]]

\* What is written to a socket whose other end is gone is lost.
Sent(chan, a, msg) == IF link[a] = "live" THEN Append(chan[a], msg) ELSE chan[a]
SendToClient(a, msg) ==
  toClient' = [toClient EXCEPT ![a] = Sent(toClient, a, msg)]
SendBothToClient(a, first, second) ==
  toClient' = [toClient EXCEPT ![a] = IF link[a] = "live" THEN @ \o <<first, second>> ELSE @]

\* The broker reads the next message of a session's current connection.
Arrives(a, type) ==
  /\ up /\ link[a] # "none" /\ session[a] # 0
  /\ toBroker[a] # <<>>
  /\ Head(toBroker[a]).type = type
Consume(a) == toBroker' = [toBroker EXCEPT ![a] = Tail(@)]

\* The extension reads the next message of its connection.
Reads(a, type) ==
  /\ link[a] = "live"
  /\ toClient[a] # <<>>
  /\ Head(toClient[a]).type = type
ConsumeAtClient(a) == toClient' = [toClient EXCEPT ![a] = Tail(@)]

Fault(kind) == /\ kind \in Faults
               /\ faults < MaxFaults
               /\ faults' = faults + 1

------------------------------------------------------------------------------
(* A formed group: the broker runs, every session is connected and joined. *)

Init ==
  /\ reqStatus = [r \in Requests |-> "none"]
  /\ msgStatus = [m \in Messages |-> "none"]
  /\ answers = [r \in Requests |-> 0]
  /\ up = TRUE /\ instance = 1
  /\ pending = [r \in Requests |-> NoEntry]
  /\ completedBy = [r \in Requests |-> 0]
  /\ session = [a \in Agents |-> 1]
  /\ lastClient = [a \in Agents |-> 1]
  /\ joined = [a \in Agents |-> TRUE]
  /\ link = [a \in Agents |-> "live"]
  /\ clientId = [a \in Agents |-> 1]
  /\ knownInstance = [a \in Agents |-> 1]
  /\ remote = [a \in Agents |-> EmptyQueue]
  /\ approvals = [a \in Agents |-> {}]
  /\ runs = [r \in Requests |-> 0]
  /\ toBroker = [a \in Agents |-> <<>>]
  /\ toClient = [a \in Agents |-> <<>>]
  /\ faults = 0

------------------------------------------------------------------------------
(* The broker: a message that addresses Agents *)

\* What becomes of a target: without a task text, for a name that no member
\* bears and for an Agent that is offline the request fails at once; otherwise
\* the Agent's permission decides, which its session may have set to anything.
Outcomes(a, hasTask) ==
  IF hasTask /\ joined[a] /\ link[a] # "none"
  THEN {"pending", "awaiting_approval", "blocked"}
  ELSE {"failed"}

\* The rows, the entries and what is sent for a message m whose targets T have
\* the outcomes out.
AddressTargets(m, T, out) ==
  LET opened(a) == a \in T /\ out[a] \in {"pending", "awaiting_approval"}
  IN  /\ reqStatus' = [r \in Requests |-> IF MessageOf(r) = m /\ TargetOf(r) \in T
                                          THEN out[TargetOf(r)] ELSE reqStatus[r]]
      /\ msgStatus' = [msgStatus EXCEPT ![m] =
                         IF \E a \in T : out[a] = "pending" THEN "processing"
                         ELSE IF \E a \in T : out[a] = "awaiting_approval"
                              THEN "waiting_approval" ELSE "failed"]
      /\ pending' = [r \in Requests |->
           IF MessageOf(r) = m /\ opened(TargetOf(r))
           THEN Entry(IF out[TargetOf(r)] = "pending"
                      THEN "delivering" ELSE "awaiting_approval",
                      session[TargetOf(r)])
           ELSE pending[r]]
      /\ toClient' = [a \in Agents |->
           IF opened(a)
           THEN Sent(toClient, a, [type |-> IF out[a] = "pending" THEN "deliver"
                                            ELSE "request.pending",
                                   req |-> <<m, a>>])
           ELSE toClient[a]]

\* A message id that is already stored is ignored, so each m is sent once.
ChatSend(m) ==
  /\ up
  /\ Asked(m, reqStatus) = {}
  /\ \E T \in (SUBSET Agents) \ {{}}, hasTask \in BOOLEAN :
       \E out \in [T -> RequestStatus] :
         /\ \A a \in T : out[a] \in Outcomes(a, hasTask)
         /\ AddressTargets(m, T, out)
  /\ UNCHANGED <<answers, up, instance, completedBy, session,
                 lastClient, joined, link, clientVars, toBroker, faults>>

------------------------------------------------------------------------------
(* The broker: what the target's session sends *)

\* agent.deliver.ack
HandleDeliverAck(a) ==
  /\ Arrives(a, "deliver.ack")
  /\ LET r == Head(toBroker[a]).req
     IN  IF pending[r].state # "none" /\ pending[r].client = session[a]
         THEN /\ SetStatus({r}, [x \in {r} |-> IF reqStatus[r] = "pending"
                                                THEN "delivered" ELSE reqStatus[r]])
              /\ pending' = [pending EXCEPT ![r].acked = TRUE]
         ELSE UNCHANGED <<reqStatus, msgStatus, pending>>
  /\ Consume(a)
  /\ UNCHANGED <<answers, up, instance, completedBy, session,
                 lastClient, joined, link, clientVars, toClient, faults>>

\* The decision concerns a request that still waits for this very client.
\* Everything else is answered with request_invalid or ignored.
Decidable(a, r) == /\ pending[r].state = "awaiting_approval"
                   /\ pending[r].client = session[a]
                   /\ reqStatus[r] = "awaiting_approval"

\* request.approve
HandleApprove(a) ==
  /\ Arrives(a, "approve")
  /\ LET r == Head(toBroker[a]).req
     IN  IF Decidable(a, r)
         THEN /\ SetStatus({r}, [x \in {r} |-> "pending"])
              /\ pending' = [pending EXCEPT ![r].state = "delivering"]
              /\ SendToClient(a, [type |-> "deliver", req |-> r])
         ELSE UNCHANGED <<reqStatus, msgStatus, pending, toClient>>
  /\ Consume(a)
  /\ UNCHANGED <<answers, up, instance, completedBy, session,
                 lastClient, joined, link, clientVars, faults>>

\* request.reject.  The failure is broadcast to the group's online members.
HandleReject(a) ==
  /\ Arrives(a, "reject")
  /\ LET r == Head(toBroker[a]).req
     IN  IF Decidable(a, r)
         THEN /\ SetStatus({r}, [x \in {r} |-> "rejected"])
              /\ pending' = [pending EXCEPT ![r] = NoEntry]
              /\ IF joined[a] THEN SendToClient(a, [type |-> "settled", req |-> r])
                 ELSE UNCHANGED toClient
         ELSE UNCHANGED <<reqStatus, msgStatus, pending, toClient>>
  /\ Consume(a)
  /\ UNCHANGED <<answers, up, instance, completedBy, session,
                 lastClient, joined, link, clientVars, faults>>

\* agent.result, without the routing of the answer's own mentions.  The group,
\* and with it the session itself, is told of a failure.
AlreadyClosed(a, r) == completedBy[r] = session[a] \/ reqStatus[r] = "completed"
OwnsResult(a, r) == /\ pending[r].state # "none"
                    /\ pending[r].client = session[a]
ClosableFrom(ok) == IF ok THEN {"pending", "delivered"} ELSE Active

\* Mutant: a failed run is published like an answer.
CloseAndPublish(a, r, ok) ==
  /\ SetStatus({r}, [x \in {r} |-> IF ok THEN "completed" ELSE "failed"])
  /\ answers' = [answers EXCEPT ![r] = @ + 1]
  /\ pending' = [pending EXCEPT ![r] = NoEntry]
  /\ completedBy' = [completedBy EXCEPT ![r] = session[a]]

CloseByResult(a, r, ok) ==
  /\ SetStatus({r}, [x \in {r} |-> IF ok THEN "completed" ELSE "failed"])
  /\ answers' = IF ok THEN [answers EXCEPT ![r] = @ + 1] ELSE answers
  /\ pending' = [pending EXCEPT ![r] = NoEntry]
  /\ completedBy' = [completedBy EXCEPT ![r] = session[a]]

HandleResult(a) ==
  /\ Arrives(a, "result")
  /\ LET r == Head(toBroker[a]).req
         ok == Head(toBroker[a]).ok
         closes == /\ ~AlreadyClosed(a, r)
                   /\ OwnsResult(a, r)
                   /\ reqStatus[r] \in ClosableFrom(ok)
     IN  /\ IF closes THEN CloseByResult(a, r, ok)
            ELSE UNCHANGED <<dbVars, pending, completedBy>>
         /\ LET ack == [type |-> "result.ack", req |-> r,
                        accepted |-> AlreadyClosed(a, r) \/ closes]
            IN  IF closes /\ ~ok /\ joined[a]
                THEN SendBothToClient(a, [type |-> "settled", req |-> r], ack)
                ELSE SendToClient(a, ack)
  /\ Consume(a)
  /\ UNCHANGED <<up, instance, session, lastClient, joined, link,
                 clientVars, faults>>

------------------------------------------------------------------------------
(* The broker: a target that goes away *)

\* Mutant: requests that wait for approval are forgotten without a trace.
FailDeliveringOnly(a) ==
  LET S == EntriesOf(a, session[a])
  IN  /\ pending' = [r \in Requests |-> IF r \in S THEN NoEntry ELSE pending[r]]
      /\ SetStatus({r \in S : reqStatus[r] \in {"pending", "delivered"}},
                   [r \in S |-> "failed"])

\* failRequestsForTarget
FailRequestsForTarget(a) ==
  LET S == EntriesOf(a, session[a])
  IN  /\ pending' = [r \in Requests |-> IF r \in S THEN NoEntry ELSE pending[r]]
      /\ SetStatus({r \in S : reqStatus[r] \in Active},
                   [r \in S |-> IF pending[r].state = "awaiting_approval"
                                THEN "invalid" ELSE "failed"])

\* leaveClientGroup does nothing for a client without a membership.
LeaveClientGroup(a) ==
  IF joined[a]
  THEN /\ joined' = [joined EXCEPT ![a] = FALSE]
       /\ FailRequestsForTarget(a)
  ELSE UNCHANGED <<joined, pending, reqStatus, msgStatus>>

\* group.leave
HandleLeave(a) ==
  /\ Arrives(a, "leave")
  /\ LeaveClientGroup(a)
  /\ Consume(a)
  /\ UNCHANGED <<answers, up, instance, completedBy, session,
                 lastClient, link, clientVars, toClient, faults>>

\* client.goodbye
HandleGoodbye(a) ==
  /\ Arrives(a, "goodbye")
  /\ LeaveClientGroup(a)
  /\ session' = [session EXCEPT ![a] = 0]
  /\ link' = [link EXCEPT ![a] = "none"]
  /\ toBroker' = [toBroker EXCEPT ![a] = <<>>]
  /\ toClient' = [toClient EXCEPT ![a] = <<>>]
  /\ UNCHANGED <<answers, up, instance, completedBy, lastClient,
                 clientVars, faults>>

\* The socket closes without a goodbye; the disconnect timer is armed.
HandleUnexpectedDisconnect(a) ==
  /\ up /\ link[a] = "half"
  /\ link' = [link EXCEPT ![a] = "none"]
  /\ toBroker' = [toBroker EXCEPT ![a] = <<>>]
  /\ UNCHANGED <<dbVars, brokerVars, clientVars, toClient, faults>>

\* The disconnect timer fires before the session came back.
GraceExpires(a) ==
  /\ up /\ link[a] = "none" /\ session[a] # 0
  /\ joined' = [joined EXCEPT ![a] = FALSE]
  /\ FailRequestsForTarget(a)
  /\ session' = [session EXCEPT ![a] = 0]
  /\ UNCHANGED <<answers, up, instance, completedBy, lastClient,
                 link, clientVars, toBroker, toClient, faults>>

\* group.member.remove, by the owner.
RemoveMember(a) ==
  /\ Fault("remove")
  /\ up /\ joined[a]
  /\ joined' = [joined EXCEPT ![a] = FALSE]
  /\ SendToClient(a, [type |-> "removed"])
  /\ UNCHANGED <<dbVars, up, instance, pending, completedBy, session,
                 lastClient, link, clientVars, toBroker>>

------------------------------------------------------------------------------
(* Connections *)

\* registerClient: an unknown session without credentials gets a new clientId
\* and a known one must present its own.  The connection that the session
\* still holds, if any, is destroyed with what it had to deliver.
RegisterClient(a) ==
  /\ up /\ link[a] # "live"
  /\ clientId[a] = session[a]
  /\ IF session[a] = 0
     THEN /\ session' = [session EXCEPT ![a] = lastClient[a] + 1]
          /\ lastClient' = [lastClient EXCEPT ![a] = @ + 1]
     ELSE UNCHANGED <<session, lastClient>>

\* resume_rejected, or a broker.ready of another instance: the BrokerClient
\* forgets its credentials and tries again.
DropCredentials(a) ==
  /\ up /\ link[a] # "live"
  /\ clientId[a] \notin {0, session[a]}
  /\ clientId' = [clientId EXCEPT ![a] = 0]
  /\ UNCHANGED <<dbVars, brokerVars, link, knownInstance, remote, approvals, runs,
                 toBroker, toClient, faults>>

\* The order in which a Map of requests was filled is any order.
Orders(S) == {s \in [1..Cardinality(S) -> S] : \A i, j \in DOMAIN s : s[i] = s[j] => i = j}

DeliverMessages(d) == [i \in 1..Len(d) |-> [type |-> "deliver", req |-> d[i]]]
ApprovalMessages(w) == [i \in 1..Len(w) |-> [type |-> "request.pending", req |-> w[i]]]

\* Mutant: everything that is pending is delivered again.
ResentAsDeliveries(a, c) == {DeliverMessages(d) : d \in Orders(EntriesOf(a, c))}

Unacknowledged(a, c) ==
  {r \in EntriesOf(a, c) : pending[r].state = "delivering" /\ ~pending[r].acked}
Waiting(a, c) == {r \in EntriesOf(a, c) : pending[r].state = "awaiting_approval"}

\* Mutant: deliveries are not repeated.
ResentApprovals(a, c) == {ApprovalMessages(w) : w \in Orders(Waiting(a, c))}

\* resendUnacknowledgedDeliveries, then resendPendingApprovals.
Resent(a, c) == {DeliverMessages(d) \o ApprovalMessages(w) :
                 d \in Orders(Unacknowledged(a, c)), w \in Orders(Waiting(a, c))}

ResultMessages(results) ==
  [i \in 1..Len(results) |-> [type |-> "result", req |-> results[i].req,
                              ok |-> results[i].ok]]

\* tryStartNext, when the Agent is idle or not: the RemoteQueue becomes q and
\* the Agent is set to work on the request that became active.
TryStartNext(a, q, idle) ==
  LET next == IF idle THEN StartNext(q) ELSE q
  IN  /\ remote' = [remote EXCEPT ![a] = next]
      /\ runs' = IF next.active # q.active
                 THEN [runs EXCEPT ![next.active] = @ + 1] ELSE runs

\* Connection, probe, hello, welcome and snapshot.  A snapshot of another
\* broker instance makes the extension drop all remote work; then it flushes
\* the results that were not acknowledged and looks for work.
Connect(a) ==
  /\ RegisterClient(a)
  /\ link' = [link EXCEPT ![a] = "live"]
  /\ clientId' = [clientId EXCEPT ![a] = session'[a]]
  /\ knownInstance' = [knownInstance EXCEPT ![a] = instance]
  /\ LET kept == IF knownInstance[a] \in {0, instance} THEN remote[a] ELSE EmptyQueue
     IN  /\ toBroker' = [toBroker EXCEPT ![a] = ResultMessages(kept.results)]
         /\ \E idle \in BOOLEAN : TryStartNext(a, kept, idle)
  /\ \E sent \in Resent(a, session'[a]) : toClient' = [toClient EXCEPT ![a] = sent]
  /\ UNCHANGED <<dbVars, up, instance, pending, completedBy, joined, approvals, faults>>

\* The connection fails after the broker's hello handler, before the client
\* has read the welcome.
HelloLost(a) ==
  /\ Fault("break")
  /\ RegisterClient(a)
  /\ link' = [link EXCEPT ![a] = "half"]
  /\ toBroker' = [toBroker EXCEPT ![a] = <<>>]
  /\ UNCHANGED <<dbVars, up, instance, pending, completedBy, joined, clientVars, toClient>>

\* The client loses its end; the broker may still read what was sent before.
Detach(a) == /\ link' = [link EXCEPT ![a] = "half"]
             /\ toClient' = [toClient EXCEPT ![a] = <<>>]

LinkBreak(a) ==
  /\ Fault("break")
  /\ link[a] = "live"
  /\ Detach(a)
  /\ UNCHANGED <<dbVars, brokerVars, clientVars, toBroker>>

\* group.create and group.join, with the restored membership or by the user.
JoinGroup(a) ==
  /\ up /\ link[a] = "live" /\ session[a] # 0 /\ ~joined[a]
  /\ joined' = [joined EXCEPT ![a] = TRUE]
  /\ UNCHANGED <<dbVars, up, instance, pending, completedBy, session, lastClient,
                 link, clientVars, toBroker, toClient, faults>>

\* The broker stops or dies: its memory and every connection are gone.
BrokerStops ==
  /\ Fault("restart")
  /\ up /\ up' = FALSE
  /\ pending' = [r \in Requests |-> NoEntry]
  /\ completedBy' = [r \in Requests |-> 0]
  /\ session' = [a \in Agents |-> 0]
  /\ joined' = [a \in Agents |-> FALSE]
  /\ link' = [a \in Agents |-> "none"]
  /\ toBroker' = [a \in Agents |-> <<>>]
  /\ toClient' = [a \in Agents |-> <<>>]
  /\ UNCHANGED <<dbVars, instance, lastClient, clientVars>>

\* Mutant: a restart interrupts every request on record.
InterruptedOnRecord(status) == IF status = "none" THEN "none" ELSE "interrupted"

\* Mutant: a restart leaves the messages alone.
MessageAsBefore(m) == msgStatus[m]

\* #interruptActiveRequests on opening the database.  messages.request_id is
\* the message's own id, which only the request of a lone target shares.
InterruptedStatus(status) == IF status = "awaiting_approval" THEN "invalid"
                             ELSE IF status \in Active THEN "interrupted" ELSE status
InterruptedMessage(m) ==
  IF Cardinality(Asked(m, reqStatus)) # 1 THEN msgStatus[m]
  ELSE LET status == reqStatus[<<m, CHOOSE a \in Agents : a \in Asked(m, reqStatus)>>]
       IN  CASE status = "awaiting_approval"      -> "failed"
             [] status \in {"pending", "delivered"} -> "interrupted"
             [] OTHER                             -> msgStatus[m]

BrokerStarts ==
  /\ ~up /\ up' = TRUE
  /\ instance' = instance + 1
  /\ reqStatus' = [r \in Requests |-> InterruptedStatus(reqStatus[r])]
  /\ msgStatus' = [m \in Messages |-> InterruptedMessage(m)]
  /\ UNCHANGED <<answers, pending, completedBy, session, lastClient, joined, link,
                 clientVars, toBroker, toClient, faults>>

------------------------------------------------------------------------------
(* The extension *)

Reply(a, msg) == toBroker' = [toBroker EXCEPT ![a] = Append(@, msg)]

\* agent.deliver: acknowledged always, queued and perhaps started if new.
ReceiveDelivery(a) ==
  /\ Reads(a, "deliver")
  /\ LET r == Head(toClient[a]).req
     IN  /\ approvals' = [approvals EXCEPT ![a] = @ \ {r}]
         /\ Reply(a, [type |-> "deliver.ack", req |-> r])
         /\ \E idle \in BOOLEAN :
              TryStartNext(a, Enqueue(remote[a], r), idle /\ r \notin remote[a].seen)
  /\ ConsumeAtClient(a)
  /\ UNCHANGED <<dbVars, brokerVars, link, clientId, knownInstance, faults>>

\* request.pending
ReceiveApproval(a) ==
  /\ Reads(a, "request.pending")
  /\ approvals' = [approvals EXCEPT ![a] = @ \cup {Head(toClient[a]).req}]
  /\ ConsumeAtClient(a)
  /\ UNCHANGED <<dbVars, brokerVars, link, clientId, knownInstance, remote, runs,
                 toBroker, faults>>

\* send.failed of a request of this Agent
ReceiveSettled(a) ==
  /\ Reads(a, "settled")
  /\ approvals' = [approvals EXCEPT ![a] = @ \ {Head(toClient[a]).req}]
  /\ ConsumeAtClient(a)
  /\ UNCHANGED <<dbVars, brokerVars, link, clientId, knownInstance, remote, runs,
                 toBroker, faults>>

\* agent.result.ack: the result is dropped whether it was accepted or not.
ReceiveResultAck(a) ==
  /\ Reads(a, "result.ack")
  /\ remote' = [remote EXCEPT ![a] = AcknowledgeResult(@, Head(toClient[a]).req)]
  /\ ConsumeAtClient(a)
  /\ UNCHANGED <<dbVars, brokerVars, link, clientId, knownInstance, approvals, runs,
                 toBroker, faults>>

\* The error member_removed: clearRemoteWork.
ReceiveRemoved(a) ==
  /\ Reads(a, "removed")
  /\ remote' = [remote EXCEPT ![a] = EmptyQueue]
  /\ ConsumeAtClient(a)
  /\ UNCHANGED <<dbVars, brokerVars, link, clientId, knownInstance, approvals, runs,
                 toBroker, faults>>

\* flushPendingResults, which sends nothing without a connection.
Flush(a, q) == IF link[a] = "live"
               THEN toBroker' = [toBroker EXCEPT ![a] = @ \o ResultMessages(q.results)]
               ELSE UNCHANGED toBroker

\* agent_settled while a request is active: its result is kept and sent, and
\* the next request may start.  ok is FALSE when the run left no text or
\* could not be started.
Settle(a, ok) ==
  /\ remote[a].active # NoRequest
  /\ LET q == CompleteActive(remote[a], [req |-> remote[a].active, ok |-> ok])
     IN  /\ Flush(a, q)
         /\ \E idle \in BOOLEAN : TryStartNext(a, q, idle)
  /\ UNCHANGED <<dbVars, brokerVars, link, clientId, knownInstance, approvals,
                 toClient, faults>>

\* agent_settled of a run that was not a request: queued work may start.
SettleLocal(a) ==
  /\ remote[a].active = NoRequest /\ remote[a].queue # <<>>
  /\ TryStartNext(a, remote[a], TRUE)
  /\ UNCHANGED <<dbVars, brokerVars, link, clientId, knownInstance, approvals,
                 toBroker, toClient, faults>>

\* The result timer sends every unacknowledged result once more.
RetryResults(a) ==
  /\ link[a] = "live" /\ remote[a].results # <<>>
  /\ Len(toBroker[a]) + Len(toClient[a]) < MaxFlight
  /\ Flush(a, remote[a])
  /\ UNCHANGED <<dbVars, brokerVars, link, clientVars, toClient, faults>>

\* The user approves or rejects a request that the panel lists.  The panel
\* keeps it until the broker's answer arrives.
Decide(a, r, decision) ==
  /\ link[a] = "live" /\ r \in approvals[a]
  /\ Len(toBroker[a]) + Len(toClient[a]) < MaxFlight
  /\ Reply(a, [type |-> decision, req |-> r])
  /\ UNCHANGED <<dbVars, brokerVars, link, clientVars, toClient, faults>>

\* The user leaves the group: remote work is dropped before the broker knows.
LeaveGroup(a) ==
  /\ Fault("leave")
  /\ link[a] = "live" /\ joined[a]
  /\ remote' = [remote EXCEPT ![a] = EmptyQueue]
  /\ Reply(a, [type |-> "leave"])
  /\ UNCHANGED <<dbVars, brokerVars, link, clientId, knownInstance, approvals, runs,
                 toClient>>

\* The next instance of the extension starts without credentials or work.
FreshExtension(a) ==
  /\ remote' = [remote EXCEPT ![a] = EmptyQueue]
  /\ approvals' = [approvals EXCEPT ![a] = {}]
  /\ clientId' = [clientId EXCEPT ![a] = 0]
  /\ knownInstance' = [knownInstance EXCEPT ![a] = 0]

\* session_shutdown, after which Pi loads the extension anew.
Quit(a) ==
  /\ Fault("quit")
  /\ FreshExtension(a)
  /\ IF link[a] = "live"
     THEN Reply(a, [type |-> "goodbye"]) /\ Detach(a)
     ELSE UNCHANGED <<toBroker, link, toClient>>
  /\ UNCHANGED <<dbVars, brokerVars, runs>>

\* The Pi process dies and is started again.
Crash(a) ==
  /\ Fault("crash")
  /\ FreshExtension(a)
  /\ IF link[a] = "live" THEN Detach(a) ELSE UNCHANGED <<link, toClient>>
  /\ UNCHANGED <<dbVars, brokerVars, runs, toBroker>>

------------------------------------------------------------------------------
(* The specification *)

BrokerReads(a) == \/ HandleDeliverAck(a) \/ HandleApprove(a) \/ HandleReject(a)
                  \/ HandleResult(a) \/ HandleLeave(a) \/ HandleGoodbye(a)

ExtensionReads(a) == \/ ReceiveDelivery(a) \/ ReceiveApproval(a) \/ ReceiveSettled(a)
                     \/ ReceiveResultAck(a) \/ ReceiveRemoved(a)

AgentSettles(a) == SettleLocal(a) \/ \E ok \in BOOLEAN : Settle(a, ok)

Next ==
  \/ \E m \in Messages : ChatSend(m)
  \/ BrokerStops
  \/ BrokerStarts
  \/ \E a \in Agents :
       \/ BrokerReads(a)
       \/ HandleUnexpectedDisconnect(a)
       \/ GraceExpires(a)
       \/ RemoveMember(a)
       \/ DropCredentials(a)
       \/ Connect(a)
       \/ HelloLost(a)
       \/ LinkBreak(a)
       \/ JoinGroup(a)
       \/ ExtensionReads(a)
       \/ AgentSettles(a)
       \/ RetryResults(a)
       \/ \E r \in Requests : Decide(a, r, "approve") \/ Decide(a, r, "reject")
       \/ LeaveGroup(a)
       \/ Quit(a)
       \/ Crash(a)

Spec == Init /\ [][Next]_vars

\* Both event loops run, sockets deliver or close, the disconnect timer fires,
\* a stopped broker is started again by an extension, and an Agent that was
\* set to work settles in the end.  Nothing obliges a user to decide, a
\* session to come back or the retry timer to matter.
Fairness ==
  /\ WF_vars(BrokerStarts)
  /\ \A a \in Agents : /\ WF_vars(BrokerReads(a))
                       /\ WF_vars(ExtensionReads(a))
                       /\ WF_vars(AgentSettles(a))
                       /\ WF_vars(HandleUnexpectedDisconnect(a))
                       /\ WF_vars(GraceExpires(a))

FairSpec == Spec /\ Fairness

------------------------------------------------------------------------------
(* Properties *)

\* Types of the broker's rows and maps, of the extensions' state and of the
\* channels.
DatabaseType == /\ reqStatus \in [Requests -> RequestStatus]
                /\ msgStatus \in [Messages -> MessageStatus]
                /\ answers \in [Requests -> Nat]

BrokerType == /\ up \in BOOLEAN /\ instance \in Nat
              /\ pending \in [Requests -> Entries]
              /\ completedBy \in [Requests -> Nat]
              /\ session \in [Agents -> Nat]
              /\ lastClient \in [Agents -> Nat]
              /\ joined \in [Agents -> BOOLEAN]

ExtensionType == /\ clientId \in [Agents -> Nat]
                 /\ knownInstance \in [Agents -> Nat]
                 /\ remote \in [Agents -> RemoteQueues]
                 /\ approvals \in [Agents -> SUBSET Requests]
                 /\ runs \in [Requests -> Nat]

NetworkType == /\ link \in [Agents -> Links]
               /\ toBroker \in [Agents -> Seq(ToBroker)]
               /\ toClient \in [Agents -> Seq(ToClient)]
               /\ faults \in Nat

TypeOK == DatabaseType /\ BrokerType /\ ExtensionType /\ NetworkType

\* The broker answers from memory and recovers from the database: a running
\* broker has an entry for a request exactly while the row is active, in the
\* matching state.  A stopped one has none.
Matching(entry, status) ==
  CASE entry.state = "none"              -> status \notin Active
    [] entry.state = "awaiting_approval" -> status = "awaiting_approval"
    [] entry.state = "delivering"        -> status \in {"pending", "delivered"}

PendingMatchesRows == \A r \in Requests : IF up THEN Matching(pending[r], reqStatus[r])
                                          ELSE pending[r] = NoEntry

\* Whatever is lost, repeated or retried, a request has one public answer if
\* it completed and none otherwise.
AnsweredOnce ==
  \A r \in Requests : answers[r] = IF reqStatus[r] = "completed" THEN 1 ELSE 0

\* A late result, a second decision, a timer or a restart never reopens or
\* relabels a request that has ended.
SettledIsFinal ==
  [][\A r \in Requests : reqStatus[r] \in Terminal => reqStatus'[r] = reqStatus[r]]_vars

\* An extension holds, and is sent, only requests to its own Agent that its
\* permission let through: nothing that waits for approval, was rejected,
\* blocked or became invalid while it waited.
WorkIsAuthorised ==
  \A a \in Agents : \A r \in Requests :
    \/ r \in remote[a].seen
    \/ \E i \in DOMAIN toClient[a] : toClient[a][i] = [type |-> "deliver", req |-> r]
    => /\ TargetOf(r) = a
       /\ reqStatus[r] \in {"pending", "delivered", "completed", "failed", "interrupted"}

\* An Agent works on a request at most once, however often it is delivered.
RunsOnce == \A r \in Requests : runs[r] <= 1

\* While a client holds the session, a request it has acknowledged is in its
\* hands: queued, active or answered and not yet acknowledged.
AcknowledgedIsHeld ==
  \A a \in Agents : \A r \in EntriesOf(a, session[a]) :
    pending[r].acked /\ pending[r].state = "delivering" /\ clientId[a] = session[a]
    => \/ remote[a].active = r
       \/ \E i \in DOMAIN remote[a].queue : remote[a].queue[i] = r
       \/ \E i \in DOMAIN remote[a].results : remote[a].results[i].req = r

\* A public message never shows work going on when all its requests ended.
MessageSettles ==
  up => \A m \in Messages :
          (\A a \in Agents : reqStatus[<<m, a>>] \notin Active) => msgStatus[m] \notin Unsettled

\* A request handed to an Agent ends: it is answered, fails or is interrupted.
OpenRequestsEnd ==
  \A r \in Requests : reqStatus[r] \in {"pending", "delivered"} ~> reqStatus[r] \in Terminal

\* The abstract specification, with the statuses seen as phases.
Phase(status) == CASE status = "none"                   -> "unasked"
                   [] status = "awaiting_approval"      -> "waiting"
                   [] status \in {"pending", "delivered"} -> "open"
                   [] status = "completed"              -> "answered"
                   [] OTHER                             -> "refused"

Promise == INSTANCE RequestPromise
             WITH phase <- [r \in Requests |-> Phase(reqStatus[r])],
                  published <- answers
PromiseSpec == Promise!Spec

\* A session's connection, of which this module knows one at a time, is {a}.
Sessions ==
  INSTANCE SessionPromise WITH
    Seats <- Agents, Conns <- {{a} : a \in Agents}, None <- {},
    holder <- [a \in Agents |-> IF link[a] = "none" THEN {} ELSE {a}],
    client <- session,
    instance <- [a \in Agents |-> IF up THEN instance ELSE instance + 1],
    open <- {{a} : a \in {b \in Agents : link[b] # "none"}}

\* What this module takes of connections, a whole handshake in one step, is no
\* more than SessionPromise, which SessionConnections implements in detail.
SessionSpec == Sessions!Spec

=============================================================================
