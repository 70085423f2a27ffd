------------------------ MODULE AgentRequests_proofs -------------------------
(***************************************************************************)
(* Theorems about AgentRequests, for any agents, messages and bounds: its  *)
(* types, its rows and answers, the abstract specification it implements,  *)
(* and what extensions hold, run and have acknowledged.                    *)
(***************************************************************************)
EXTENDS AgentRequests, FiniteSetTheorems, TLAPS

------------------------------------------------------------------------------
(* The RemoteQueue: every method leaves a RemoteQueue. *)

LEMMA EmptyQueueType == EmptyQueue \in RemoteQueues
  BY DEF EmptyQueue, RemoteQueues

LEMMA EnqueueType ==
  ASSUME NEW q \in RemoteQueues, NEW r \in Requests
  PROVE  Enqueue(q, r) \in RemoteQueues
<1>1. /\ q.seen \in SUBSET Requests
      /\ q.queue \in Seq(Requests)
  BY DEF RemoteQueues
<1>2. /\ q.seen \cup {r} \in SUBSET Requests
      /\ Append(q.queue, r) \in Seq(Requests)
  BY <1>1
<1>3. [q EXCEPT !.seen = q.seen \cup {r}, !.queue = Append(q.queue, r)] \in RemoteQueues
  <2> DEFINE s == q.seen \cup {r}
             u == Append(q.queue, r)
  <2> HIDE DEF s, u
  <2>1. s \in SUBSET Requests /\ u \in Seq(Requests)
    BY <1>2 DEF s, u
  <2>2. [q EXCEPT !.seen = s, !.queue = u] \in RemoteQueues
    BY <2>1 DEF RemoteQueues
  <2> QED BY <2>2 DEF s, u
<1> QED BY <1>3 DEF Enqueue

LEMMA StartNextType ==
  ASSUME NEW q \in RemoteQueues
  PROVE  /\ StartNext(q) \in RemoteQueues
         /\ StartNext(q).active # q.active => StartNext(q).active \in Requests
<1>1. CASE q.active # NoRequest \/ q.queue = <<>>
  BY <1>1 DEF StartNext
<1>2. CASE ~ (q.active # NoRequest \/ q.queue = <<>>)
  <2> DEFINE h == Head(q.queue)
             t == Tail(q.queue)
  <2>1. q.queue \in Seq(Requests)
    BY DEF RemoteQueues
  <2>2. h \in Requests /\ t \in Seq(Requests)
    BY <1>2, <2>1
  <2>3. StartNext(q) = [q EXCEPT !.active = h, !.queue = t]
    BY <1>2 DEF StartNext
  <2> HIDE DEF h, t
  <2> QED BY <2>2, <2>3 DEF RemoteQueues
<1> QED BY <1>1, <1>2

LEMMA CompleteActiveType ==
  ASSUME NEW q \in RemoteQueues, NEW result \in Results
  PROVE  CompleteActive(q, result) \in RemoteQueues
<1>1. CASE q.active # result.req
  BY <1>1 DEF CompleteActive
<1>2. CASE q.active = result.req
  <2> DEFINE kept == Append(q.results, result)
  <2>1. kept \in Seq(Results)
    BY DEF RemoteQueues
  <2>2. CompleteActive(q, result) = [q EXCEPT !.active = NoRequest, !.results = kept]
    BY <1>2 DEF CompleteActive
  <2> HIDE DEF kept
  <2> QED BY <2>1, <2>2 DEF RemoteQueues
<1> QED BY <1>1, <1>2

LEMMA AcknowledgeResultType ==
  ASSUME NEW q \in RemoteQueues, NEW r \in Requests
  PROVE  AcknowledgeResult(q, r) \in RemoteQueues
<1>1. CASE \A i \in 1..Len(q.results) : q.results[i].req # r
  BY <1>1 DEF AcknowledgeResult
<1>2. CASE ~ \A i \in 1..Len(q.results) : q.results[i].req # r
  <2> DEFINE i == CHOOSE i \in 1..Len(q.results) : q.results[i].req = r
             rest == SubSeq(q.results, 1, i - 1) \o SubSeq(q.results, i + 1, Len(q.results))
  <2>1. q.results \in Seq(Results)
    BY DEF RemoteQueues
  <2>2. i \in 1..Len(q.results)
    BY <1>2
  <2>3. rest \in Seq(Results)
    <3> HIDE DEF i
    <3> QED BY <2>1, <2>2
  <2>4. AcknowledgeResult(q, r) = [q EXCEPT !.results = rest]
    BY <1>2 DEF AcknowledgeResult
  <2> QED
    <3> HIDE DEF i, rest
    <3> QED BY <2>3, <2>4 DEF RemoteQueues
<1> QED BY <1>1, <1>2

------------------------------------------------------------------------------
(* Messages and rows *)

LEMMA ResultMessagesType ==
  ASSUME NEW results \in Seq(Results)
  PROVE  ResultMessages(results) \in Seq(ToBroker)
<1>1. \A i \in 1..Len(results) : results[i] \in Results
  OBVIOUS
<1>2. \A i \in 1..Len(results) :
        [type |-> "result", req |-> results[i].req, ok |-> results[i].ok] \in ToBroker
  BY <1>1 DEF Results, ToBroker
<1>3. Len(results) \in Nat
  OBVIOUS
<1> QED BY <1>2, <1>3 DEF ResultMessages

LEMMA OrdersType ==
  ASSUME NEW S \in SUBSET Requests, NEW s \in Orders(S)
  PROVE  s \in Seq(Requests)
<1>1. IsFiniteSet(Requests)
  BY ConstantsAssumption, FS_Product DEF Requests
<1>2. IsFiniteSet(S)
  BY <1>1, FS_Subset
<1>3. Cardinality(S) \in Nat
  BY <1>2, FS_CardinalityType
<1>4. s \in [1..Cardinality(S) -> Requests]
  BY DEF Orders
<1> QED BY <1>3, <1>4

LEMMA ResentType ==
  ASSUME NEW a \in Agents, NEW c, NEW sent \in Resent(a, c)
  PROVE  sent \in Seq(ToClient)
<1>1. PICK d \in Orders(Unacknowledged(a, c)), w \in Orders(Waiting(a, c)) :
        sent = DeliverMessages(d) \o ApprovalMessages(w)
  BY DEF Resent
<1>2. /\ Unacknowledged(a, c) \in SUBSET Requests
      /\ Waiting(a, c) \in SUBSET Requests
  BY DEF Unacknowledged, Waiting, EntriesOf
<1>3. d \in Seq(Requests) /\ w \in Seq(Requests)
  BY <1>2, OrdersType
<1>4. DeliverMessages(d) \in Seq(ToClient)
  BY <1>3 DEF DeliverMessages, ToClient
<1>5. ApprovalMessages(w) \in Seq(ToClient)
  BY <1>3 DEF ApprovalMessages, ToClient
<1> QED BY <1>1, <1>4, <1>5

LEMMA SetStatusType ==
  ASSUME DatabaseType, NEW S \in SUBSET Requests, NEW new,
         \A r \in S : new[r] \in RequestStatus,
         SetStatus(S, new)
  PROVE  /\ reqStatus' \in [Requests -> RequestStatus]
         /\ msgStatus' \in [Messages -> MessageStatus]
<1>1. \A m \in Messages : \A st : RefreshedStatus(m, st) \in MessageStatus
  BY DEF RefreshedStatus, MessageStatus, Unsettled
<1> QED BY <1>1 DEF SetStatus, DatabaseType

\* What a handler reads is a message of its channel's alphabet.
LEMMA ArrivesType ==
  ASSUME NetworkType, NEW a \in Agents, NEW type, Arrives(a, type)
  PROVE  /\ Head(toBroker[a]) \in ToBroker
         /\ Head(toBroker[a]).type = type
         /\ Consume(a) => toBroker' \in [Agents -> Seq(ToBroker)]
<1>1. toBroker[a] \in Seq(ToBroker) /\ toBroker[a] # <<>>
  BY DEF NetworkType, Arrives
<1>2. Head(toBroker[a]) \in ToBroker /\ Tail(toBroker[a]) \in Seq(ToBroker)
  BY <1>1
<1> QED BY <1>2 DEF Arrives, Consume, NetworkType

LEMMA ReadsType ==
  ASSUME NetworkType, NEW a \in Agents, NEW type, Reads(a, type)
  PROVE  /\ Head(toClient[a]) \in ToClient
         /\ Head(toClient[a]).type = type
         /\ ConsumeAtClient(a) => toClient' \in [Agents -> Seq(ToClient)]
<1>1. toClient[a] \in Seq(ToClient) /\ toClient[a] # <<>>
  BY DEF NetworkType, Reads
<1>2. Head(toClient[a]) \in ToClient /\ Tail(toClient[a]) \in Seq(ToClient)
  BY <1>1
<1> QED BY <1>2 DEF Reads, ConsumeAtClient, NetworkType

LEMMA SentType ==
  ASSUME NetworkType, NEW a \in Agents, NEW msg \in ToClient
  PROVE  /\ Sent(toClient, a, msg) \in Seq(ToClient)
         /\ SendToClient(a, msg) => toClient' \in [Agents -> Seq(ToClient)]
<1>1. toClient[a] \in Seq(ToClient)
  BY DEF NetworkType
<1>2. Sent(toClient, a, msg) \in Seq(ToClient)
  BY <1>1 DEF Sent
<1> QED BY <1>2 DEF SendToClient, NetworkType

LEMMA BothSentType ==
  ASSUME NetworkType, NEW a \in Agents, NEW first \in ToClient, NEW second \in ToClient,
         SendBothToClient(a, first, second)
  PROVE  toClient' \in [Agents -> Seq(ToClient)]
<1>1. toClient[a] \in Seq(ToClient)
  BY DEF NetworkType
<1>2. toClient[a] \o <<first, second>> \in Seq(ToClient)
  BY <1>1
<1> QED BY <1>2 DEF SendBothToClient, NetworkType

LEMMA ReplyType ==
  ASSUME NetworkType, NEW a \in Agents, NEW msg \in ToBroker, Reply(a, msg)
  PROVE  toBroker' \in [Agents -> Seq(ToBroker)]
<1>1. toBroker[a] \in Seq(ToBroker)
  BY DEF NetworkType
<1>2. Append(toBroker[a], msg) \in Seq(ToBroker)
  BY <1>1
<1> QED BY <1>2 DEF Reply, NetworkType

LEMMA FaultType ==
  ASSUME NetworkType, NEW kind, Fault(kind)
  PROVE  faults' \in Nat
  BY DEF NetworkType, Fault

LEMMA DetachType ==
  ASSUME NetworkType, NEW a \in Agents, Detach(a)
  PROVE  link' \in [Agents -> Links] /\ toClient' \in [Agents -> Seq(ToClient)]
  BY DEF NetworkType, Detach, Links

LEMMA FlushType ==
  ASSUME NetworkType, NEW a \in Agents, NEW q \in RemoteQueues, Flush(a, q)
  PROVE  toBroker' \in [Agents -> Seq(ToBroker)]
<1>1. toBroker[a] \in Seq(ToBroker) /\ q.results \in Seq(Results)
  BY DEF NetworkType, RemoteQueues
<1>2. ResultMessages(q.results) \in Seq(ToBroker)
  BY <1>1, ResultMessagesType
<1>3. toBroker[a] \o ResultMessages(q.results) \in Seq(ToBroker)
  BY <1>1, <1>2
<1> QED BY <1>3 DEF Flush, NetworkType

LEMMA TryStartNextType ==
  ASSUME ExtensionType, NEW a \in Agents, NEW q \in RemoteQueues, NEW idle \in BOOLEAN,
         TryStartNext(a, q, idle)
  PROVE  /\ remote' \in [Agents -> RemoteQueues]
         /\ runs' \in [Requests -> Nat]
<1> DEFINE next == IF idle THEN StartNext(q) ELSE q
<1>1. next \in RemoteQueues /\ (next.active # q.active => next.active \in Requests)
  BY StartNextType
<1>2. /\ remote' = [remote EXCEPT ![a] = next]
      /\ runs' = IF next.active # q.active THEN [runs EXCEPT ![next.active] = @ + 1] ELSE runs
  BY DEF TryStartNext
<1> HIDE DEF next
<1> QED BY <1>1, <1>2 DEF ExtensionType

LEMMA FailRequestsForTargetType ==
  ASSUME DatabaseType, BrokerType, NEW a \in Agents, FailRequestsForTarget(a)
  PROVE  /\ reqStatus' \in [Requests -> RequestStatus]
         /\ msgStatus' \in [Messages -> MessageStatus]
         /\ pending' \in [Requests -> Entries]
<1> DEFINE S == EntriesOf(a, session[a])
           new == [r \in S |-> IF pending[r].state = "awaiting_approval"
                               THEN "invalid" ELSE "failed"]
           T == {r \in S : reqStatus[r] \in Active}
<1>1. S \in SUBSET Requests
  BY DEF EntriesOf
<1>2. \A r \in S : new[r] \in RequestStatus
  BY DEF RequestStatus, Terminal
<1>3. pending' \in [Requests -> Entries]
  BY <1>1 DEF FailRequestsForTarget, BrokerType, Entries, NoEntry
<1>4. SetStatus(T, new)
  BY DEF FailRequestsForTarget
<1> HIDE DEF new, S
<1> QED BY <1>1, <1>2, <1>3, <1>4, SetStatusType

LEMMA FreshExtensionType ==
  ASSUME ExtensionType, NEW a \in Agents, FreshExtension(a)
  PROVE  /\ clientId' \in [Agents -> Nat] /\ knownInstance' \in [Agents -> Nat]
         /\ remote' \in [Agents -> RemoteQueues]
         /\ approvals' \in [Agents -> SUBSET Requests]
<1>1. EmptyQueue \in RemoteQueues
  BY EmptyQueueType
<1> QED BY <1>1 DEF FreshExtension, ExtensionType

------------------------------------------------------------------------------
(* Type correctness *)

LEMMA InitType == Init => TypeOK
<1> SUFFICES ASSUME Init PROVE TypeOK
  OBVIOUS
<1>1. DatabaseType
  BY DEF Init, DatabaseType, RequestStatus, MessageStatus
<1>2. BrokerType
  BY DEF Init, BrokerType, Entries, NoEntry
<1>3. ExtensionType
  BY EmptyQueueType DEF Init, ExtensionType
<1>4. NetworkType
  BY DEF Init, NetworkType, Links
<1> QED BY <1>1, <1>2, <1>3, <1>4 DEF TypeOK

LEMMA NextType == TypeOK /\ [Next]_vars => TypeOK'
<1> SUFFICES ASSUME TypeOK, [Next]_vars PROVE TypeOK'
  OBVIOUS
<1> USE DEF TypeOK
<1>1. ASSUME NEW m \in Messages, ChatSend(m) PROVE TypeOK'
  <2>1. PICK T \in SUBSET Agents : \E out \in [T -> RequestStatus] : AddressTargets(m, T, out)
    BY <1>1 DEF ChatSend
  <2>1a. PICK out \in [T -> RequestStatus] : AddressTargets(m, T, out)
    BY <2>1
  <2>2. \A r \in Requests : TargetOf(r) \in Agents
    BY DEF Requests, TargetOf
  <2>3. DatabaseType'
    BY <1>1, <2>1a, <2>2 DEF ChatSend, AddressTargets, DatabaseType, MessageStatus, Unsettled
  <2>4. BrokerType'
    BY <1>1, <2>1a, <2>2 DEF ChatSend, AddressTargets, BrokerType, Entries, Entry
  <2>5. ExtensionType'
    BY <1>1 DEF ChatSend, clientVars, ExtensionType
  <2>6. \A a \in Agents : toClient'[a] \in Seq(ToClient)
    <3> SUFFICES ASSUME NEW a \in Agents PROVE toClient'[a] \in Seq(ToClient)
      OBVIOUS
    <3> DEFINE msg == [type |-> IF out[a] = "pending" THEN "deliver" ELSE "request.pending",
                       req |-> <<m, a>>]
    <3>1. msg \in ToClient
      BY DEF ToClient, Requests
    <3>2. Sent(toClient, a, msg) \in Seq(ToClient)
      BY <3>1, SentType
    <3>3. toClient'[a] = IF a \in T /\ out[a] \in {"pending", "awaiting_approval"}
                         THEN Sent(toClient, a, msg) ELSE toClient[a]
      BY <2>1a DEF AddressTargets
    <3> HIDE DEF msg
    <3> QED BY <3>2, <3>3 DEF NetworkType
  <2>7. NetworkType'
    BY <1>1, <2>1a, <2>6 DEF ChatSend, AddressTargets, NetworkType
  <2> QED BY <2>3, <2>4, <2>5, <2>7
<1>2. ASSUME NEW a \in Agents, HandleDeliverAck(a) PROVE TypeOK'
  <2> DEFINE r == Head(toBroker[a]).req
             new == [x \in {r} |-> IF reqStatus[r] = "pending" THEN "delivered" ELSE reqStatus[r]]
  <2>1. r \in Requests /\ toBroker' \in [Agents -> Seq(ToBroker)]
    BY <1>2, ArrivesType DEF HandleDeliverAck, ToBroker
  <2>2. CASE pending[r].state # "none" /\ pending[r].client = session[a]
    <3>1. SetStatus({r}, new) /\ pending' = [pending EXCEPT ![r].acked = TRUE]
      BY <1>2, <2>2 DEF HandleDeliverAck
    <3>2. \A x \in {r} : new[x] \in RequestStatus
      BY <2>1 DEF DatabaseType, RequestStatus, Active
    <3>3. DatabaseType'
      <4> HIDE DEF new
      <4> QED BY <1>2, <2>1, <3>1, <3>2, SetStatusType DEF HandleDeliverAck, DatabaseType
    <3>4. BrokerType'
      BY <1>2, <2>1, <3>1 DEF HandleDeliverAck, BrokerType, Entries
    <3> QED BY <1>2, <2>1, <3>3, <3>4
         DEF HandleDeliverAck, clientVars, ExtensionType, NetworkType
  <2>3. CASE ~ (pending[r].state # "none" /\ pending[r].client = session[a])
    BY <1>2, <2>1, <2>3
       DEF HandleDeliverAck, clientVars, DatabaseType, BrokerType, ExtensionType, NetworkType
  <2> QED BY <2>2, <2>3
<1>3. ASSUME NEW a \in Agents, HandleApprove(a) PROVE TypeOK'
  <2> DEFINE r == Head(toBroker[a]).req
             msg == [type |-> "deliver", req |-> r]
  <2>1. r \in Requests /\ toBroker' \in [Agents -> Seq(ToBroker)]
    BY <1>3, ArrivesType DEF HandleApprove, ToBroker
  <2>2. CASE Decidable(a, r)
    <3> DEFINE new == [x \in {r} |-> "pending"]
    <3>1. /\ SetStatus({r}, new) /\ pending' = [pending EXCEPT ![r].state = "delivering"]
          /\ SendToClient(a, msg)
      BY <1>3, <2>2 DEF HandleApprove
    <3>2. \A x \in {r} : new[x] \in RequestStatus
      BY DEF RequestStatus, Active
    <3>3. DatabaseType'
      <4> HIDE DEF new
      <4> QED BY <1>3, <2>1, <3>1, <3>2, SetStatusType DEF HandleApprove, DatabaseType
    <3>4. BrokerType'
      BY <1>3, <2>1, <3>1 DEF HandleApprove, BrokerType, Entries
    <3>5. msg \in ToClient
      BY <2>1 DEF ToClient
    <3>6. toClient' \in [Agents -> Seq(ToClient)]
      <4> HIDE DEF msg
      <4> QED BY <3>1, <3>5, SentType
    <3> QED BY <1>3, <2>1, <3>3, <3>4, <3>6
         DEF HandleApprove, clientVars, ExtensionType, NetworkType
  <2>3. CASE ~Decidable(a, r)
    BY <1>3, <2>1, <2>3
       DEF HandleApprove, clientVars, DatabaseType, BrokerType, ExtensionType, NetworkType
  <2> QED BY <2>2, <2>3
<1>4. ASSUME NEW a \in Agents, HandleReject(a) PROVE TypeOK'
  <2> DEFINE r == Head(toBroker[a]).req
             msg == [type |-> "settled", req |-> r]
  <2>1. r \in Requests /\ toBroker' \in [Agents -> Seq(ToBroker)]
    BY <1>4, ArrivesType DEF HandleReject, ToBroker
  <2>2. CASE Decidable(a, r)
    <3> DEFINE new == [x \in {r} |-> "rejected"]
    <3>1. /\ SetStatus({r}, new) /\ pending' = [pending EXCEPT ![r] = NoEntry]
          /\ IF joined[a] THEN SendToClient(a, msg) ELSE UNCHANGED toClient
      BY <1>4, <2>2 DEF HandleReject
    <3>2. \A x \in {r} : new[x] \in RequestStatus
      BY DEF RequestStatus, Terminal
    <3>3. DatabaseType'
      <4> HIDE DEF new
      <4> QED BY <1>4, <2>1, <3>1, <3>2, SetStatusType DEF HandleReject, DatabaseType
    <3>4. BrokerType'
      BY <1>4, <2>1, <3>1 DEF HandleReject, BrokerType, Entries, NoEntry
    <3>5. msg \in ToClient
      BY <2>1 DEF ToClient
    <3>6. toClient' \in [Agents -> Seq(ToClient)]
      <4> HIDE DEF msg
      <4> QED BY <3>1, <3>5, SentType DEF NetworkType
    <3> QED BY <1>4, <2>1, <3>3, <3>4, <3>6
         DEF HandleReject, clientVars, ExtensionType, NetworkType
  <2>3. CASE ~Decidable(a, r)
    BY <1>4, <2>1, <2>3
       DEF HandleReject, clientVars, DatabaseType, BrokerType, ExtensionType, NetworkType
  <2> QED BY <2>2, <2>3
<1>5. ASSUME NEW a \in Agents, HandleResult(a) PROVE TypeOK'
  <2> DEFINE r == Head(toBroker[a]).req
             ok == Head(toBroker[a]).ok
             closes == /\ ~AlreadyClosed(a, r)
                       /\ OwnsResult(a, r)
                       /\ reqStatus[r] \in ClosableFrom(ok)
             msg == [type |-> "result.ack", req |-> r, accepted |-> AlreadyClosed(a, r) \/ closes]
             settled == [type |-> "settled", req |-> r]
  <2>1. r \in Requests /\ toBroker' \in [Agents -> Seq(ToBroker)]
    BY <1>5, ArrivesType DEF HandleResult, ToBroker
  <2>2. /\ IF closes THEN CloseByResult(a, r, ok) ELSE UNCHANGED <<dbVars, pending, completedBy>>
        /\ \/ SendBothToClient(a, settled, msg)
           \/ SendToClient(a, msg)
    BY <1>5 DEF HandleResult
  <2>3. msg \in ToClient /\ settled \in ToClient
    BY <2>1 DEF ToClient
  <2>4. toClient' \in [Agents -> Seq(ToClient)]
    <3> HIDE DEF msg, settled
    <3> QED BY <2>2, <2>3, SentType, BothSentType
  <2>5. DatabaseType' /\ pending' \in [Requests -> Entries] /\ completedBy' \in [Requests -> Nat]
    <3>1. CASE closes
      <4> DEFINE new == [x \in {r} |-> IF ok THEN "completed" ELSE "failed"]
      <4>1. SetStatus({r}, new) /\ \A x \in {r} : new[x] \in RequestStatus
        BY <2>2, <3>1 DEF CloseByResult, RequestStatus, Terminal
      <4>2. /\ reqStatus' \in [Requests -> RequestStatus]
            /\ msgStatus' \in [Messages -> MessageStatus]
        <5> HIDE DEF new, r
        <5> QED BY <2>1, <4>1, SetStatusType DEF r
      <4>3. answers' \in [Requests -> Nat]
        BY <2>1, <2>2, <3>1 DEF CloseByResult, DatabaseType
      <4>4. pending' \in [Requests -> Entries]
        <5>1. pending' = [pending EXCEPT ![r] = NoEntry]
          BY <2>2, <3>1 DEF CloseByResult
        <5> HIDE DEF r, closes
        <5> QED BY <5>1 DEF BrokerType, Entries, NoEntry
      <4>5. completedBy' \in [Requests -> Nat]
        BY <2>1, <2>2, <3>1 DEF CloseByResult, BrokerType
      <4> QED BY <4>2, <4>3, <4>4, <4>5 DEF DatabaseType
    <3>2. CASE ~closes
      BY <2>2, <3>2 DEF dbVars, DatabaseType, BrokerType
    <3> QED BY <3>1, <3>2
  <2> HIDE DEF r, ok, closes, msg, settled
  <2> QED BY <1>5, <2>1, <2>4, <2>5
       DEF HandleResult, clientVars, BrokerType, ExtensionType, NetworkType
<1>6. ASSUME NEW a \in Agents, LeaveClientGroup(a)
      PROVE  /\ reqStatus' \in [Requests -> RequestStatus]
             /\ msgStatus' \in [Messages -> MessageStatus]
             /\ pending' \in [Requests -> Entries]
             /\ joined' \in [Agents -> BOOLEAN]
  BY <1>6, FailRequestsForTargetType DEF LeaveClientGroup, DatabaseType, BrokerType
<1>7. ASSUME NEW a \in Agents, HandleLeave(a) PROVE TypeOK'
  <2>1. toBroker' \in [Agents -> Seq(ToBroker)]
    BY <1>7, ArrivesType DEF HandleLeave
  <2> QED BY <1>6, <1>7, <2>1
       DEF HandleLeave, clientVars, DatabaseType, BrokerType, ExtensionType, NetworkType
<1>8. ASSUME NEW a \in Agents, HandleGoodbye(a) PROVE TypeOK'
  BY <1>6, <1>8
     DEF HandleGoodbye, clientVars, DatabaseType, BrokerType, ExtensionType, NetworkType, Links
<1>9. ASSUME NEW a \in Agents, HandleUnexpectedDisconnect(a) PROVE TypeOK'
  BY <1>9 DEF HandleUnexpectedDisconnect, dbVars, brokerVars, clientVars,
              DatabaseType, BrokerType, ExtensionType, NetworkType, Links
<1>10. ASSUME NEW a \in Agents, GraceExpires(a) PROVE TypeOK'
  BY <1>10, FailRequestsForTargetType
     DEF GraceExpires, clientVars, DatabaseType, BrokerType, ExtensionType, NetworkType
<1>11. ASSUME NEW a \in Agents, RemoveMember(a) PROVE TypeOK'
  <2>1. [type |-> "removed"] \in ToClient
    BY DEF ToClient
  <2>2. toClient' \in [Agents -> Seq(ToClient)]
    BY <1>11, <2>1, SentType DEF RemoveMember
  <2>3. faults' \in Nat
    BY <1>11, FaultType DEF RemoveMember
  <2> QED BY <1>11, <2>2, <2>3 DEF RemoveMember, dbVars, clientVars,
               DatabaseType, BrokerType, ExtensionType, NetworkType
<1>12. ASSUME NEW a \in Agents, DropCredentials(a) PROVE TypeOK'
  BY <1>12 DEF DropCredentials, dbVars, brokerVars,
               DatabaseType, BrokerType, ExtensionType, NetworkType
<1>13. ASSUME NEW a \in Agents, RegisterClient(a)
       PROVE  session' \in [Agents -> Nat] /\ lastClient' \in [Agents -> Nat]
  BY <1>13 DEF RegisterClient, BrokerType
<1>14. ASSUME NEW a \in Agents, Connect(a) PROVE TypeOK'
  <2> DEFINE kept == IF knownInstance[a] \in {0, instance} THEN remote[a] ELSE EmptyQueue
  <2>1. kept \in RemoteQueues
    BY EmptyQueueType DEF ExtensionType
  <2>2. /\ toBroker' = [toBroker EXCEPT ![a] = ResultMessages(kept.results)]
        /\ \E idle \in BOOLEAN : TryStartNext(a, kept, idle)
    BY <1>14 DEF Connect
  <2>3. toBroker' \in [Agents -> Seq(ToBroker)]
    <3> HIDE DEF kept
    <3>1. ResultMessages(kept.results) \in Seq(ToBroker)
      BY <2>1, ResultMessagesType DEF RemoteQueues
    <3> QED BY <2>2, <3>1 DEF NetworkType
  <2>4. remote' \in [Agents -> RemoteQueues] /\ runs' \in [Requests -> Nat]
    <3> HIDE DEF kept
    <3> QED BY <2>1, <2>2, TryStartNextType
  <2>5. PICK sent \in Resent(a, session'[a]) : toClient' = [toClient EXCEPT ![a] = sent]
    BY <1>14 DEF Connect
  <2>6. toClient' \in [Agents -> Seq(ToClient)]
    BY <2>5, ResentType DEF NetworkType
  <2>7. session' \in [Agents -> Nat] /\ lastClient' \in [Agents -> Nat]
    BY <1>13, <1>14 DEF Connect
  <2>8. /\ link' = [link EXCEPT ![a] = "live"]
        /\ clientId' = [clientId EXCEPT ![a] = session'[a]]
        /\ knownInstance' = [knownInstance EXCEPT ![a] = instance]
        /\ UNCHANGED <<dbVars, up, instance, pending, completedBy, joined, approvals, faults>>
    BY <1>14 DEF Connect
  <2> HIDE DEF kept
  <2> QED BY <2>3, <2>4, <2>6, <2>7, <2>8
       DEF dbVars, DatabaseType, BrokerType, ExtensionType, NetworkType, Links
<1>15. ASSUME NEW a \in Agents, HelloLost(a) PROVE TypeOK'
  BY <1>13, <1>15 DEF HelloLost, Fault, dbVars, clientVars,
                      DatabaseType, BrokerType, ExtensionType, NetworkType, Links
<1>16. ASSUME NEW a \in Agents, LinkBreak(a) PROVE TypeOK'
  BY <1>16 DEF LinkBreak, Detach, Fault, dbVars, brokerVars, clientVars,
               DatabaseType, BrokerType, ExtensionType, NetworkType, Links
<1>17. ASSUME NEW a \in Agents, JoinGroup(a) PROVE TypeOK'
  BY <1>17 DEF JoinGroup, dbVars, clientVars,
               DatabaseType, BrokerType, ExtensionType, NetworkType
<1>18. CASE BrokerStops
  <2>1. faults' \in Nat
    BY <1>18, FaultType DEF BrokerStops
  <2>2. NetworkType'
    BY <1>18, <2>1 DEF BrokerStops, NetworkType, Links
  <2>3. BrokerType'
    BY <1>18 DEF BrokerStops, BrokerType, Entries, NoEntry
  <2> QED BY <1>18, <2>2, <2>3 DEF BrokerStops, dbVars, clientVars, DatabaseType, ExtensionType
<1>19. CASE BrokerStarts
  <2>1. \A r \in Requests : InterruptedStatus(reqStatus[r]) \in RequestStatus
    BY DEF InterruptedStatus, DatabaseType, RequestStatus, Terminal
  <2>2. \A m \in Messages : InterruptedMessage(m) \in MessageStatus
    BY DEF InterruptedMessage, DatabaseType, MessageStatus
  <2> QED BY <1>19, <2>1, <2>2
       DEF BrokerStarts, clientVars, DatabaseType, BrokerType, ExtensionType, NetworkType
<1>20. ASSUME NEW a \in Agents, ReceiveDelivery(a) PROVE TypeOK'
  <2> DEFINE r == Head(toClient[a]).req
             msg == [type |-> "deliver.ack", req |-> r]
  <2>1. r \in Requests /\ toClient' \in [Agents -> Seq(ToClient)]
    BY <1>20, ReadsType DEF ReceiveDelivery, ToClient
  <2>2. PICK idle \in BOOLEAN : TryStartNext(a, Enqueue(remote[a], r), idle /\ r \notin remote[a].seen)
    BY <1>20 DEF ReceiveDelivery
  <2>3. Enqueue(remote[a], r) \in RemoteQueues
    BY <2>1, EnqueueType DEF ExtensionType
  <2>4. remote' \in [Agents -> RemoteQueues] /\ runs' \in [Requests -> Nat]
    BY <2>2, <2>3, TryStartNextType
  <2>5. msg \in ToBroker
    BY <2>1 DEF ToBroker
  <2>6. toBroker' \in [Agents -> Seq(ToBroker)]
    BY <1>20, <2>5, ReplyType DEF ReceiveDelivery
  <2>7. approvals' = [approvals EXCEPT ![a] = @ \ {r}]
    BY <1>20 DEF ReceiveDelivery
  <2> HIDE DEF r, msg
  <2>8. ExtensionType'
    BY <1>20, <2>4, <2>7 DEF ReceiveDelivery, ExtensionType
  <2> QED BY <1>20, <2>1, <2>6, <2>8 DEF ReceiveDelivery, dbVars, brokerVars,
               DatabaseType, BrokerType, NetworkType
<1>21. ASSUME NEW a \in Agents, ReceiveApproval(a) PROVE TypeOK'
  <2>1. Head(toClient[a]).req \in Requests /\ toClient' \in [Agents -> Seq(ToClient)]
    BY <1>21, ReadsType DEF ReceiveApproval, ToClient
  <2> QED BY <1>21, <2>1 DEF ReceiveApproval, dbVars, brokerVars,
               DatabaseType, BrokerType, ExtensionType, NetworkType
<1>22. ASSUME NEW a \in Agents, ReceiveSettled(a) PROVE TypeOK'
  <2>1. toClient' \in [Agents -> Seq(ToClient)]
    BY <1>22, ReadsType DEF ReceiveSettled
  <2> QED BY <1>22, <2>1 DEF ReceiveSettled, dbVars, brokerVars,
               DatabaseType, BrokerType, ExtensionType, NetworkType
<1>23. ASSUME NEW a \in Agents, ReceiveResultAck(a) PROVE TypeOK'
  <2>1. Head(toClient[a]).req \in Requests /\ toClient' \in [Agents -> Seq(ToClient)]
    BY <1>23, ReadsType DEF ReceiveResultAck, ToClient
  <2>2. AcknowledgeResult(remote[a], Head(toClient[a]).req) \in RemoteQueues
    BY <2>1, AcknowledgeResultType DEF ExtensionType
  <2> QED BY <1>23, <2>1, <2>2 DEF ReceiveResultAck, dbVars, brokerVars,
               DatabaseType, BrokerType, ExtensionType, NetworkType
<1>24. ASSUME NEW a \in Agents, ReceiveRemoved(a) PROVE TypeOK'
  <2>1. toClient' \in [Agents -> Seq(ToClient)]
    BY <1>24, ReadsType DEF ReceiveRemoved
  <2> QED BY <1>24, <2>1, EmptyQueueType DEF ReceiveRemoved, dbVars, brokerVars,
               DatabaseType, BrokerType, ExtensionType, NetworkType
<1>25. ASSUME NEW a \in Agents, NEW ok \in BOOLEAN, Settle(a, ok) PROVE TypeOK'
  <2> DEFINE result == [req |-> remote[a].active, ok |-> ok]
             q == CompleteActive(remote[a], result)
  <2>1. result \in Results
    BY <1>25 DEF Settle, Results, ExtensionType, RemoteQueues
  <2>2. q \in RemoteQueues
    <3> HIDE DEF result
    <3> QED BY <2>1, CompleteActiveType DEF ExtensionType
  <2>3. PICK idle \in BOOLEAN : TryStartNext(a, q, idle)
    BY <1>25 DEF Settle
  <2>4. Flush(a, q)
    BY <1>25 DEF Settle
  <2> HIDE DEF q
  <2>5. remote' \in [Agents -> RemoteQueues] /\ runs' \in [Requests -> Nat]
    BY <2>2, <2>3, TryStartNextType
  <2>6. toBroker' \in [Agents -> Seq(ToBroker)]
    BY <2>2, <2>4, FlushType
  <2> QED BY <1>25, <2>5, <2>6 DEF Settle, dbVars, brokerVars,
               DatabaseType, BrokerType, ExtensionType, NetworkType
<1>26. ASSUME NEW a \in Agents, SettleLocal(a) PROVE TypeOK'
  <2>1. remote' \in [Agents -> RemoteQueues] /\ runs' \in [Requests -> Nat]
    BY <1>26, TryStartNextType DEF SettleLocal, ExtensionType
  <2> QED BY <1>26, <2>1 DEF SettleLocal, dbVars, brokerVars,
               DatabaseType, BrokerType, ExtensionType, NetworkType
<1>27. ASSUME NEW a \in Agents, RetryResults(a) PROVE TypeOK'
  <2>1. toBroker' \in [Agents -> Seq(ToBroker)]
    BY <1>27, FlushType DEF RetryResults, ExtensionType
  <2> QED BY <1>27, <2>1 DEF RetryResults, dbVars, brokerVars, clientVars,
               DatabaseType, BrokerType, ExtensionType, NetworkType
<1>28. ASSUME NEW a \in Agents, NEW r \in Requests, NEW d \in {"approve", "reject"},
              Decide(a, r, d)
       PROVE  TypeOK'
  <2>1. [type |-> d, req |-> r] \in ToBroker
    BY DEF ToBroker
  <2>2. toBroker' \in [Agents -> Seq(ToBroker)]
    BY <1>28, <2>1, ReplyType DEF Decide
  <2> QED BY <1>28, <2>2 DEF Decide, dbVars, brokerVars, clientVars,
               DatabaseType, BrokerType, ExtensionType, NetworkType
<1>29. ASSUME NEW a \in Agents, LeaveGroup(a) PROVE TypeOK'
  <2>1. [type |-> "leave"] \in ToBroker
    BY DEF ToBroker
  <2>2. toBroker' \in [Agents -> Seq(ToBroker)]
    BY <1>29, <2>1, ReplyType DEF LeaveGroup
  <2>3. faults' \in Nat
    BY <1>29, FaultType DEF LeaveGroup
  <2>4. ExtensionType'
    BY <1>29, EmptyQueueType DEF LeaveGroup, ExtensionType
  <2> QED BY <1>29, <2>2, <2>3, <2>4 DEF LeaveGroup, dbVars, brokerVars,
               DatabaseType, BrokerType, NetworkType
<1>30. ASSUME NEW a \in Agents, Quit(a) PROVE TypeOK'
  <2>1. [type |-> "goodbye"] \in ToBroker
    BY DEF ToBroker
  <2>2. toBroker' \in [Agents -> Seq(ToBroker)]
    BY <1>30, <2>1, ReplyType DEF Quit, NetworkType
  <2>3. ExtensionType'
    BY <1>30, FreshExtensionType DEF Quit, ExtensionType
  <2>4. faults' \in Nat
    BY <1>30, FaultType DEF Quit
  <2>5. DatabaseType' /\ BrokerType'
    BY <1>30 DEF Quit, dbVars, brokerVars, DatabaseType, BrokerType
  <2>6. link' \in [Agents -> Links] /\ toClient' \in [Agents -> Seq(ToClient)]
    BY <1>30, DetachType DEF Quit, NetworkType
  <2> QED BY <2>2, <2>3, <2>4, <2>5, <2>6 DEF NetworkType
<1>31. ASSUME NEW a \in Agents, Crash(a) PROVE TypeOK'
  <2>1. ExtensionType'
    BY <1>31, FreshExtensionType DEF Crash, ExtensionType
  <2>2. faults' \in Nat
    BY <1>31, FaultType DEF Crash
  <2>3. DatabaseType' /\ BrokerType'
    BY <1>31 DEF Crash, dbVars, brokerVars, DatabaseType, BrokerType
  <2>4. link' \in [Agents -> Links] /\ toClient' \in [Agents -> Seq(ToClient)]
    BY <1>31, DetachType DEF Crash, NetworkType
  <2> QED BY <1>31, <2>1, <2>2, <2>3, <2>4 DEF Crash, NetworkType
<1>32. CASE UNCHANGED vars
  BY <1>32 DEF vars, dbVars, brokerVars, clientVars,
               DatabaseType, BrokerType, ExtensionType, NetworkType
<1> HIDE DEF TypeOK
<1> QED
  BY <1>1, <1>2, <1>3, <1>4, <1>5, <1>7, <1>8, <1>9, <1>10, <1>11, <1>12, <1>14, <1>15,
     <1>16, <1>17, <1>18, <1>19, <1>20, <1>21, <1>22, <1>23, <1>24, <1>25, <1>26, <1>27,
     <1>28, <1>29, <1>30, <1>31, <1>32
     DEF Next, BrokerReads, ExtensionReads, AgentSettles

\* Rows, maps, extensions and channels keep their types, whatever the
\* interleaving, the faults and the instance.
THEOREM TypeCorrect == Spec => []TypeOK
  BY InitType, NextType, PTL DEF Spec

------------------------------------------------------------------------------
(* What a step can do to the rows: six cases, from which the properties that  *)
(* speak of rows and answers follow.                                          *)

AskRows(m) ==
  /\ \A a \in Agents : reqStatus[<<m, a>>] = "none"
  /\ \A r \in Requests :
       IF MessageOf(r) = m
       THEN reqStatus'[r] \in {"none", "pending", "awaiting_approval", "blocked", "failed"}
       ELSE reqStatus'[r] = reqStatus[r]
  /\ answers' = answers

AcknowledgeRow(r) == /\ reqStatus[r] = "pending"
                     /\ reqStatus' = [reqStatus EXCEPT ![r] = "delivered"]
                     /\ answers' = answers

ApproveRow(r) == /\ reqStatus[r] = "awaiting_approval"
                 /\ reqStatus' = [reqStatus EXCEPT ![r] = "pending"]
                 /\ answers' = answers

AnswerRow(r) == /\ reqStatus[r] \in {"pending", "delivered"}
                /\ reqStatus' = [reqStatus EXCEPT ![r] = "completed"]
                /\ answers' = [answers EXCEPT ![r] = @ + 1]

RefuseRows(S) ==
  /\ \A r \in S : reqStatus[r] \in Active /\ reqStatus'[r] \in Terminal \ {"completed"}
  /\ \A r \in Requests \ S : reqStatus'[r] = reqStatus[r]
  /\ answers' = answers

RowStep ==
  \/ UNCHANGED <<reqStatus, answers>>
  \/ \E m \in Messages : AskRows(m)
  \/ \E r \in Requests : AcknowledgeRow(r) \/ ApproveRow(r) \/ AnswerRow(r)
  \/ \E S \in SUBSET Requests : RefuseRows(S)

\* SetStatus on one request that exists.
LEMMA SetOneStatus ==
  ASSUME DatabaseType, NEW r \in Requests, NEW st, SetStatus({r}, [x \in {r} |-> st])
  PROVE  reqStatus' = [reqStatus EXCEPT ![r] = st]
  BY DEF SetStatus, DatabaseType

LEMMA FailedRows ==
  ASSUME TypeOK, NEW a \in Agents, FailRequestsForTarget(a), answers' = answers
  PROVE  RowStep
<1> DEFINE S == EntriesOf(a, session[a])
           T == {r \in S : reqStatus[r] \in Active}
           new == [r \in S |-> IF pending[r].state = "awaiting_approval"
                               THEN "invalid" ELSE "failed"]
<1>1. T \in SUBSET Requests /\ T \subseteq S
  BY DEF EntriesOf
<1>2. SetStatus(T, new)
  BY DEF FailRequestsForTarget
<1>3. reqStatus' = [r \in Requests |-> IF r \in T THEN new[r] ELSE reqStatus[r]]
  <2> HIDE DEF new, T
  <2> QED BY <1>2 DEF SetStatus
<1>4. \A r \in T : reqStatus'[r] \in Terminal \ {"completed"}
  BY <1>1, <1>3 DEF Terminal
<1>5. RefuseRows(T)
  <2> HIDE DEF new
  <2> QED BY <1>1, <1>3, <1>4 DEF RefuseRows
<1> QED BY <1>1, <1>5 DEF RowStep

LEMMA NextRows == TypeOK /\ [Next]_vars => RowStep
<1> SUFFICES ASSUME TypeOK, [Next]_vars PROVE RowStep
  OBVIOUS
<1>0. DatabaseType /\ NetworkType
  BY DEF TypeOK
<1>1. ASSUME NEW m \in Messages, ChatSend(m) PROVE RowStep
  <2>1. PICK T \in SUBSET Agents, hasTask \in BOOLEAN : \E out \in [T -> RequestStatus] :
          (\A a \in T : out[a] \in Outcomes(a, hasTask)) /\ AddressTargets(m, T, out)
    BY <1>1 DEF ChatSend
  <2>2. PICK out \in [T -> RequestStatus] :
          (\A a \in T : out[a] \in Outcomes(a, hasTask)) /\ AddressTargets(m, T, out)
    BY <2>1
  <2>3. \A a \in Agents : reqStatus[<<m, a>>] = "none"
    BY <1>1 DEF ChatSend, Asked
  <2>4. \A r \in Requests : TargetOf(r) \in Agents /\ r = <<MessageOf(r), TargetOf(r)>>
    BY DEF Requests, TargetOf, MessageOf
  <2>5. reqStatus' = [r \in Requests |-> IF MessageOf(r) = m /\ TargetOf(r) \in T
                                         THEN out[TargetOf(r)] ELSE reqStatus[r]]
    BY <2>2 DEF AddressTargets
  <2>6. \A a \in T : out[a] \in {"pending", "awaiting_approval", "blocked", "failed"}
    BY <2>2 DEF Outcomes
  <2>7. AskRows(m)
    BY <1>1, <2>3, <2>4, <2>5, <2>6 DEF AskRows, ChatSend
  <2> QED BY <2>7 DEF RowStep
<1>2. ASSUME NEW a \in Agents, HandleDeliverAck(a) PROVE RowStep
  <2> DEFINE r == Head(toBroker[a]).req
             new == IF reqStatus[r] = "pending" THEN "delivered" ELSE reqStatus[r]
  <2>1. r \in Requests
    BY <1>0, <1>2, ArrivesType DEF HandleDeliverAck, ToBroker
  <2>2. \/ SetStatus({r}, [x \in {r} |-> new])
        \/ UNCHANGED reqStatus
    BY <1>2 DEF HandleDeliverAck
  <2>3. \/ reqStatus' = [reqStatus EXCEPT ![r] = new]
        \/ UNCHANGED reqStatus
    <3> HIDE DEF new, r
    <3> QED BY <1>0, <2>1, <2>2, SetOneStatus
  <2>4. answers' = answers
    BY <1>2 DEF HandleDeliverAck
  <2> QED
    <3> HIDE DEF r
    <3> QED BY <1>0, <2>1, <2>3, <2>4 DEF RowStep, AcknowledgeRow, DatabaseType
<1>3. ASSUME NEW a \in Agents, HandleApprove(a) PROVE RowStep
  <2> DEFINE r == Head(toBroker[a]).req
  <2>1. r \in Requests
    BY <1>0, <1>3, ArrivesType DEF HandleApprove, ToBroker
  <2>2. \/ Decidable(a, r) /\ SetStatus({r}, [x \in {r} |-> "pending"])
        \/ UNCHANGED reqStatus
    BY <1>3 DEF HandleApprove
  <2>3. answers' = answers
    BY <1>3 DEF HandleApprove
  <2> QED
    <3> HIDE DEF r
    <3> QED BY <1>0, <2>1, <2>2, <2>3, SetOneStatus DEF RowStep, ApproveRow, Decidable
<1>4. ASSUME NEW a \in Agents, HandleReject(a) PROVE RowStep
  <2> DEFINE r == Head(toBroker[a]).req
  <2>1. r \in Requests
    BY <1>0, <1>4, ArrivesType DEF HandleReject, ToBroker
  <2>2. \/ Decidable(a, r) /\ SetStatus({r}, [x \in {r} |-> "rejected"])
        \/ UNCHANGED reqStatus
    BY <1>4 DEF HandleReject
  <2>3. answers' = answers
    BY <1>4 DEF HandleReject
  <2> HIDE DEF r
  <2>4. CASE Decidable(a, r) /\ SetStatus({r}, [x \in {r} |-> "rejected"])
    <3>1. reqStatus' = [reqStatus EXCEPT ![r] = "rejected"] /\ reqStatus[r] = "awaiting_approval"
      BY <1>0, <2>1, <2>4, SetOneStatus DEF Decidable
    <3>2. RefuseRows({r})
      BY <1>0, <2>1, <2>3, <3>1 DEF RefuseRows, Active, Terminal, DatabaseType
    <3> QED BY <2>1, <3>2 DEF RowStep
  <2> QED BY <2>2, <2>3, <2>4 DEF RowStep
<1>5. ASSUME NEW a \in Agents, HandleResult(a) PROVE RowStep
  <2> DEFINE r == Head(toBroker[a]).req
             ok == Head(toBroker[a]).ok
  <2>1. r \in Requests
    BY <1>0, <1>5, ArrivesType DEF HandleResult, ToBroker
  <2>2. \/ reqStatus[r] \in ClosableFrom(ok) /\ CloseByResult(a, r, ok)
        \/ UNCHANGED dbVars
    BY <1>5 DEF HandleResult
  <2> HIDE DEF r, ok
  <2>3. CASE reqStatus[r] \in ClosableFrom(ok) /\ CloseByResult(a, r, ok)
    <3>1. reqStatus' = [reqStatus EXCEPT ![r] = IF ok THEN "completed" ELSE "failed"]
      BY <1>0, <2>1, <2>3, SetOneStatus DEF CloseByResult
    <3>2. CASE ok
      <4>1. AnswerRow(r)
        BY <2>3, <3>1, <3>2 DEF AnswerRow, ClosableFrom, CloseByResult
      <4> QED BY <2>1, <4>1 DEF RowStep
    <3>3. CASE ~ok
      <4>1. RefuseRows({r})
        BY <1>0, <2>1, <2>3, <3>1, <3>3
           DEF RefuseRows, Terminal, DatabaseType, ClosableFrom, CloseByResult
      <4> QED BY <2>1, <4>1 DEF RowStep
    <3> QED BY <3>2, <3>3
  <2> QED BY <2>2, <2>3 DEF RowStep, dbVars
<1>6. ASSUME NEW a \in Agents, LeaveClientGroup(a), answers' = answers PROVE RowStep
  BY <1>6, FailedRows DEF LeaveClientGroup, RowStep
<1>7. ASSUME NEW a \in Agents, HandleLeave(a) PROVE RowStep
  BY <1>6, <1>7 DEF HandleLeave
<1>8. ASSUME NEW a \in Agents, HandleGoodbye(a) PROVE RowStep
  BY <1>6, <1>8 DEF HandleGoodbye
<1>9. ASSUME NEW a \in Agents, GraceExpires(a) PROVE RowStep
  BY <1>9, FailedRows DEF GraceExpires
<1>10. CASE BrokerStarts
  <2> DEFINE S == {r \in Requests : reqStatus[r] \in Active}
  <2>1. RefuseRows(S)
    BY <1>0, <1>10 DEF RefuseRows, BrokerStarts, InterruptedStatus, Active, Terminal
  <2> QED BY <2>1 DEF RowStep
<1>11. ASSUME UNCHANGED dbVars PROVE RowStep
  BY <1>11 DEF dbVars, RowStep
<1>12. CASE BrokerStops
  BY <1>11, <1>12 DEF BrokerStops
<1>13. ASSUME NEW a \in Agents,
              \/ HandleUnexpectedDisconnect(a) \/ RemoveMember(a) \/ DropCredentials(a)
              \/ Connect(a) \/ HelloLost(a) \/ LinkBreak(a) \/ JoinGroup(a)
       PROVE  RowStep
  BY <1>11, <1>13 DEF HandleUnexpectedDisconnect, RemoveMember, DropCredentials, Connect,
                      HelloLost, LinkBreak, JoinGroup
<1>14. ASSUME NEW a \in Agents, ExtensionReads(a) PROVE RowStep
  BY <1>11, <1>14 DEF ExtensionReads, ReceiveDelivery, ReceiveApproval, ReceiveSettled,
                      ReceiveResultAck, ReceiveRemoved
<1>15. ASSUME NEW a \in Agents,
              \/ AgentSettles(a) \/ RetryResults(a) \/ LeaveGroup(a) \/ Quit(a) \/ Crash(a)
              \/ \E r \in Requests : Decide(a, r, "approve") \/ Decide(a, r, "reject")
       PROVE  RowStep
  BY <1>11, <1>15 DEF AgentSettles, SettleLocal, Settle, RetryResults, LeaveGroup, Quit,
                      Crash, Decide
<1>16. CASE UNCHANGED vars
  BY <1>11, <1>16 DEF vars, dbVars
<1> QED
  BY <1>1, <1>2, <1>3, <1>4, <1>5, <1>7, <1>8, <1>9, <1>10, <1>12, <1>13, <1>14, <1>15, <1>16
     DEF Next, BrokerReads

------------------------------------------------------------------------------
(* Rows and answers *)

\* However results are lost, repeated and retried, a request has exactly one
\* public answer if its row is completed and none otherwise.
THEOREM OneAnswer == Spec => []AnsweredOnce
<1>1. Init => AnsweredOnce
  BY DEF Init, AnsweredOnce
<1>2. TypeOK /\ AnsweredOnce /\ RowStep => AnsweredOnce'
  <2> SUFFICES ASSUME TypeOK, AnsweredOnce, RowStep PROVE AnsweredOnce'
    OBVIOUS
  <2>0. \A r \in Requests : r = <<MessageOf(r), TargetOf(r)>> /\ TargetOf(r) \in Agents
    BY DEF Requests, MessageOf, TargetOf
  <2>1. CASE UNCHANGED <<reqStatus, answers>>
    BY <2>1 DEF AnsweredOnce
  <2>2. ASSUME NEW m \in Messages, AskRows(m) PROVE AnsweredOnce'
    BY <2>0, <2>2 DEF AnsweredOnce, AskRows
  <2>3. ASSUME NEW r \in Requests, AcknowledgeRow(r) \/ ApproveRow(r) PROVE AnsweredOnce'
    BY <2>3 DEF AnsweredOnce, AcknowledgeRow, ApproveRow, TypeOK, DatabaseType
  <2>4. ASSUME NEW r \in Requests, AnswerRow(r) PROVE AnsweredOnce'
    BY <2>4 DEF AnsweredOnce, AnswerRow, TypeOK, DatabaseType
  <2>5. ASSUME NEW S \in SUBSET Requests, RefuseRows(S) PROVE AnsweredOnce'
    BY <2>5 DEF AnsweredOnce, RefuseRows, Active, Terminal
  <2> QED BY <2>1, <2>2, <2>3, <2>4, <2>5 DEF RowStep
<1> QED BY <1>1, <1>2, NextRows, TypeCorrect, PTL DEF Spec

LEMMA EndedStays ==
  ASSUME TypeOK, RowStep, NEW r \in Requests, reqStatus[r] \in Terminal
  PROVE  reqStatus'[r] = reqStatus[r]
<1>0. r = <<MessageOf(r), TargetOf(r)>> /\ TargetOf(r) \in Agents
  BY DEF Requests, MessageOf, TargetOf
<1>1. ASSUME NEW m \in Messages, AskRows(m) PROVE reqStatus'[r] = reqStatus[r]
  BY <1>0, <1>1 DEF AskRows, Terminal
<1>2. ASSUME NEW x \in Requests, AcknowledgeRow(x) \/ ApproveRow(x) \/ AnswerRow(x)
      PROVE  reqStatus'[r] = reqStatus[r]
  BY <1>2 DEF AcknowledgeRow, ApproveRow, AnswerRow, TypeOK, DatabaseType, Terminal
<1>3. ASSUME NEW S \in SUBSET Requests, RefuseRows(S) PROVE reqStatus'[r] = reqStatus[r]
  BY <1>3 DEF RefuseRows, Active, Terminal
<1> QED BY <1>1, <1>2, <1>3 DEF RowStep

\* No step, however late, changes the row of a request that has ended.
THEOREM SettledStays == Spec => SettledIsFinal
<1> DEFINE Final == \A r \in Requests : reqStatus[r] \in Terminal => reqStatus'[r] = reqStatus[r]
<1>1. TypeOK /\ [Next]_vars => [Final]_vars
  BY NextRows, EndedStays
<1> QED BY <1>1, TypeCorrect, PTL DEF Spec, SettledIsFinal

------------------------------------------------------------------------------
(* AgentRequests implements RequestPromise *)

LEMMA PhaseOfRow ==
  ASSUME NEW st \in RequestStatus
  PROVE  /\ Phase(st) = "unasked"  <=> st = "none"
         /\ Phase(st) = "waiting"  <=> st = "awaiting_approval"
         /\ Phase(st) = "open"     <=> st \in {"pending", "delivered"}
         /\ Phase(st) = "answered" <=> st = "completed"
         /\ Phase(st) = "refused"  <=> st \in Terminal \ {"completed"}
  BY DEF Phase, RequestStatus, Active, Terminal

\* Whatever the faults, a member sees each request asked once with its message,
\* opened only by the decision it waits for, and ended once, with one public
\* answer or refused.
THEOREM KeepsPromise == Spec => PromiseSpec
<1> DEFINE phase == [r \in Requests |-> Phase(reqStatus[r])]
<1>0. Promise!Requests = Requests
  BY DEF Promise!Requests, Requests
<1>1. Init => Promise!Init
  BY <1>0 DEF Init, Promise!Init, Phase
<1>2. ASSUME TypeOK, TypeOK', RowStep PROVE [Promise!Next]_(Promise!vars)
  <2> USE <1>0
  <2>0. /\ \A r \in Requests : r = <<r[1], r[2]>> /\ r[1] \in Messages /\ r[2] \in Agents
        /\ \A r \in Requests : MessageOf(r) = r[1] /\ TargetOf(r) = r[2]
        /\ \A m \in Messages, a \in Agents : <<m, a>> \in Requests /\ <<m, a>>[1] = m
                                             /\ <<m, a>>[2] = a
    BY DEF Requests, MessageOf, TargetOf
  <2>1. \A r \in Requests : reqStatus[r] \in RequestStatus /\ reqStatus'[r] \in RequestStatus
    BY <1>2 DEF TypeOK, DatabaseType
  <2>2. CASE UNCHANGED <<reqStatus, answers>>
    BY <2>2 DEF Promise!vars
  <2>3. ASSUME NEW m \in Messages, AskRows(m) PROVE Promise!Next
    <3> DEFINE choice == [a \in Agents |-> Phase(reqStatus'[<<m, a>>])]
    <3>1. \A a \in Agents : phase[<<m, a>>] = "unasked"
      BY <2>0, <2>3 DEF AskRows, Phase
    <3>2. \A a \in Agents : reqStatus'[<<m, a>>] \in {"none", "pending", "awaiting_approval", "blocked", "failed"}
      BY <2>0, <2>3 DEF AskRows
    <3>3. choice \in [Agents -> {"unasked", "waiting", "open", "refused"}]
      BY <3>2 DEF Phase
    <3>4. phase' = [r \in Requests |-> IF r[1] = m THEN choice[r[2]] ELSE phase[r]]
      BY <2>0, <2>3 DEF AskRows
    <3>5. answers' = answers
      BY <2>3 DEF AskRows
    <3> HIDE DEF choice
    <3>6. Promise!Ask(m)
      BY <3>1, <3>3, <3>4, <3>5 DEF Promise!Ask
    <3> QED BY <3>6 DEF Promise!Next
  <2>4. ASSUME NEW r \in Requests, AcknowledgeRow(r) PROVE UNCHANGED Promise!vars
    BY <2>1, <2>4 DEF AcknowledgeRow, Promise!vars, Phase, TypeOK, DatabaseType
  <2>5. ASSUME NEW r \in Requests, ApproveRow(r) PROVE Promise!Next
    <3>1. Promise!Approve(r)
      BY <1>2, <2>5 DEF ApproveRow, Promise!Approve, Phase, TypeOK, DatabaseType
    <3> QED BY <3>1 DEF Promise!Next
  <2>6. ASSUME NEW r \in Requests, AnswerRow(r) PROVE Promise!Next
    <3>1. Promise!Answer(r)
      BY <1>2, <2>6 DEF AnswerRow, Promise!Answer, Phase, TypeOK, DatabaseType
    <3> QED BY <3>1 DEF Promise!Next
  <2>7. ASSUME NEW S \in SUBSET Requests, RefuseRows(S) PROVE Promise!Next
    <3>1. \A r \in S : phase[r] \in {"waiting", "open"} /\ phase'[r] = "refused"
      BY <2>1, <2>7, PhaseOfRow DEF RefuseRows, Active
    <3>2. \A r \in Requests \ S : phase'[r] = phase[r]
      BY <2>7 DEF RefuseRows
    <3>3. Promise!Refuse(S)
      BY <2>7, <3>1, <3>2 DEF RefuseRows, Promise!Refuse
    <3> QED BY <3>3 DEF Promise!Next
  <2> QED BY <1>2, <2>2, <2>3, <2>4, <2>5, <2>6, <2>7 DEF RowStep
<1>3. TypeOK /\ TypeOK' /\ [Next]_vars => [Promise!Next]_(Promise!vars)
  BY <1>2, NextRows
<1> QED BY <1>1, <1>3, TypeCorrect, PTL DEF Spec, PromiseSpec, Promise!Spec

------------------------------------------------------------------------------
(* Memory and database *)

LEMMA FailedMatch ==
  ASSUME TypeOK, PendingMatchesRows, up, up', NEW a \in Agents, FailRequestsForTarget(a)
  PROVE  PendingMatchesRows'
<1> DEFINE S == EntriesOf(a, session[a])
           T == {r \in S : reqStatus[r] \in Active}
           new == [r \in S |-> IF pending[r].state = "awaiting_approval"
                               THEN "invalid" ELSE "failed"]
<1>1. T \subseteq S /\ S \in SUBSET Requests
  BY DEF EntriesOf
<1>2. SetStatus(T, new)
  BY DEF FailRequestsForTarget
<1>3. reqStatus' = [r \in Requests |-> IF r \in T THEN new[r] ELSE reqStatus[r]]
  <2> HIDE DEF new, T
  <2> QED BY <1>2 DEF SetStatus
<1>4. pending' = [r \in Requests |-> IF r \in S THEN NoEntry ELSE pending[r]]
  BY DEF FailRequestsForTarget
<1>5. \A r \in S : reqStatus'[r] \notin Active
  BY <1>1, <1>3 DEF Active
<1> HIDE DEF new, S
<1>6. ASSUME NEW r \in Requests PROVE Matching(pending[r], reqStatus[r])'
  <2>1. CASE r \in S
    BY <1>4, <1>5, <2>1 DEF Matching, NoEntry
  <2>2. CASE r \notin S
    BY <1>1, <1>3, <1>4, <2>2 DEF Matching, PendingMatchesRows
  <2> QED BY <2>1, <2>2
<1> QED BY <1>6 DEF PendingMatchesRows

LEMMA NextMatch == TypeOK /\ PendingMatchesRows /\ [Next]_vars => PendingMatchesRows'
<1> SUFFICES ASSUME TypeOK, PendingMatchesRows, [Next]_vars PROVE PendingMatchesRows'
  OBVIOUS
<1>0. /\ DatabaseType /\ NetworkType /\ pending \in [Requests -> Entries]
      /\ \A r \in Requests : up => Matching(pending[r], reqStatus[r])
  BY DEF TypeOK, BrokerType, PendingMatchesRows
<1>1. ASSUME NEW m \in Messages, ChatSend(m) PROVE PendingMatchesRows'
  <2>1. PICK T \in SUBSET Agents, hasTask \in BOOLEAN : \E out \in [T -> RequestStatus] :
          (\A a \in T : out[a] \in Outcomes(a, hasTask)) /\ AddressTargets(m, T, out)
    BY <1>1 DEF ChatSend
  <2>2. PICK out \in [T -> RequestStatus] :
          (\A a \in T : out[a] \in Outcomes(a, hasTask)) /\ AddressTargets(m, T, out)
    BY <2>1
  <2>3. up /\ up' /\ \A a \in Agents : reqStatus[<<m, a>>] = "none"
    BY <1>1 DEF ChatSend, Asked
  <2>4. \A a \in T : out[a] \in {"pending", "awaiting_approval", "blocked", "failed"}
    BY <2>2 DEF Outcomes
  <2>5. ASSUME NEW r \in Requests PROVE Matching(pending[r], reqStatus[r])'
    <3>1. r = <<MessageOf(r), TargetOf(r)>> /\ TargetOf(r) \in Agents
      BY DEF Requests, MessageOf, TargetOf
    <3> DEFINE asked == MessageOf(r) = m /\ TargetOf(r) \in T
               o == out[TargetOf(r)]
               opened == asked /\ o \in {"pending", "awaiting_approval"}
    <3>2. /\ reqStatus'[r] = IF asked THEN o ELSE reqStatus[r]
          /\ pending'[r] = IF opened
                           THEN Entry(IF o = "pending" THEN "delivering" ELSE "awaiting_approval",
                                      session[TargetOf(r)])
                           ELSE pending[r]
      BY <2>2 DEF AddressTargets
    <3>3. asked => o \in {"pending", "awaiting_approval", "blocked", "failed"}
                   /\ reqStatus[r] = "none"
      BY <2>3, <2>4, <3>1
    <3>4. Matching(pending[r], reqStatus[r]) /\ pending[r].state \in {"none", "awaiting_approval", "delivering"}
      BY <1>0, <2>3 DEF Entries
    <3> HIDE DEF asked, o
    <3>5. CASE opened
      <4>1. CASE o = "pending"
        BY <3>2, <3>5, <4>1 DEF Matching, Entry
      <4>2. CASE o = "awaiting_approval"
        BY <3>2, <3>5, <4>2 DEF Matching, Entry
      <4> QED BY <3>5, <4>1, <4>2
    <3>6. CASE ~opened
      BY <3>2, <3>3, <3>4, <3>6 DEF Matching, Active
    <3> QED BY <3>5, <3>6
  <2> QED BY <2>3, <2>5 DEF PendingMatchesRows
<1>2. ASSUME NEW r \in Requests, NEW st \in RequestStatus, NEW e \in Entries, up, up',
             reqStatus' = [reqStatus EXCEPT ![r] = st], pending' = [pending EXCEPT ![r] = e],
             Matching(e, st)
      PROVE  PendingMatchesRows'
  BY <1>0, <1>2 DEF Matching, PendingMatchesRows, DatabaseType
<1>3. ASSUME NEW a \in Agents, HandleDeliverAck(a) PROVE PendingMatchesRows'
  <2> DEFINE r == Head(toBroker[a]).req
             st == IF reqStatus[r] = "pending" THEN "delivered" ELSE reqStatus[r]
             e == [pending[r] EXCEPT !.acked = TRUE]
  <2>1. r \in Requests /\ up /\ up'
    BY <1>0, <1>3, ArrivesType DEF HandleDeliverAck, ToBroker, Arrives
  <2>2. CASE pending[r].state # "none" /\ pending[r].client = session[a]
    <3>1. SetStatus({r}, [x \in {r} |-> st]) /\ pending' = [pending EXCEPT ![r].acked = TRUE]
      BY <1>3, <2>2 DEF HandleDeliverAck
    <3>2. reqStatus' = [reqStatus EXCEPT ![r] = st]
      <4> HIDE DEF r, st
      <4> QED BY <1>0, <2>1, <3>1, SetOneStatus
    <3>3. pending' = [pending EXCEPT ![r] = e]
      BY <3>1
    <3>4. e \in Entries /\ e.state = pending[r].state
      <4> HIDE DEF r
      <4> QED BY <1>0, <2>1 DEF Entries
    <3>5. st \in RequestStatus
      <4> HIDE DEF r
      <4> QED BY <1>0, <2>1 DEF DatabaseType, RequestStatus, Active
    <3>6. Matching(e, st)
      <4>1. Matching(pending[r], reqStatus[r]) /\ pending[r].state \in {"none", "awaiting_approval", "delivering"}
        <5> HIDE DEF r
        <5> QED BY <1>0, <2>1 DEF Entries
      <4> HIDE DEF r, e
      <4> QED BY <2>2, <3>4, <4>1 DEF Matching
    <3> HIDE DEF r, st, e
    <3> QED BY <1>2, <2>1, <3>2, <3>3, <3>4, <3>5, <3>6
  <2>3. CASE ~ (pending[r].state # "none" /\ pending[r].client = session[a])
    BY <1>3, <2>3 DEF HandleDeliverAck, PendingMatchesRows, Matching
  <2> QED BY <2>2, <2>3
<1>4. ASSUME NEW a \in Agents, HandleApprove(a) PROVE PendingMatchesRows'
  <2> DEFINE r == Head(toBroker[a]).req
             e == [pending[r] EXCEPT !.state = "delivering"]
  <2>1. r \in Requests /\ up /\ up'
    BY <1>0, <1>4, ArrivesType DEF HandleApprove, ToBroker, Arrives
  <2>2. \/ /\ SetStatus({r}, [x \in {r} |-> "pending"])
           /\ pending' = [pending EXCEPT ![r] = e]
        \/ UNCHANGED <<reqStatus, pending>>
    BY <1>4 DEF HandleApprove
  <2>3. e \in Entries /\ e.state = "delivering" /\ "pending" \in RequestStatus
    <3> HIDE DEF r
    <3> QED BY <1>0, <2>1 DEF Entries, RequestStatus, Active
  <2>4. CASE UNCHANGED <<reqStatus, pending>>
    BY <2>1, <2>4 DEF PendingMatchesRows, Matching
  <2>5. CASE SetStatus({r}, [x \in {r} |-> "pending"]) /\ pending' = [pending EXCEPT ![r] = e]
    <3> HIDE DEF r, e
    <3>1. reqStatus' = [reqStatus EXCEPT ![r] = "pending"]
      BY <1>0, <2>1, <2>5, SetOneStatus
    <3>2. Matching(e, "pending")
      BY <2>3 DEF Matching
    <3> QED BY <1>2, <2>1, <2>3, <2>5, <3>1, <3>2
  <2> QED BY <2>2, <2>4, <2>5
<1>5. NoEntry \in Entries /\ NoEntry.state = "none"
  BY DEF NoEntry, Entries
<1>6. ASSUME NEW a \in Agents, HandleReject(a) PROVE PendingMatchesRows'
  <2> DEFINE r == Head(toBroker[a]).req
  <2>1. r \in Requests /\ up /\ up'
    BY <1>0, <1>6, ArrivesType DEF HandleReject, ToBroker, Arrives
  <2>2. \/ /\ SetStatus({r}, [x \in {r} |-> "rejected"])
           /\ pending' = [pending EXCEPT ![r] = NoEntry]
        \/ UNCHANGED <<reqStatus, pending>>
    BY <1>6 DEF HandleReject
  <2>3. CASE UNCHANGED <<reqStatus, pending>>
    BY <2>1, <2>3 DEF PendingMatchesRows, Matching
  <2>4. CASE SetStatus({r}, [x \in {r} |-> "rejected"]) /\ pending' = [pending EXCEPT ![r] = NoEntry]
    <3> HIDE DEF r
    <3>1. reqStatus' = [reqStatus EXCEPT ![r] = "rejected"]
      BY <1>0, <2>1, <2>4, SetOneStatus
    <3>2. "rejected" \in RequestStatus \ Active
      BY DEF RequestStatus, Terminal, Active
    <3>3. Matching(NoEntry, "rejected")
      BY <1>5, <3>2 DEF Matching
    <3> QED BY <1>2, <1>5, <2>1, <2>4, <3>1, <3>2, <3>3
  <2> QED BY <2>2, <2>3, <2>4
<1>7. ASSUME NEW a \in Agents, HandleResult(a) PROVE PendingMatchesRows'
  <2> DEFINE r == Head(toBroker[a]).req
             ok == Head(toBroker[a]).ok
             st == IF ok THEN "completed" ELSE "failed"
  <2>1. r \in Requests /\ up /\ up'
    BY <1>0, <1>7, ArrivesType DEF HandleResult, ToBroker, Arrives
  <2>2. \/ CloseByResult(a, r, ok)
        \/ UNCHANGED <<reqStatus, pending>>
    BY <1>7 DEF HandleResult, dbVars
  <2>3. CASE UNCHANGED <<reqStatus, pending>>
    BY <2>1, <2>3 DEF PendingMatchesRows, Matching
  <2>4. CASE CloseByResult(a, r, ok)
    <3>1. SetStatus({r}, [x \in {r} |-> st]) /\ pending' = [pending EXCEPT ![r] = NoEntry]
      BY <2>4 DEF CloseByResult
    <3>2. st \in RequestStatus \ Active
      BY DEF RequestStatus, Terminal, Active
    <3> HIDE DEF r, st
    <3>3. reqStatus' = [reqStatus EXCEPT ![r] = st]
      BY <1>0, <2>1, <3>1, SetOneStatus
    <3>4. Matching(NoEntry, st)
      BY <1>5, <3>2 DEF Matching
    <3> QED BY <1>2, <1>5, <2>1, <3>1, <3>2, <3>3, <3>4
  <2> QED BY <2>2, <2>3, <2>4
<1>8. ASSUME UNCHANGED <<up, pending, reqStatus>> PROVE PendingMatchesRows'
  BY <1>8 DEF PendingMatchesRows, Matching
<1>9. ASSUME NEW a \in Agents, up, up' = up, LeaveClientGroup(a) PROVE PendingMatchesRows'
  BY <1>8, <1>9, FailedMatch DEF LeaveClientGroup
<1>10. ASSUME NEW a \in Agents, HandleLeave(a) \/ HandleGoodbye(a) PROVE PendingMatchesRows'
  BY <1>9, <1>10 DEF HandleLeave, HandleGoodbye, Arrives
<1>11. ASSUME NEW a \in Agents, GraceExpires(a) PROVE PendingMatchesRows'
  BY <1>11, FailedMatch DEF GraceExpires
<1>12. CASE BrokerStops
  BY <1>12 DEF BrokerStops, PendingMatchesRows
<1>13. CASE BrokerStarts
  <2>1. \A r \in Requests : pending'[r].state = "none" /\ reqStatus'[r] \notin Active
    BY <1>0, <1>5, <1>13
       DEF BrokerStarts, PendingMatchesRows, InterruptedStatus, Active, DatabaseType
  <2> QED BY <1>13, <2>1 DEF BrokerStarts, PendingMatchesRows, Matching
<1>14. ASSUME NEW a \in Agents,
              \/ HandleUnexpectedDisconnect(a) \/ RemoveMember(a) \/ DropCredentials(a)
              \/ Connect(a) \/ HelloLost(a) \/ LinkBreak(a) \/ JoinGroup(a)
       PROVE  PendingMatchesRows'
  BY <1>8, <1>14 DEF HandleUnexpectedDisconnect, RemoveMember, DropCredentials, Connect,
                     HelloLost, LinkBreak, JoinGroup, dbVars, brokerVars
<1>15. ASSUME NEW a \in Agents, ExtensionReads(a) PROVE PendingMatchesRows'
  BY <1>8, <1>15 DEF ExtensionReads, ReceiveDelivery, ReceiveApproval, ReceiveSettled,
                     ReceiveResultAck, ReceiveRemoved, dbVars, brokerVars
<1>16. ASSUME NEW a \in Agents,
              \/ AgentSettles(a) \/ RetryResults(a) \/ LeaveGroup(a) \/ Quit(a) \/ Crash(a)
              \/ \E r \in Requests : Decide(a, r, "approve") \/ Decide(a, r, "reject")
       PROVE  PendingMatchesRows'
  BY <1>8, <1>16 DEF AgentSettles, SettleLocal, Settle, RetryResults, LeaveGroup, Quit,
                     Crash, Decide, dbVars, brokerVars
<1>17. CASE UNCHANGED vars
  BY <1>8, <1>17 DEF vars, dbVars, brokerVars
<1> QED
  BY <1>1, <1>3, <1>4, <1>6, <1>7, <1>10, <1>11, <1>12, <1>13, <1>14, <1>15, <1>16, <1>17
     DEF Next, BrokerReads

\* The in-memory entries that the broker answers from never disagree with the
\* rows it would recover from.
THEOREM MemoryMatchesDatabase == Spec => []PendingMatchesRows
<1>1. Init => PendingMatchesRows
  <2>1. Matching(NoEntry, "none")
    BY DEF Matching, NoEntry, Active
  <2> QED BY <2>1 DEF Init, PendingMatchesRows
<1> QED BY <1>1, NextMatch, TypeCorrect, PTL DEF Spec

------------------------------------------------------------------------------
(* Sequences seen as what is on its way, and a RemoteQueue as what it holds. *)

On(s) == {s[i] : i \in DOMAIN s}

LEMMA OnEmpty == On(<<>>) = {}
  BY DEF On

LEMMA OnAppend ==
  ASSUME NEW S, NEW s \in Seq(S), NEW x \in S
  PROVE  On(Append(s, x)) = On(s) \cup {x}
<1>1. /\ DOMAIN Append(s, x) = 1..(Len(s) + 1)
      /\ DOMAIN s = 1..Len(s) /\ Len(s) \in Nat
      /\ \A i \in 1..Len(s) : Append(s, x)[i] = s[i]
      /\ Append(s, x)[Len(s) + 1] = x
  OBVIOUS
<1>2. ASSUME NEW y \in On(Append(s, x)) PROVE y \in On(s) \cup {x}
  <2>1. PICK i \in 1..(Len(s) + 1) : y = Append(s, x)[i]
    BY <1>1, <1>2 DEF On
  <2>2. i \in 1..Len(s) \/ i = Len(s) + 1
    BY <1>1
  <2> QED BY <1>1, <2>1, <2>2 DEF On
<1>3. ASSUME NEW y \in On(s) \cup {x} PROVE y \in On(Append(s, x))
  <2>1. CASE y = x
    <3>1. Len(s) + 1 \in 1..(Len(s) + 1)
      BY <1>1
    <3> QED BY <1>1, <2>1, <3>1 DEF On
  <2>2. CASE y \in On(s)
    <3>1. PICK i \in 1..Len(s) : y = s[i]
      BY <1>1, <2>2 DEF On
    <3>2. i \in 1..(Len(s) + 1)
      BY <1>1
    <3> QED BY <1>1, <3>1, <3>2 DEF On
  <2> QED BY <1>3, <2>1, <2>2
<1> QED BY <1>2, <1>3

LEMMA OnTail ==
  ASSUME NEW S, NEW s \in Seq(S), s # <<>>
  PROVE  /\ Head(s) \in On(s)
         /\ On(s) = On(Tail(s)) \cup {Head(s)}
<1>1. /\ Len(s) \in Nat \ {0} /\ DOMAIN s = 1..Len(s)
      /\ Head(s) = s[1]
      /\ DOMAIN Tail(s) = 1..(Len(s) - 1)
      /\ \A i \in 1..(Len(s) - 1) : Tail(s)[i] = s[i + 1]
  OBVIOUS
<1>2. 1 \in DOMAIN s
  BY <1>1
<1>3. ASSUME NEW y \in On(Tail(s)) PROVE y \in On(s)
  <2>1. PICK i \in 1..(Len(s) - 1) : y = s[i + 1]
    BY <1>1, <1>3 DEF On
  <2>2. i + 1 \in 1..Len(s)
    BY <1>1
  <2> QED BY <1>1, <2>1, <2>2 DEF On
<1>4. ASSUME NEW y \in On(s), y # Head(s) PROVE y \in On(Tail(s))
  <2>1. PICK i \in 1..Len(s) : y = s[i]
    BY <1>1, <1>4 DEF On
  <2>2. i # 1
    BY <1>1, <1>4, <2>1
  <2>3. i - 1 \in 1..(Len(s) - 1) /\ (i - 1) + 1 = i
    BY <1>1, <2>2
  <2>4. Tail(s)[i - 1] = s[i]
    BY <1>1, <2>3
  <2> QED BY <1>1, <2>1, <2>3, <2>4 DEF On
<1>5. Head(s) \in On(s)
  BY <1>1, <1>2 DEF On
<1> QED BY <1>3, <1>4, <1>5

LEMMA OnConcat ==
  ASSUME NEW S, NEW s \in Seq(S), NEW t \in Seq(S)
  PROVE  On(s \o t) = On(s) \cup On(t)
<1>1. /\ Len(s) \in Nat /\ Len(t) \in Nat
      /\ DOMAIN s = 1..Len(s) /\ DOMAIN t = 1..Len(t)
      /\ DOMAIN (s \o t) = 1..(Len(s) + Len(t))
      /\ \A i \in 1..(Len(s) + Len(t)) :
           (s \o t)[i] = IF i <= Len(s) THEN s[i] ELSE t[i - Len(s)]
  OBVIOUS
<1>2. ASSUME NEW y \in On(s \o t) PROVE y \in On(s) \cup On(t)
  <2>1. PICK i \in 1..(Len(s) + Len(t)) : y = (s \o t)[i]
    BY <1>1, <1>2 DEF On
  <2>2. CASE i <= Len(s)
    <3>1. i \in 1..Len(s) /\ y = s[i]
      BY <1>1, <2>1, <2>2
    <3> QED BY <1>1, <3>1 DEF On
  <2>3. CASE ~(i <= Len(s))
    <3>1. i - Len(s) \in 1..Len(t) /\ y = t[i - Len(s)]
      BY <1>1, <2>1, <2>3
    <3> QED BY <1>1, <3>1 DEF On
  <2> QED BY <2>2, <2>3
<1>3. ASSUME NEW y \in On(s) PROVE y \in On(s \o t)
  <2>1. PICK i \in 1..Len(s) : y = s[i]
    BY <1>1, <1>3 DEF On
  <2>2. i \in 1..(Len(s) + Len(t)) /\ (s \o t)[i] = s[i]
    BY <1>1
  <2> QED BY <1>1, <2>1, <2>2 DEF On
<1>4. ASSUME NEW y \in On(t) PROVE y \in On(s \o t)
  <2>1. PICK i \in 1..Len(t) : y = t[i]
    BY <1>1, <1>4 DEF On
  <2>2. Len(s) + i \in 1..(Len(s) + Len(t)) /\ ~(Len(s) + i <= Len(s)) /\ (Len(s) + i) - Len(s) = i
    BY <1>1
  <2>3. (s \o t)[Len(s) + i] = t[i]
    BY <1>1, <2>2
  <2> QED BY <1>1, <2>1, <2>2, <2>3 DEF On
<1> QED BY <1>2, <1>3, <1>4

\* No request stands in the work list twice.
NoRepeats(s) == \A i, j \in DOMAIN s : s[i] = s[j] => i = j

LEMMA NoRepeatsAppend ==
  ASSUME NEW S, NEW s \in Seq(S), NEW x \in S, NoRepeats(s), x \notin On(s)
  PROVE  NoRepeats(Append(s, x))
<1>1. /\ DOMAIN Append(s, x) = 1..(Len(s) + 1)
      /\ DOMAIN s = 1..Len(s) /\ Len(s) \in Nat
      /\ \A i \in 1..Len(s) : Append(s, x)[i] = s[i]
      /\ Append(s, x)[Len(s) + 1] = x
  OBVIOUS
<1>2. \A i \in 1..Len(s) : s[i] # x
  BY <1>1 DEF On
<1>3. ASSUME NEW i \in 1..(Len(s) + 1), NEW j \in 1..(Len(s) + 1),
             Append(s, x)[i] = Append(s, x)[j]
      PROVE  i = j
  <2>1. (i \in 1..Len(s) \/ i = Len(s) + 1) /\ (j \in 1..Len(s) \/ j = Len(s) + 1)
    BY <1>1
  <2> QED BY <1>1, <1>2, <1>3, <2>1 DEF NoRepeats
<1> QED BY <1>1, <1>3 DEF NoRepeats

LEMMA NoRepeatsTail ==
  ASSUME NEW S, NEW s \in Seq(S), s # <<>>, NoRepeats(s)
  PROVE  NoRepeats(Tail(s)) /\ Head(s) \notin On(Tail(s))
<1>1. /\ Len(s) \in Nat \ {0} /\ DOMAIN s = 1..Len(s)
      /\ Head(s) = s[1]
      /\ DOMAIN Tail(s) = 1..(Len(s) - 1)
      /\ \A i \in 1..(Len(s) - 1) : Tail(s)[i] = s[i + 1]
  OBVIOUS
<1>2. \A i \in 1..(Len(s) - 1) : i + 1 \in 1..Len(s) /\ i + 1 # 1
  BY <1>1
<1>2a. 1 \in 1..Len(s)
  BY <1>1
<1>3. Head(s) \notin On(Tail(s))
  <2> SUFFICES ASSUME NEW i \in 1..(Len(s) - 1), s[1] = s[i + 1] PROVE FALSE
    BY <1>1 DEF On
  <2>1. 1 = i + 1
    BY <1>1, <1>2, <1>2a DEF NoRepeats
  <2> QED BY <1>2, <2>1
<1>4. NoRepeats(Tail(s))
  <2> SUFFICES ASSUME NEW i \in 1..(Len(s) - 1), NEW j \in 1..(Len(s) - 1), s[i + 1] = s[j + 1]
               PROVE  i = j
    BY <1>1 DEF NoRepeats
  <2>1. i + 1 = j + 1
    BY <1>1, <1>2 DEF NoRepeats
  <2> QED BY <1>1, <2>1
<1> QED BY <1>3, <1>4

\* What the extension has in hand: queued, active, or answered and not yet
\* acknowledged.
Holding(q) == On(q.queue) \cup {x.req : x \in On(q.results)} \cup ({q.active} \ {NoRequest})

LEMMA EmptyHolds == Holding(EmptyQueue) = {} /\ EmptyQueue.seen = {} /\ NoRepeats(EmptyQueue.queue)
  BY DEF Holding, EmptyQueue, On, NoRepeats

LEMMA EnqueueHolds ==
  ASSUME NEW q \in RemoteQueues, NEW r \in Requests
  PROVE  /\ Enqueue(q, r).seen = q.seen \cup {r}
         /\ Enqueue(q, r).results = q.results /\ Enqueue(q, r).active = q.active
         /\ r \in q.seen => Enqueue(q, r) = q
         /\ r \notin q.seen => /\ Enqueue(q, r).queue = Append(q.queue, r)
                               /\ On(Enqueue(q, r).queue) = On(q.queue) \cup {r}
                               /\ Holding(Enqueue(q, r)) = Holding(q) \cup {r}
<1>1. q = [queue |-> q.queue, seen |-> q.seen, active |-> q.active, results |-> q.results]
  BY DEF RemoteQueues
<1>2. q.queue \in Seq(Requests)
  BY DEF RemoteQueues
<1>3. CASE r \in q.seen
  BY <1>3 DEF Enqueue
<1>4. CASE r \notin q.seen
  <2>1. Enqueue(q, r) = [q EXCEPT !.seen = q.seen \cup {r}, !.queue = Append(q.queue, r)]
    BY <1>4 DEF Enqueue
  <2> DEFINE k == Append(q.queue, r)
             z == q.seen \cup {r}
  <2>2. On(k) = On(q.queue) \cup {r}
    BY <1>2, OnAppend
  <2> HIDE DEF k
  <2>3. /\ Enqueue(q, r).seen = z /\ Enqueue(q, r).queue = k
        /\ Enqueue(q, r).results = q.results /\ Enqueue(q, r).active = q.active
    BY <1>1, <2>1 DEF k
  <2> QED BY <1>4, <2>2, <2>3 DEF Holding, k
<1> QED BY <1>3, <1>4

LEMMA StartHolds ==
  ASSUME NEW q \in RemoteQueues, NoRequest \notin On(q.queue), NoRepeats(q.queue)
  PROVE  /\ StartNext(q).seen = q.seen /\ StartNext(q).results = q.results
         /\ Holding(StartNext(q)) = Holding(q)
         /\ NoRepeats(StartNext(q).queue) /\ On(StartNext(q).queue) \subseteq On(q.queue)
         /\ StartNext(q).active # q.active =>
              /\ StartNext(q).active \in On(q.queue)
              /\ StartNext(q).active \notin On(StartNext(q).queue)
<1>1. q = [queue |-> q.queue, seen |-> q.seen, active |-> q.active, results |-> q.results]
  BY DEF RemoteQueues
<1>2. q.queue \in Seq(Requests)
  BY DEF RemoteQueues
<1>3. CASE q.active # NoRequest \/ q.queue = <<>>
  BY <1>3 DEF StartNext
<1>4. CASE ~ (q.active # NoRequest \/ q.queue = <<>>)
  <2> DEFINE h == Head(q.queue)
             t == Tail(q.queue)
  <2>1. StartNext(q) = [q EXCEPT !.active = h, !.queue = t]
    BY <1>4 DEF StartNext
  <2>2. /\ h \in On(q.queue) /\ On(q.queue) = On(t) \cup {h}
        /\ NoRepeats(t) /\ h \notin On(t)
    BY <1>2, <1>4, OnTail, NoRepeatsTail
  <2> HIDE DEF h, t
  <2>3. /\ StartNext(q).seen = q.seen /\ StartNext(q).queue = t
        /\ StartNext(q).results = q.results /\ StartNext(q).active = h
    BY <1>1, <2>1
  <2>4. h # NoRequest
    BY <2>2
  <2> QED BY <1>4, <2>2, <2>3, <2>4 DEF Holding
<1> QED BY <1>3, <1>4

LEMMA CompleteHolds ==
  ASSUME NEW q \in RemoteQueues, NEW result \in Results, q.active = result.req
  PROVE  /\ CompleteActive(q, result).seen = q.seen
         /\ CompleteActive(q, result).queue = q.queue
         /\ Holding(CompleteActive(q, result)) = Holding(q)
<1>1. q = [queue |-> q.queue, seen |-> q.seen, active |-> q.active, results |-> q.results]
  BY DEF RemoteQueues
<1>2. q.results \in Seq(Results) /\ result.req \in Requests /\ NoRequest \notin Requests
  BY ConstantsAssumption DEF RemoteQueues, Results
<1> DEFINE k == Append(q.results, result)
<1>3. CompleteActive(q, result) = [q EXCEPT !.active = NoRequest, !.results = k]
  BY DEF CompleteActive
<1>4. On(k) = On(q.results) \cup {result}
  BY <1>2, OnAppend
<1> HIDE DEF k
<1>5. /\ CompleteActive(q, result).seen = q.seen
      /\ CompleteActive(q, result).queue = q.queue
      /\ CompleteActive(q, result).active = NoRequest
      /\ CompleteActive(q, result).results = k
  BY <1>1, <1>3
<1> QED BY <1>2, <1>4, <1>5 DEF Holding

LEMMA AcknowledgeHolds ==
  ASSUME NEW q \in RemoteQueues, NEW r \in Requests
  PROVE  /\ AcknowledgeResult(q, r).seen = q.seen
         /\ AcknowledgeResult(q, r).queue = q.queue
         /\ Holding(AcknowledgeResult(q, r)) \subseteq Holding(q)
         /\ Holding(q) \ {r} \subseteq Holding(AcknowledgeResult(q, r))
<1>1. q = [queue |-> q.queue, seen |-> q.seen, active |-> q.active, results |-> q.results]
  BY DEF RemoteQueues
<1>2. CASE \A i \in 1..Len(q.results) : q.results[i].req # r
  BY <1>2 DEF AcknowledgeResult
<1>3. CASE ~ \A i \in 1..Len(q.results) : q.results[i].req # r
  <2>1. PICK s \in Seq(Results) : s = q.results
    BY DEF RemoteQueues
  <2> DEFINE i == CHOOSE i \in 1..Len(s) : s[i].req = r
             front == SubSeq(s, 1, i - 1)
             back == SubSeq(s, i + 1, Len(s))
             rest == front \o back
  <2>2. i \in 1..Len(s) /\ s[i].req = r
    BY <1>3, <2>1
  <2>3. AcknowledgeResult(q, r) = [q EXCEPT !.results = rest]
    BY <1>3, <2>1 DEF AcknowledgeResult
  <2> HIDE DEF i
  <2>4. /\ Len(s) \in Nat /\ DOMAIN s = 1..Len(s)
        /\ front \in Seq(Results) /\ back \in Seq(Results)
        /\ DOMAIN front = 1..(i - 1) /\ \A k \in 1..(i - 1) : front[k] = s[k]
        /\ DOMAIN back = 1..(Len(s) - i) /\ \A k \in 1..(Len(s) - i) : back[k] = s[i + k]
    BY <2>2
  <2>5. On(rest) = On(front) \cup On(back)
    BY ZenonT(60), <2>4, OnConcat
  <2>6. ASSUME NEW x \in On(rest) PROVE x \in On(s)
    <3>1. CASE x \in On(front)
      <4>1. PICK k \in 1..(i - 1) : x = s[k]
        BY <2>4, <3>1 DEF On
      <4>2. k \in 1..Len(s)
        BY <2>2, <2>4
      <4> QED BY <2>4, <4>1, <4>2 DEF On
    <3>2. CASE x \in On(back)
      <4>1. PICK k \in 1..(Len(s) - i) : x = s[i + k]
        BY <2>4, <3>2 DEF On
      <4>2. i + k \in 1..Len(s)
        BY <2>2, <2>4
      <4> QED BY <2>4, <4>1, <4>2 DEF On
    <3> HIDE DEF front, back
    <3> QED BY <2>5, <2>6, <3>1, <3>2
  <2>7. ASSUME NEW x \in On(s), x.req # r PROVE x \in On(rest)
    <3>1. PICK k \in 1..Len(s) : x = s[k]
      BY <2>4, <2>7 DEF On
    <3>2. k # i
      BY <2>2, <2>7, <3>1
    <3>3. CASE k < i
      <4>1. k \in 1..(i - 1)
        BY <2>2, <2>4, <3>3
      <4>2. x \in On(front)
        BY <2>4, <3>1, <4>1 DEF On
      <4> QED BY <2>5, <4>2
    <3>4. CASE k > i
      <4>1. k - i \in 1..(Len(s) - i) /\ i + (k - i) = k
        BY <2>2, <2>4, <3>4
      <4>2. back[k - i] = s[k]
        BY <2>4, <4>1
      <4>3. x \in On(back)
        BY <2>4, <3>1, <4>1, <4>2 DEF On
      <4> QED BY <2>5, <4>3
    <3> QED BY <2>2, <2>4, <3>2, <3>3, <3>4
  <2> HIDE DEF rest
  <2>8. /\ AcknowledgeResult(q, r).seen = q.seen
        /\ AcknowledgeResult(q, r).queue = q.queue
        /\ AcknowledgeResult(q, r).active = q.active
        /\ AcknowledgeResult(q, r).results = rest
    BY <1>1, <2>3
  <2> QED BY <2>1, <2>6, <2>7, <2>8 DEF Holding
<1> QED BY <1>2, <1>3

------------------------------------------------------------------------------
(* Authorised work                                                           *)

\* The rows of requests that the Agent's permission let through.
LetThrough == {"pending", "delivered", "completed", "failed", "interrupted"}

Mine(a) == {r \in Requests : TargetOf(r) = a}
Authorised(a) == {r \in Mine(a) : reqStatus[r] \in LetThrough}

SoundToClient(a, x) ==
  /\ x.type \in {"deliver", "result.ack"} => x.req \in Authorised(a)
  /\ x.type = "request.pending" => x.req \in Mine(a)

SoundToBroker(a, x) ==
  /\ x.type \in {"deliver.ack", "result"} => x.req \in Authorised(a)
  /\ x.type \in {"approve", "reject"} => x.req \in Mine(a)

\* Whatever speaks of a request on the connection of a session, and whatever
\* its extension holds, is about a request to its own Agent; and wherever the
\* Agent's work is concerned the request was let through.  A request is queued
\* once.
WorkOf(a) ==
  /\ \A x \in On(toClient[a]) : SoundToClient(a, x)
  /\ \A x \in On(toBroker[a]) : SoundToBroker(a, x)
  /\ approvals[a] \subseteq Mine(a)
  /\ remote[a].seen \subseteq Authorised(a)
  /\ Holding(remote[a]) \subseteq remote[a].seen
  /\ NoRepeats(remote[a].queue)

WorkInv == \A a \in Agents : WorkOf(a)

LEMMA AwaitingEntries ==
  ASSUME PendingMatchesRows, up, NEW r \in Requests
  PROVE  /\ reqStatus[r] = "awaiting_approval" => pending[r].state \notin {"none", "delivering"}
         /\ reqStatus[r] \in {"pending", "delivered"} => pending[r].state \notin {"none", "awaiting_approval"}
         /\ pending[r].state = "awaiting_approval" => reqStatus[r] = "awaiting_approval"
         /\ pending[r].state = "delivering" => reqStatus[r] \in {"pending", "delivered"}
  BY DEF PendingMatchesRows, Matching, Active

LEMMA FailedStayLetThrough ==
  ASSUME PendingMatchesRows, up, NEW a \in Agents, FailRequestsForTarget(a),
         NEW r \in Requests, reqStatus[r] \in LetThrough
  PROVE  reqStatus'[r] \in LetThrough
<1> DEFINE S == EntriesOf(a, session[a])
           new == [x \in S |-> IF pending[x].state = "awaiting_approval"
                               THEN "invalid" ELSE "failed"]
           T == {x \in S : reqStatus[x] \in Active}
<1>1. reqStatus' = [x \in Requests |-> IF x \in T THEN new[x] ELSE reqStatus[x]]
  <2>1. SetStatus(T, new)
    BY DEF FailRequestsForTarget
  <2> HIDE DEF new, T
  <2> QED BY <2>1 DEF SetStatus
<1>2. pending[r].state # "awaiting_approval"
  BY AwaitingEntries DEF LetThrough
<1>3. r \in T => new[r] = "failed"
  BY <1>2
<1> HIDE DEF new, T
<1> QED BY <1>1, <1>3 DEF LetThrough

\* What the permission let through never goes back to waiting and is never
\* shown as if it had not been.
LEMMA LetThroughStays ==
  ASSUME TypeOK, PendingMatchesRows, [Next]_vars, NEW r \in Requests,
         reqStatus[r] \in LetThrough
  PROVE  reqStatus'[r] \in LetThrough
<1>0. DatabaseType /\ NetworkType
  BY DEF TypeOK
<1>1. ASSUME NEW m \in Messages, ChatSend(m) PROVE reqStatus'[r] \in LetThrough
  <2>1. PICK T \in SUBSET Agents : \E out \in [T -> RequestStatus] : AddressTargets(m, T, out)
    BY <1>1 DEF ChatSend
  <2>2. PICK out \in [T -> RequestStatus] : AddressTargets(m, T, out)
    BY <2>1
  <2>3. r = <<MessageOf(r), TargetOf(r)>> /\ TargetOf(r) \in Agents
    BY DEF Requests, MessageOf, TargetOf
  <2>4. MessageOf(r) # m
    BY <1>1, <2>3 DEF ChatSend, Asked, LetThrough
  <2> QED BY <2>2, <2>4 DEF AddressTargets
<1>2. ASSUME NEW x \in Requests, NEW st,
             \/ SetStatus({x}, [y \in {x} |-> st])
             \/ UNCHANGED reqStatus,
             reqStatus[x] \in LetThrough => st \in LetThrough
      PROVE  reqStatus'[r] \in LetThrough
  <2>1. reqStatus' = [reqStatus EXCEPT ![x] = st] \/ UNCHANGED reqStatus
    BY <1>0, <1>2, SetOneStatus
  <2> QED BY <1>0, <1>2, <2>1 DEF DatabaseType
<1>3. ASSUME NEW a \in Agents, HandleDeliverAck(a) PROVE reqStatus'[r] \in LetThrough
  <2> DEFINE x == Head(toBroker[a]).req
             st == IF reqStatus[x] = "pending" THEN "delivered" ELSE reqStatus[x]
  <2>1. x \in Requests
    BY <1>0, <1>3, ArrivesType DEF HandleDeliverAck, ToBroker
  <2>2. SetStatus({x}, [y \in {x} |-> st]) \/ UNCHANGED reqStatus
    BY <1>3 DEF HandleDeliverAck
  <2>3. reqStatus[x] \in LetThrough => st \in LetThrough
    BY DEF LetThrough
  <2> HIDE DEF x, st
  <2> QED BY <1>2, <2>1, <2>2, <2>3
<1>4. ASSUME NEW a \in Agents, HandleApprove(a) PROVE reqStatus'[r] \in LetThrough
  <2> DEFINE x == Head(toBroker[a]).req
  <2>1. x \in Requests
    BY <1>0, <1>4, ArrivesType DEF HandleApprove, ToBroker
  <2>2. SetStatus({x}, [y \in {x} |-> "pending"]) \/ UNCHANGED reqStatus
    BY <1>4 DEF HandleApprove
  <2>3. "pending" \in LetThrough
    BY DEF LetThrough
  <2> HIDE DEF x
  <2> QED BY <1>2, <2>1, <2>2, <2>3
<1>5. ASSUME NEW a \in Agents, HandleReject(a) PROVE reqStatus'[r] \in LetThrough
  <2> DEFINE x == Head(toBroker[a]).req
  <2>1. x \in Requests
    BY <1>0, <1>5, ArrivesType DEF HandleReject, ToBroker
  <2>2. \/ SetStatus({x}, [y \in {x} |-> "rejected"]) /\ reqStatus[x] = "awaiting_approval"
        \/ UNCHANGED reqStatus
    BY <1>5 DEF HandleReject, Decidable
  <2> HIDE DEF x
  <2>3. CASE UNCHANGED reqStatus
    BY <2>3
  <2>4. CASE SetStatus({x}, [y \in {x} |-> "rejected"]) /\ reqStatus[x] = "awaiting_approval"
    <3>1. reqStatus[x] \notin LetThrough
      BY <2>4 DEF LetThrough
    <3> QED BY <1>2, <2>1, <2>4, <3>1
  <2> QED BY <2>2, <2>3, <2>4
<1>6. ASSUME NEW a \in Agents, HandleResult(a) PROVE reqStatus'[r] \in LetThrough
  <2> DEFINE x == Head(toBroker[a]).req
             ok == Head(toBroker[a]).ok
             st == IF ok THEN "completed" ELSE "failed"
  <2>1. x \in Requests
    BY <1>0, <1>6, ArrivesType DEF HandleResult, ToBroker
  <2>2. SetStatus({x}, [y \in {x} |-> st]) \/ UNCHANGED reqStatus
    BY <1>6 DEF HandleResult, CloseByResult, dbVars
  <2>3. st \in LetThrough
    BY DEF LetThrough
  <2> HIDE DEF x, st
  <2> QED BY <1>2, <2>1, <2>2, <2>3
<1>7. ASSUME NEW a \in Agents, HandleLeave(a) \/ HandleGoodbye(a) PROVE reqStatus'[r] \in LetThrough
  <2>1. up /\ LeaveClientGroup(a)
    BY <1>7 DEF HandleLeave, HandleGoodbye, Arrives
  <2>2. FailRequestsForTarget(a) \/ UNCHANGED reqStatus
    BY <2>1 DEF LeaveClientGroup
  <2> QED BY <2>1, <2>2, FailedStayLetThrough
<1>8. ASSUME NEW a \in Agents, GraceExpires(a) PROVE reqStatus'[r] \in LetThrough
  BY <1>8, FailedStayLetThrough DEF GraceExpires
<1>9. CASE BrokerStarts
  BY <1>9 DEF BrokerStarts, InterruptedStatus, LetThrough, Active
<1>10. ASSUME UNCHANGED dbVars PROVE reqStatus'[r] \in LetThrough
  BY <1>10 DEF dbVars
<1>11. CASE BrokerStops
  BY <1>10, <1>11 DEF BrokerStops
<1>12. ASSUME NEW a \in Agents,
              \/ HandleUnexpectedDisconnect(a) \/ RemoveMember(a) \/ DropCredentials(a)
              \/ Connect(a) \/ HelloLost(a) \/ LinkBreak(a) \/ JoinGroup(a)
       PROVE  reqStatus'[r] \in LetThrough
  BY <1>10, <1>12 DEF HandleUnexpectedDisconnect, RemoveMember, DropCredentials, Connect,
                      HelloLost, LinkBreak, JoinGroup
<1>13. ASSUME NEW a \in Agents, ExtensionReads(a) PROVE reqStatus'[r] \in LetThrough
  BY <1>10, <1>13 DEF ExtensionReads, ReceiveDelivery, ReceiveApproval, ReceiveSettled,
                      ReceiveResultAck, ReceiveRemoved
<1>14. ASSUME NEW a \in Agents,
              \/ AgentSettles(a) \/ RetryResults(a) \/ LeaveGroup(a) \/ Quit(a) \/ Crash(a)
              \/ \E x \in Requests : Decide(a, x, "approve") \/ Decide(a, x, "reject")
       PROVE  reqStatus'[r] \in LetThrough
  BY <1>10, <1>14 DEF AgentSettles, SettleLocal, Settle, RetryResults, LeaveGroup, Quit,
                      Crash, Decide
<1>15. CASE UNCHANGED vars
  BY <1>10, <1>15 DEF vars, dbVars
<1> QED
  BY <1>1, <1>3, <1>4, <1>5, <1>6, <1>7, <1>8, <1>9, <1>11, <1>12, <1>13, <1>14, <1>15
     DEF Next, BrokerReads

\* What an action leaves on its way, channel by channel.
LEMMA ConsumeOn ==
  ASSUME NetworkType, NEW a \in Agents, NEW type, Arrives(a, type), Consume(a)
  PROVE  /\ Head(toBroker[a]) \in On(toBroker[a])
         /\ \A b \in Agents : On(toBroker'[b]) \subseteq On(toBroker[b])
<1>1. toBroker[a] \in Seq(ToBroker) /\ toBroker[a] # <<>>
  BY DEF NetworkType, Arrives
<1>2. On(toBroker[a]) = On(Tail(toBroker[a])) \cup {Head(toBroker[a])}
  BY <1>1, OnTail
<1>3. \A b \in Agents : toBroker'[b] = IF b = a THEN Tail(toBroker[a]) ELSE toBroker[b]
  BY DEF Consume, NetworkType
<1> QED BY <1>2, <1>3

LEMMA ConsumeAtClientOn ==
  ASSUME NetworkType, NEW a \in Agents, NEW type, Reads(a, type), ConsumeAtClient(a)
  PROVE  /\ Head(toClient[a]) \in On(toClient[a])
         /\ \A b \in Agents : On(toClient'[b]) \subseteq On(toClient[b])
<1>1. toClient[a] \in Seq(ToClient) /\ toClient[a] # <<>>
  BY DEF NetworkType, Reads
<1>2. On(toClient[a]) = On(Tail(toClient[a])) \cup {Head(toClient[a])}
  BY <1>1, OnTail
<1>3. \A b \in Agents : toClient'[b] = IF b = a THEN Tail(toClient[a]) ELSE toClient[b]
  BY DEF ConsumeAtClient, NetworkType
<1> QED BY <1>2, <1>3

LEMMA SentOn ==
  ASSUME NetworkType, NEW a \in Agents, NEW msg \in ToClient
  PROVE  /\ On(Sent(toClient, a, msg)) \subseteq On(toClient[a]) \cup {msg}
         /\ SendToClient(a, msg) =>
              \A b \in Agents : \A x \in On(toClient'[b]) :
                x \in On(toClient[b]) \/ (b = a /\ x = msg)
<1>1. toClient[a] \in Seq(ToClient)
  BY DEF NetworkType
<1>2. On(Sent(toClient, a, msg)) \subseteq On(toClient[a]) \cup {msg}
  BY <1>1, OnAppend DEF Sent
<1>3. ASSUME SendToClient(a, msg), NEW b \in Agents
      PROVE  toClient'[b] = IF b = a THEN Sent(toClient, a, msg) ELSE toClient[b]
  BY <1>3 DEF SendToClient, NetworkType
<1> QED BY <1>2, <1>3

LEMMA BothSentOn ==
  ASSUME NetworkType, NEW a \in Agents, NEW first \in ToClient, NEW second \in ToClient,
         SendBothToClient(a, first, second)
  PROVE  \A b \in Agents : \A x \in On(toClient'[b]) :
           x \in On(toClient[b]) \/ (b = a /\ x \in {first, second})
<1>1. toClient[a] \in Seq(ToClient) /\ <<first, second>> \in Seq(ToClient)
  BY DEF NetworkType
<1>2. On(<<first, second>>) = {first, second}
  <2>1. DOMAIN <<first, second>> = 1..2
    OBVIOUS
  <2>2. 1..2 = {1, 2}
    OBVIOUS
  <2>3. <<first, second>>[1] = first /\ <<first, second>>[2] = second
    OBVIOUS
  <2> QED BY <2>1, <2>2, <2>3 DEF On
<1>3. On(toClient[a] \o <<first, second>>) = On(toClient[a]) \cup {first, second}
  <2> DEFINE both == <<first, second>>
  <2>1. both \in Seq(ToClient) /\ On(both) = {first, second}
    BY <1>1, <1>2
  <2> HIDE DEF both
  <2>2. On(toClient[a] \o both) = On(toClient[a]) \cup {first, second}
    BY <1>1, <2>1, OnConcat
  <2> QED BY <2>2 DEF both
<1>4. \A b \in Agents : \/ toClient'[b] = toClient[b]
                        \/ b = a /\ toClient'[b] = toClient[a] \o <<first, second>>
  BY DEF SendBothToClient, NetworkType
<1> QED BY <1>3, <1>4

LEMMA ReplyOn ==
  ASSUME NetworkType, NEW a \in Agents, NEW msg \in ToBroker, Reply(a, msg)
  PROVE  \A b \in Agents : \A x \in On(toBroker'[b]) :
           x \in On(toBroker[b]) \/ (b = a /\ x = msg)
<1>1. toBroker[a] \in Seq(ToBroker)
  BY DEF NetworkType
<1>2. On(Append(toBroker[a], msg)) = On(toBroker[a]) \cup {msg}
  BY <1>1, OnAppend
<1>3. \A b \in Agents : toBroker'[b] = IF b = a THEN Append(toBroker[a], msg) ELSE toBroker[b]
  BY DEF Reply, NetworkType
<1> QED BY <1>2, <1>3

LEMMA ResultMessagesOn ==
  ASSUME NEW q \in RemoteQueues, NEW x \in On(ResultMessages(q.results))
  PROVE  x.type = "result" /\ x.req \in Holding(q)
<1>1. PICK s \in Seq(Results) : s = q.results
  BY DEF RemoteQueues
<1>2. Len(s) \in Nat /\ DOMAIN s = 1..Len(s) /\ DOMAIN ResultMessages(s) = 1..Len(s)
  BY DEF ResultMessages
<1>3. PICK i \in 1..Len(s) : x = ResultMessages(s)[i]
  BY <1>1, <1>2 DEF On
<1>4. x = [type |-> "result", req |-> s[i].req, ok |-> s[i].ok]
  BY <1>2, <1>3 DEF ResultMessages
<1>5. s[i] \in On(s)
  BY <1>2 DEF On
<1> QED BY <1>1, <1>4, <1>5 DEF Holding

LEMMA FlushOn ==
  ASSUME NetworkType, NEW a \in Agents, NEW q \in RemoteQueues, Flush(a, q)
  PROVE  \A b \in Agents : \A x \in On(toBroker'[b]) :
           x \in On(toBroker[b]) \/ (b = a /\ x.type = "result" /\ x.req \in Holding(q))
<1>1. toBroker[a] \in Seq(ToBroker) /\ q.results \in Seq(Results)
  BY DEF NetworkType, RemoteQueues
<1>2. ResultMessages(q.results) \in Seq(ToBroker)
  BY <1>1, ResultMessagesType
<1>3. On(toBroker[a] \o ResultMessages(q.results)) = On(toBroker[a]) \cup On(ResultMessages(q.results))
  BY <1>1, <1>2, OnConcat
<1>4. \A b \in Agents : \/ toBroker'[b] = toBroker[b]
                        \/ b = a /\ toBroker'[b] = toBroker[a] \o ResultMessages(q.results)
  BY DEF Flush, NetworkType
<1> QED BY <1>3, <1>4, ResultMessagesOn

LEMMA ResentOn ==
  ASSUME NEW a \in Agents, NEW c, NEW sent \in Resent(a, c), NEW x \in On(sent)
  PROVE  \/ x.type = "deliver" /\ x.req \in Unacknowledged(a, c)
         \/ x.type = "request.pending" /\ x.req \in Waiting(a, c)
<1>1. PICK d \in Orders(Unacknowledged(a, c)), w \in Orders(Waiting(a, c)) :
        sent = DeliverMessages(d) \o ApprovalMessages(w)
  BY DEF Resent
<1>2. /\ Unacknowledged(a, c) \in SUBSET Requests
      /\ Waiting(a, c) \in SUBSET Requests
  BY DEF Unacknowledged, Waiting, EntriesOf
<1>3. d \in Seq(Requests) /\ w \in Seq(Requests)
  BY <1>2, OrdersType
<1>4. DeliverMessages(d) \in Seq(ToClient) /\ ApprovalMessages(w) \in Seq(ToClient)
  BY <1>3 DEF DeliverMessages, ApprovalMessages, ToClient
<1>5. On(sent) = On(DeliverMessages(d)) \cup On(ApprovalMessages(w))
  BY <1>1, <1>4, OnConcat
<1>6. /\ \A i \in DOMAIN d : d[i] \in Unacknowledged(a, c)
      /\ \A i \in DOMAIN w : w[i] \in Waiting(a, c)
  BY DEF Orders
<1>7. CASE x \in On(DeliverMessages(d))
  <2>1. DOMAIN d = 1..Len(d)
    BY <1>3
  <2>2. PICK i \in DOMAIN d : x = [type |-> "deliver", req |-> d[i]]
    BY <1>7, <2>1 DEF On, DeliverMessages
  <2> QED BY <1>6, <2>2
<1>8. CASE x \in On(ApprovalMessages(w))
  <2>1. DOMAIN w = 1..Len(w)
    BY <1>3
  <2>2. PICK i \in DOMAIN w : x = [type |-> "request.pending", req |-> w[i]]
    BY <1>8, <2>1 DEF On, ApprovalMessages
  <2> QED BY <1>6, <2>2
<1> QED BY <1>5, <1>7, <1>8

\* What starting work changes: the queue, and the count of the started request.
LEMMA TryStartHolds ==
  ASSUME TypeOK, NEW a \in Agents, NEW q \in RemoteQueues, NEW idle \in BOOLEAN,
         NoRepeats(q.queue), TryStartNext(a, q, idle)
  PROVE  /\ remote'[a].seen = q.seen /\ remote'[a].results = q.results
         /\ Holding(remote'[a]) = Holding(q)
         /\ NoRepeats(remote'[a].queue) /\ On(remote'[a].queue) \subseteq On(q.queue)
         /\ \A b \in Agents \ {a} : remote'[b] = remote[b]
         /\ \A r \in Requests :
              \/ runs'[r] = runs[r]
              \/ /\ r \in On(q.queue) /\ r \notin On(remote'[a].queue)
                 /\ runs'[r] = runs[r] + 1
<1>1. q.queue \in Seq(Requests) /\ NoRequest \notin Requests
  BY ConstantsAssumption DEF RemoteQueues
<1>2. On(q.queue) \subseteq Requests
  BY <1>1 DEF On
<1>3. /\ remote \in [Agents -> RemoteQueues] /\ runs \in [Requests -> Nat]
  BY DEF TypeOK, ExtensionType
<1> DEFINE next == IF idle THEN StartNext(q) ELSE q
<1>4. /\ next.seen = q.seen /\ next.results = q.results
      /\ Holding(next) = Holding(q)
      /\ NoRepeats(next.queue) /\ On(next.queue) \subseteq On(q.queue)
      /\ next.active # q.active => next.active \in On(q.queue) /\ next.active \notin On(next.queue)
  BY <1>1, <1>2, StartHolds
<1>5. /\ remote' = [remote EXCEPT ![a] = next]
      /\ runs' = IF next.active # q.active THEN [runs EXCEPT ![next.active] = @ + 1] ELSE runs
  BY DEF TryStartNext
<1> HIDE DEF next
<1>6. remote'[a] = next /\ \A b \in Agents \ {a} : remote'[b] = remote[b]
  BY <1>3, <1>5
<1>7. ASSUME NEW r \in Requests, runs'[r] # runs[r]
      PROVE  next.active # q.active /\ r = next.active /\ runs'[r] = runs[r] + 1
  BY <1>3, <1>5, <1>7
<1> QED BY <1>4, <1>6, <1>7

\* A step keeps a session's work sound if what it adds is sound after it.
LEMMA WorkKept ==
  ASSUME TypeOK, PendingMatchesRows, [Next]_vars, NEW b \in Agents, WorkOf(b),
         \A x \in On(toClient'[b]) : x \in On(toClient[b]) \/ SoundToClient(b, x)',
         \A x \in On(toBroker'[b]) : x \in On(toBroker[b]) \/ SoundToBroker(b, x)',
         approvals'[b] \subseteq Mine(b),
         remote'[b].seen \subseteq Authorised(b)',
         Holding(remote'[b]) \subseteq remote'[b].seen,
         NoRepeats(remote'[b].queue)
  PROVE  WorkOf(b)'
<1>1. Authorised(b) \subseteq Authorised(b)'
  BY LetThroughStays DEF Authorised, Mine
<1>2. ASSUME NEW x \in On(toClient'[b]) PROVE SoundToClient(b, x)'
  BY <1>1, <1>2 DEF WorkOf, SoundToClient, Mine
<1>3. ASSUME NEW x \in On(toBroker'[b]) PROVE SoundToBroker(b, x)'
  BY <1>1, <1>3 DEF WorkOf, SoundToBroker, Mine
<1>4. approvals'[b] \subseteq Mine(b)'
  BY DEF Mine
<1>5. (Holding(remote[b]) \subseteq remote[b].seen)' /\ NoRepeats(remote[b].queue)'
  BY DEF Holding, On, NoRepeats
<1> QED BY <1>2, <1>3, <1>4, <1>5 DEF WorkOf

\* The same when the extension is left alone.
LEMMA WorkKeptOutside ==
  ASSUME TypeOK, PendingMatchesRows, [Next]_vars, NEW b \in Agents, WorkOf(b),
         remote'[b] = remote[b], approvals'[b] = approvals[b],
         \A x \in On(toClient'[b]) : x \in On(toClient[b]) \/ SoundToClient(b, x)',
         \A x \in On(toBroker'[b]) : x \in On(toBroker[b]) \/ SoundToBroker(b, x)'
  PROVE  WorkOf(b)'
<1>1. Authorised(b) \subseteq Authorised(b)'
  BY LetThroughStays DEF Authorised, Mine
<1>2. /\ approvals'[b] \subseteq Mine(b)
      /\ remote'[b].seen \subseteq Authorised(b)'
      /\ Holding(remote'[b]) \subseteq remote'[b].seen
      /\ NoRepeats(remote'[b].queue)
  BY <1>1 DEF WorkOf
<1> QED BY <1>2, WorkKept

LEMMA NextWork == TypeOK /\ PendingMatchesRows /\ WorkInv /\ [Next]_vars => WorkInv'
<1> SUFFICES ASSUME TypeOK, PendingMatchesRows, WorkInv, [Next]_vars, NEW b \in Agents
             PROVE  WorkOf(b)'
  BY DEF WorkInv
<1>0. /\ DatabaseType /\ BrokerType /\ ExtensionType /\ NetworkType
      /\ \A a \in Agents : WorkOf(a)
      /\ \A a \in Agents : Authorised(a) \subseteq Authorised(a)'
      /\ \A a \in Agents : remote[a] \in RemoteQueues
  BY LetThroughStays DEF TypeOK, WorkInv, Authorised, Mine, ExtensionType
<1>a. ASSUME UNCHANGED <<remote, approvals>>,
             \A x \in On(toClient'[b]) : x \in On(toClient[b]) \/ SoundToClient(b, x)',
             \A x \in On(toBroker'[b]) : x \in On(toBroker[b]) \/ SoundToBroker(b, x)'
      PROVE  WorkOf(b)'
  BY <1>0, <1>a, WorkKeptOutside
<1>1. ASSUME NEW m \in Messages, ChatSend(m) PROVE WorkOf(b)'
  <2>1. PICK T \in SUBSET Agents, hasTask \in BOOLEAN : \E out \in [T -> RequestStatus] :
          (\A a \in T : out[a] \in Outcomes(a, hasTask)) /\ AddressTargets(m, T, out)
    BY <1>1 DEF ChatSend
  <2>2. PICK out \in [T -> RequestStatus] : AddressTargets(m, T, out)
    BY <2>1
  <2> DEFINE r == <<m, b>>
             msg == [type |-> IF out[b] = "pending" THEN "deliver" ELSE "request.pending",
                     req |-> <<m, b>>]
  <2>3. r \in Requests /\ TargetOf(r) = b /\ MessageOf(r) = m
    BY DEF Requests, TargetOf, MessageOf
  <2>4. msg \in ToClient
    BY <2>3 DEF ToClient
  <2>5. \/ toClient'[b] = toClient[b]
        \/ b \in T /\ toClient'[b] = Sent(toClient, b, msg)
    BY <2>2 DEF AddressTargets
  <2>6. b \in T => reqStatus'[r] = out[b]
    BY <2>2, <2>3 DEF AddressTargets
  <2>7. \A x \in On(toClient'[b]) : x \in On(toClient[b]) \/ (b \in T /\ x = msg)
    <3> HIDE DEF msg
    <3> QED BY <1>0, <2>4, <2>5, SentOn
  <2>8. b \in T => SoundToClient(b, msg)'
    BY <2>3, <2>6 DEF SoundToClient, Authorised, Mine, LetThrough
  <2>9. UNCHANGED <<remote, approvals, toBroker>>
    BY <1>1 DEF ChatSend, clientVars
  <2> HIDE DEF msg
  <2> QED BY <1>a, <2>7, <2>8, <2>9
<1>2. ASSUME NEW a \in Agents, HandleDeliverAck(a) \/ HandleLeave(a) PROVE WorkOf(b)'
  <2>1. On(toBroker'[b]) \subseteq On(toBroker[b])
    BY <1>0, <1>2, ConsumeOn DEF HandleDeliverAck, HandleLeave
  <2> QED BY <1>a, <1>2, <2>1 DEF HandleDeliverAck, HandleLeave, clientVars
<1>3. ASSUME NEW a \in Agents, HandleApprove(a) PROVE WorkOf(b)'
  <2>0. Arrives(a, "approve") /\ Consume(a)
    BY <1>3 DEF HandleApprove
  <2>0a. /\ Head(toBroker[a]) \in On(toBroker[a])
         /\ Head(toBroker[a]).type = "approve" /\ Head(toBroker[a]).req \in Requests
         /\ On(toBroker'[b]) \subseteq On(toBroker[b])
    <3>1. Head(toBroker[a]).req \in Requests
      BY <1>0, <2>0, ArrivesType DEF ToBroker
    <3> QED BY <1>0, <2>0, <3>1, ConsumeOn, ArrivesType
  <2>1. PICK r \in Requests : r = Head(toBroker[a]).req
    BY <2>0a
  <2> DEFINE msg == [type |-> "deliver", req |-> r]
  <2>2. r \in Mine(a)
    BY <1>0, <2>0a, <2>1 DEF WorkOf, SoundToBroker
  <2>2a. UNCHANGED <<remote, approvals>>
    BY <1>3 DEF HandleApprove, clientVars
  <2>3. CASE Decidable(a, r)
    <3>1. SetStatus({r}, [x \in {r} |-> "pending"]) /\ SendToClient(a, msg)
      BY <1>3, <2>1, <2>3 DEF HandleApprove
    <3>2. msg \in ToClient
      BY DEF ToClient
    <3>3. reqStatus'[r] = "pending"
      <4>1. reqStatus' = [reqStatus EXCEPT ![r] = "pending"]
        BY <1>0, <3>1, SetOneStatus
      <4> QED BY <1>0, <4>1 DEF DatabaseType
    <3>4. SoundToClient(a, msg)'
      BY <2>2, <3>3 DEF SoundToClient, Authorised, Mine, LetThrough
    <3> HIDE DEF msg
    <3>5. \A x \in On(toClient'[b]) : x \in On(toClient[b]) \/ SoundToClient(b, x)'
      BY <1>0, <3>1, <3>2, <3>4, SentOn
    <3> QED BY <1>a, <2>0a, <2>2a, <3>5
  <2>4. CASE ~Decidable(a, r)
    <3>1. UNCHANGED toClient
      BY <1>3, <2>1, <2>4 DEF HandleApprove
    <3> QED BY <1>a, <2>0a, <2>2a, <3>1
  <2> QED BY <2>3, <2>4
<1>4. ASSUME NEW a \in Agents, HandleReject(a) PROVE WorkOf(b)'
  <2>0. Arrives(a, "reject") /\ Consume(a)
    BY <1>4 DEF HandleReject
  <2>0a. Head(toBroker[a]).req \in Requests /\ On(toBroker'[b]) \subseteq On(toBroker[b])
    <3>1. Head(toBroker[a]).req \in Requests
      BY <1>0, <2>0, ArrivesType DEF ToBroker
    <3> QED BY <1>0, <2>0, <3>1, ConsumeOn, ArrivesType
  <2>1. PICK r \in Requests : r = Head(toBroker[a]).req
    BY <2>0a
  <2> DEFINE msg == [type |-> "settled", req |-> r]
  <2>2. msg \in ToClient /\ SoundToClient(b, msg)'
    BY DEF ToClient, SoundToClient
  <2>3. SendToClient(a, msg) \/ UNCHANGED toClient
    BY <1>4, <2>1 DEF HandleReject
  <2> HIDE DEF msg
  <2>4. \A x \in On(toClient'[b]) : x \in On(toClient[b]) \/ SoundToClient(b, x)'
    BY <1>0, <2>2, <2>3, SentOn
  <2> QED BY <1>a, <1>4, <2>0a, <2>4 DEF HandleReject, clientVars
<1>5. ASSUME NEW a \in Agents, HandleResult(a) PROVE WorkOf(b)'
  <2>0. Arrives(a, "result") /\ Consume(a)
    BY <1>5 DEF HandleResult
  <2>0a. /\ Head(toBroker[a]) \in On(toBroker[a])
         /\ Head(toBroker[a]).type = "result" /\ Head(toBroker[a]).req \in Requests
         /\ On(toBroker'[b]) \subseteq On(toBroker[b])
    <3>1. Head(toBroker[a]).req \in Requests
      BY <1>0, <2>0, ArrivesType DEF ToBroker
    <3> QED BY <1>0, <2>0, <3>1, ConsumeOn, ArrivesType
  <2>1. PICK r \in Requests : r = Head(toBroker[a]).req
    BY <2>0a
  <2> DEFINE ack(accepted) == [type |-> "result.ack", req |-> r, accepted |-> accepted]
             settled == [type |-> "settled", req |-> r]
  <2>2. r \in Authorised(a)'
    BY <1>0, <2>0a, <2>1 DEF WorkOf, SoundToBroker
  <2>3. PICK accepted \in BOOLEAN : \/ SendBothToClient(a, settled, ack(accepted))
                                    \/ SendToClient(a, ack(accepted))
    <3> DEFINE closes == /\ ~AlreadyClosed(a, r)
                         /\ OwnsResult(a, r)
                         /\ reqStatus[r] \in ClosableFrom(Head(toBroker[a]).ok)
               accepted == AlreadyClosed(a, r) \/ closes
    <3>1. \/ SendBothToClient(a, settled, ack(accepted))
          \/ SendToClient(a, ack(accepted))
      BY <1>5, <2>1 DEF HandleResult
    <3>2. accepted \in BOOLEAN
      BY DEF AlreadyClosed, OwnsResult
    <3> HIDE DEF accepted
    <3> QED BY <3>1, <3>2
  <2> DEFINE msg == ack(accepted)
  <2>4. msg \in ToClient /\ settled \in ToClient
    BY <2>3 DEF ToClient
  <2>5. SoundToClient(a, msg)' /\ SoundToClient(a, settled)'
    BY <2>2 DEF SoundToClient
  <2>5a. SendBothToClient(a, settled, msg) \/ SendToClient(a, msg)
    BY <2>3
  <2> HIDE DEF msg, settled
  <2>6. \A x \in On(toClient'[b]) : x \in On(toClient[b]) \/ SoundToClient(b, x)'
    BY <1>0, <2>4, <2>5, <2>5a, SentOn, BothSentOn
  <2> QED BY <1>a, <1>5, <2>0a, <2>6 DEF HandleResult, clientVars
<1>6. ASSUME NEW a \in Agents, HandleGoodbye(a) PROVE WorkOf(b)'
  <2>1. /\ toClient'[b] = toClient[b] \/ toClient'[b] = <<>>
        /\ toBroker'[b] = toBroker[b] \/ toBroker'[b] = <<>>
    BY <1>0, <1>6 DEF HandleGoodbye, NetworkType
  <2> QED BY <1>a, <1>6, <2>1, OnEmpty DEF HandleGoodbye, clientVars
<1>7. CASE BrokerStops
  <2>1. toClient'[b] = <<>> /\ toBroker'[b] = <<>>
    BY <1>7 DEF BrokerStops
  <2> QED BY <1>a, <1>7, <2>1, OnEmpty DEF BrokerStops, clientVars
<1>8. ASSUME UNCHANGED <<remote, approvals, toClient, toBroker>> PROVE WorkOf(b)'
  BY <1>a, <1>8
<1>9. ASSUME NEW a \in Agents,
             GraceExpires(a) \/ DropCredentials(a) \/ JoinGroup(a) \/ BrokerStarts
      PROVE  WorkOf(b)'
  BY <1>8, <1>9 DEF GraceExpires, DropCredentials, JoinGroup, BrokerStarts, clientVars
<1>9a. ASSUME NEW a \in Agents, HandleUnexpectedDisconnect(a) \/ HelloLost(a) PROVE WorkOf(b)'
  <2>1. toBroker'[b] = toBroker[b] \/ toBroker'[b] = <<>>
    BY <1>0, <1>9a DEF HandleUnexpectedDisconnect, HelloLost, NetworkType
  <2>2. UNCHANGED <<remote, approvals, toClient>>
    BY <1>9a DEF HandleUnexpectedDisconnect, HelloLost, clientVars
  <2> QED BY <1>a, <2>1, <2>2, OnEmpty
<1>10. ASSUME NEW a \in Agents, RemoveMember(a) PROVE WorkOf(b)'
  <2> DEFINE msg == [type |-> "removed"]
  <2>1. msg \in ToClient /\ SoundToClient(b, msg)' /\ SendToClient(a, msg)
    BY <1>10 DEF RemoveMember, ToClient, SoundToClient
  <2> HIDE DEF msg
  <2>2. \A x \in On(toClient'[b]) : x \in On(toClient[b]) \/ SoundToClient(b, x)'
    BY <1>0, <2>1, SentOn
  <2> QED BY <1>a, <1>10, <2>2 DEF RemoveMember, clientVars
<1>11. ASSUME NEW a \in Agents, Connect(a) PROVE WorkOf(b)'
  <2> DEFINE kept == IF knownInstance[a] \in {0, instance} THEN remote[a] ELSE EmptyQueue
  <2>1. /\ toBroker' = [toBroker EXCEPT ![a] = ResultMessages(kept.results)]
        /\ UNCHANGED <<dbVars, approvals, pending>>
    BY <1>11 DEF Connect
  <2>2. PICK idle \in BOOLEAN : TryStartNext(a, kept, idle)
    BY <1>11 DEF Connect
  <2>3. PICK sent \in Resent(a, session'[a]) : toClient' = [toClient EXCEPT ![a] = sent]
    BY <1>11 DEF Connect
  <2>4. CASE b # a
    <3>1. remote'[b] = remote[b] /\ toBroker'[b] = toBroker[b] /\ toClient'[b] = toClient[b]
      BY <1>0, <2>1, <2>2, <2>3, <2>4 DEF TryStartNext, ExtensionType, NetworkType
    <3> QED BY <1>0, <2>1, <3>1, WorkKeptOutside
  <2>5. CASE b = a
    <3>1. /\ kept \in RemoteQueues /\ Holding(kept) \subseteq kept.seen
          /\ NoRepeats(kept.queue)
          /\ kept.seen \subseteq Authorised(a)'
      BY <1>0, EmptyQueueType, EmptyHolds DEF WorkOf
    <3> HIDE DEF kept
    <3>2. /\ remote'[a].seen = kept.seen /\ Holding(remote'[a]) = Holding(kept)
          /\ NoRepeats(remote'[a].queue)
      BY <1>0, <2>2, <3>1, TryStartHolds
    <3>3. toBroker'[a] = ResultMessages(kept.results) /\ toClient'[a] = sent
      BY <1>0, <2>1, <2>3 DEF NetworkType
    <3>4. \A x \in On(toBroker'[a]) : SoundToBroker(a, x)'
      BY <3>1, <3>3, ResultMessagesOn DEF SoundToBroker
    <3>5. up
      BY <1>11 DEF Connect, RegisterClient
    <3>6. \A x \in On(toClient'[a]) : SoundToClient(a, x)'
      <4> SUFFICES ASSUME NEW x \in On(sent) PROVE SoundToClient(a, x)'
        BY <3>3
      <4>1. \/ x.type = "deliver" /\ x.req \in Unacknowledged(a, session'[a])
            \/ x.type = "request.pending" /\ x.req \in Waiting(a, session'[a])
        BY ResentOn
      <4>2. CASE x.type = "deliver" /\ x.req \in Unacknowledged(a, session'[a])
        <5>1. x.req \in Mine(a) /\ pending[x.req].state = "delivering"
          BY <4>2 DEF Unacknowledged, EntriesOf, Mine
        <5>2. reqStatus'[x.req] \in LetThrough
          BY <2>1, <3>5, <5>1, AwaitingEntries DEF dbVars, Mine, LetThrough
        <5> QED BY <4>2, <5>1, <5>2 DEF SoundToClient, Authorised, Mine
      <4>3. CASE x.type = "request.pending" /\ x.req \in Waiting(a, session'[a])
        BY <4>3 DEF Waiting, EntriesOf, Mine, SoundToClient
      <4> QED BY <4>1, <4>2, <4>3
    <3>7. approvals'[a] \subseteq Mine(a)
      BY <1>0, <2>1 DEF WorkOf
    <3> QED BY <1>0, <2>5, <3>1, <3>2, <3>4, <3>6, <3>7, WorkKept
  <2> QED BY <2>4, <2>5
<1>12. ASSUME NEW a \in Agents, LinkBreak(a) PROVE WorkOf(b)'
  <2>1. toClient'[b] = toClient[b] \/ toClient'[b] = <<>>
    BY <1>0, <1>12 DEF LinkBreak, Detach, NetworkType
  <2>2. UNCHANGED <<remote, approvals, toBroker>>
    BY <1>12 DEF LinkBreak, clientVars
  <2> QED BY <1>a, <2>1, <2>2, OnEmpty
<1>13. ASSUME NEW a \in Agents, ReceiveDelivery(a) PROVE WorkOf(b)'
  <2>0. Reads(a, "deliver") /\ ConsumeAtClient(a)
    BY <1>13 DEF ReceiveDelivery
  <2>0a. /\ Head(toClient[a]) \in On(toClient[a])
         /\ Head(toClient[a]).type = "deliver" /\ Head(toClient[a]).req \in Requests
         /\ On(toClient'[b]) \subseteq On(toClient[b])
    BY <1>0, <2>0, ConsumeAtClientOn, ReadsType DEF ToClient
  <2>1. PICK r \in Requests : r = Head(toClient[a]).req
    BY <2>0a
  <2> DEFINE msg == [type |-> "deliver.ack", req |-> r]
             q == Enqueue(remote[a], r)
  <2>2. r \in Authorised(a)
    BY <1>0, <2>0a, <2>1 DEF WorkOf, SoundToClient
  <2>3. /\ approvals' = [approvals EXCEPT ![a] = @ \ {r}]
        /\ Reply(a, msg)
        /\ \E idle \in BOOLEAN : TryStartNext(a, q, idle /\ r \notin remote[a].seen)
    BY <1>13, <2>1 DEF ReceiveDelivery
  <2>4. PICK idle \in BOOLEAN : TryStartNext(a, q, idle)
    BY <2>3
  <2>5. msg \in ToBroker /\ SoundToBroker(a, msg)'
    <3>1. r \in Authorised(a)'
      BY <1>0, <2>2
    <3> QED BY <3>1 DEF ToBroker, SoundToBroker
  <2>6. \A x \in On(toBroker'[b]) : x \in On(toBroker[b]) \/ (b = a /\ x = msg)
    <3> HIDE DEF msg
    <3> QED BY <1>0, <2>3, <2>5, ReplyOn
  <2>7. q \in RemoteQueues /\ q.seen = remote[a].seen \cup {r}
        /\ Holding(q) \subseteq Holding(remote[a]) \cup {r} /\ NoRepeats(q.queue)
    <3>1. /\ q \in RemoteQueues /\ q.seen = remote[a].seen \cup {r}
          /\ Holding(q) \subseteq Holding(remote[a]) \cup {r}
      BY <1>0, EnqueueType, EnqueueHolds
    <3>2. NoRepeats(remote[a].queue) /\ On(remote[a].queue) \subseteq remote[a].seen
      BY <1>0 DEF WorkOf, Holding
    <3>3. remote[a].queue \in Seq(Requests)
      BY <1>0 DEF RemoteQueues
    <3>4. NoRepeats(q.queue)
      <4>1. CASE r \in remote[a].seen
        BY <1>0, <3>2, <4>1, EnqueueHolds
      <4>2. CASE r \notin remote[a].seen
        <5>1. q.queue = Append(remote[a].queue, r)
          BY <1>0, <4>2, EnqueueHolds
        <5>2. r \notin On(remote[a].queue)
          BY <3>2, <4>2
        <5> QED BY <3>2, <3>3, <5>1, <5>2, NoRepeatsAppend
      <4> QED BY <4>1, <4>2
    <3> QED BY <3>1, <3>4
  <2> HIDE DEF msg, q
  <2>8. CASE b # a
    <3>1. remote'[b] = remote[b] /\ approvals'[b] = approvals[b]
      BY <1>0, <2>3, <2>4, <2>8 DEF TryStartNext, ExtensionType
    <3> QED BY <1>0, <2>0a, <2>6, <2>8, <3>1, WorkKeptOutside
  <2>9. CASE b = a
    <3>1. /\ remote'[a].seen = q.seen /\ Holding(remote'[a]) = Holding(q)
          /\ NoRepeats(remote'[a].queue)
      BY <1>0, <2>4, <2>7, TryStartHolds
    <3>2. remote'[a].seen \subseteq Authorised(a)' /\ Holding(remote'[a]) \subseteq remote'[a].seen
      BY <1>0, <2>2, <2>7, <3>1 DEF WorkOf
    <3>3. approvals'[a] \subseteq Mine(a)
      BY <1>0, <2>3 DEF WorkOf, ExtensionType
    <3>4. /\ \A x \in On(toClient'[b]) : x \in On(toClient[b]) \/ SoundToClient(b, x)'
          /\ \A x \in On(toBroker'[b]) : x \in On(toBroker[b]) \/ SoundToBroker(b, x)'
      BY <2>0a, <2>5, <2>6
    <3> QED BY <1>0, <2>9, <3>1, <3>2, <3>3, <3>4, WorkKept
  <2> QED BY <2>8, <2>9
<1>14. ASSUME NEW a \in Agents, ReceiveApproval(a) PROVE WorkOf(b)'
  <2> DEFINE r == Head(toClient[a]).req
  <2>1. /\ Head(toClient[a]) \in On(toClient[a])
        /\ Head(toClient[a]).type = "request.pending"
        /\ \A x \in Agents : On(toClient'[x]) \subseteq On(toClient[x])
    BY <1>0, <1>14, ConsumeAtClientOn, ReadsType DEF ReceiveApproval
  <2>2. r \in Mine(a)
    BY <1>0, <2>1 DEF WorkOf, SoundToClient
  <2>3. approvals' = [approvals EXCEPT ![a] = @ \cup {r}] /\ UNCHANGED <<remote, toBroker>>
    BY <1>14 DEF ReceiveApproval
  <2> HIDE DEF r
  <2>4. approvals'[b] \subseteq Mine(b)
    BY <1>0, <2>2, <2>3 DEF WorkOf, ExtensionType
  <2>5. /\ remote'[b].seen \subseteq Authorised(b)'
        /\ Holding(remote'[b]) \subseteq remote'[b].seen
        /\ NoRepeats(remote'[b].queue)
    BY <1>0, <2>3 DEF WorkOf
  <2> QED BY <1>0, <2>1, <2>3, <2>4, <2>5, WorkKept
<1>15. ASSUME NEW a \in Agents, ReceiveSettled(a) PROVE WorkOf(b)'
  <2>1. \A x \in Agents : On(toClient'[x]) \subseteq On(toClient[x])
    BY <1>0, <1>15, ConsumeAtClientOn DEF ReceiveSettled
  <2>2. approvals'[b] \subseteq approvals[b] /\ UNCHANGED <<remote, toBroker>>
    BY <1>0, <1>15 DEF ReceiveSettled, ExtensionType
  <2>3. /\ approvals'[b] \subseteq Mine(b)
        /\ remote'[b].seen \subseteq Authorised(b)'
        /\ Holding(remote'[b]) \subseteq remote'[b].seen
        /\ NoRepeats(remote'[b].queue)
    BY <1>0, <2>2 DEF WorkOf
  <2> QED BY <1>0, <2>1, <2>2, <2>3, WorkKept
<1>b. ASSUME NEW a \in Agents, NEW q \in RemoteQueues,
             remote' = [remote EXCEPT ![a] = q], approvals' = approvals,
             q.seen \subseteq remote[a].seen, Holding(q) \subseteq q.seen, NoRepeats(q.queue),
             \A x \in On(toClient'[b]) : x \in On(toClient[b]) \/ SoundToClient(b, x)',
             \A x \in On(toBroker'[b]) : x \in On(toBroker[b]) \/ SoundToBroker(b, x)'
      PROVE  WorkOf(b)'
  <2>1. /\ approvals'[b] \subseteq Mine(b)
        /\ remote'[b].seen \subseteq Authorised(b)'
        /\ Holding(remote'[b]) \subseteq remote'[b].seen
        /\ NoRepeats(remote'[b].queue)
    BY <1>0, <1>b DEF WorkOf, ExtensionType
  <2> QED BY <1>0, <1>b, <2>1, WorkKept
<1>16. ASSUME NEW a \in Agents, ReceiveResultAck(a) PROVE WorkOf(b)'
  <2> DEFINE r == Head(toClient[a]).req
             q == AcknowledgeResult(remote[a], r)
  <2>1. /\ r \in Requests
        /\ \A x \in Agents : On(toClient'[x]) \subseteq On(toClient[x])
    BY <1>0, <1>16, ConsumeAtClientOn, ReadsType DEF ReceiveResultAck, ToClient
  <2>2. remote' = [remote EXCEPT ![a] = q] /\ UNCHANGED <<approvals, toBroker>>
    BY <1>16 DEF ReceiveResultAck
  <2> HIDE DEF r
  <2>3. /\ q \in RemoteQueues /\ q.seen = remote[a].seen /\ q.queue = remote[a].queue
        /\ Holding(q) \subseteq Holding(remote[a])
    BY <1>0, <2>1, AcknowledgeResultType, AcknowledgeHolds
  <2>4. Holding(q) \subseteq q.seen /\ NoRepeats(q.queue)
    BY <1>0, <2>3 DEF WorkOf
  <2> HIDE DEF q
  <2> QED BY <1>b, <2>1, <2>2, <2>3, <2>4
<1>17. ASSUME NEW a \in Agents, ReceiveRemoved(a) PROVE WorkOf(b)'
  <2>1. \A x \in Agents : On(toClient'[x]) \subseteq On(toClient[x])
    BY <1>0, <1>17, ConsumeAtClientOn DEF ReceiveRemoved
  <2>2. remote' = [remote EXCEPT ![a] = EmptyQueue] /\ UNCHANGED <<approvals, toBroker>>
    BY <1>17 DEF ReceiveRemoved
  <2> QED BY <1>b, <2>1, <2>2, EmptyQueueType, EmptyHolds
<1>18. ASSUME NEW a \in Agents, NEW q \in RemoteQueues, NEW idle \in BOOLEAN,
              TryStartNext(a, q, idle), approvals' = approvals,
              q.seen = remote[a].seen, Holding(q) = Holding(remote[a]), NoRepeats(q.queue),
              \A x \in On(toClient'[b]) : x \in On(toClient[b]) \/ SoundToClient(b, x)',
              \A x \in On(toBroker'[b]) : x \in On(toBroker[b]) \/ SoundToBroker(b, x)'
       PROVE  WorkOf(b)'
  <2>1. CASE b # a
    <3>1. remote'[b] = remote[b]
      BY <1>0, <1>18, <2>1, TryStartHolds
    <3> QED BY <1>0, <1>18, <3>1, WorkKeptOutside
  <2>2. CASE b = a
    <3>1. /\ remote'[a].seen = q.seen /\ Holding(remote'[a]) = Holding(q)
          /\ NoRepeats(remote'[a].queue)
      BY <1>18, TryStartHolds
    <3>2. /\ remote'[a].seen \subseteq Authorised(a)' /\ Holding(remote'[a]) \subseteq remote'[a].seen
          /\ approvals'[a] \subseteq Mine(a)
      BY <1>0, <1>18, <3>1 DEF WorkOf
    <3> QED BY <1>0, <1>18, <2>2, <3>1, <3>2, WorkKept
  <2> QED BY <2>1, <2>2
<1>19. ASSUME NEW a \in Agents, NEW q \in RemoteQueues, Flush(a, q), Holding(q) = Holding(remote[a])
       PROVE  \A x \in On(toBroker'[b]) : x \in On(toBroker[b]) \/ SoundToBroker(b, x)'
  <2>1. Holding(q) \subseteq Authorised(a)'
    BY <1>0, <1>19 DEF WorkOf
  <2>2. \A x \in On(toBroker'[b]) :
          x \in On(toBroker[b]) \/ (b = a /\ x.type = "result" /\ x.req \in Holding(q))
    BY <1>0, <1>19, FlushOn
  <2> QED BY <2>1, <2>2 DEF SoundToBroker
<1>20. ASSUME NEW a \in Agents, NEW ok \in BOOLEAN, Settle(a, ok) PROVE WorkOf(b)'
  <2> DEFINE result == [req |-> remote[a].active, ok |-> ok]
             q == CompleteActive(remote[a], result)
  <2>1. /\ Flush(a, q) /\ UNCHANGED <<approvals, toClient>>
        /\ remote[a].active # NoRequest
    BY <1>20 DEF Settle
  <2>2. PICK idle \in BOOLEAN : TryStartNext(a, q, idle)
    BY <1>20 DEF Settle
  <2>3. result \in Results /\ result.req = remote[a].active
    BY <1>0, <2>1 DEF Results, RemoteQueues
  <2> HIDE DEF result
  <2>4. /\ q \in RemoteQueues /\ q.seen = remote[a].seen /\ q.queue = remote[a].queue
        /\ Holding(q) = Holding(remote[a])
    BY <1>0, <2>3, CompleteActiveType, CompleteHolds
  <2> HIDE DEF q
  <2>5. NoRepeats(q.queue)
    BY <1>0, <2>4 DEF WorkOf
  <2>6. \A x \in On(toBroker'[b]) : x \in On(toBroker[b]) \/ SoundToBroker(b, x)'
    BY <1>19, <2>1, <2>4
  <2> QED BY <1>18, <2>1, <2>2, <2>4, <2>5, <2>6
<1>21. ASSUME NEW a \in Agents, SettleLocal(a) PROVE WorkOf(b)'
  <2>1. TryStartNext(a, remote[a], TRUE) /\ UNCHANGED <<approvals, toClient, toBroker>>
    BY <1>21 DEF SettleLocal
  <2>2. NoRepeats(remote[a].queue)
    BY <1>0 DEF WorkOf
  <2> QED BY <1>0, <1>18, <2>1, <2>2
<1>22. ASSUME NEW a \in Agents, RetryResults(a) PROVE WorkOf(b)'
  <2>1. \A x \in On(toBroker'[b]) : x \in On(toBroker[b]) \/ SoundToBroker(b, x)'
    BY <1>0, <1>19, <1>22 DEF RetryResults
  <2> QED BY <1>a, <1>22, <2>1 DEF RetryResults, clientVars
<1>23. ASSUME NEW a \in Agents, NEW r \in Requests, NEW decision \in {"approve", "reject"},
              Decide(a, r, decision)
       PROVE  WorkOf(b)'
  <2> DEFINE msg == [type |-> decision, req |-> r]
  <2>1. /\ r \in approvals[a] /\ Reply(a, msg)
        /\ UNCHANGED <<remote, approvals, toClient>>
    BY <1>23 DEF Decide, clientVars
  <2>2. r \in Mine(a)
    BY <1>0, <2>1 DEF WorkOf
  <2>3. msg \in ToBroker /\ SoundToBroker(a, msg)'
    BY <2>2 DEF ToBroker, SoundToBroker, Mine
  <2> HIDE DEF msg
  <2>4. \A x \in On(toBroker'[b]) : x \in On(toBroker[b]) \/ SoundToBroker(b, x)'
    BY <1>0, <2>1, <2>3, ReplyOn
  <2> QED BY <1>a, <2>1, <2>4
<1>24. ASSUME NEW a \in Agents, LeaveGroup(a) PROVE WorkOf(b)'
  <2> DEFINE msg == [type |-> "leave"]
  <2>1. /\ remote' = [remote EXCEPT ![a] = EmptyQueue] /\ Reply(a, msg)
        /\ UNCHANGED <<approvals, toClient>>
    BY <1>24 DEF LeaveGroup
  <2>2. msg \in ToBroker /\ SoundToBroker(a, msg)'
    BY DEF ToBroker, SoundToBroker
  <2> HIDE DEF msg
  <2>3. \A x \in On(toBroker'[b]) : x \in On(toBroker[b]) \/ SoundToBroker(b, x)'
    BY <1>0, <2>1, <2>2, ReplyOn
  <2> QED BY <1>b, <2>1, <2>3, EmptyQueueType, EmptyHolds
<1>25. ASSUME NEW a \in Agents, Quit(a) \/ Crash(a) PROVE WorkOf(b)'
  <2>1. FreshExtension(a)
    BY <1>25 DEF Quit, Crash
  <2>2. /\ approvals'[b] \subseteq approvals[b]
        /\ \/ remote'[b] = remote[b]
           \/ remote'[b] = EmptyQueue
    BY <1>0, <2>1 DEF FreshExtension, ExtensionType
  <2>3. /\ approvals'[b] \subseteq Mine(b)
        /\ remote'[b].seen \subseteq Authorised(b)'
        /\ Holding(remote'[b]) \subseteq remote'[b].seen
        /\ NoRepeats(remote'[b].queue)
    BY <1>0, <2>2, EmptyHolds DEF WorkOf
  <2>4. toClient'[b] = toClient[b] \/ toClient'[b] = <<>>
    BY <1>0, <1>25 DEF Quit, Crash, Detach, NetworkType
  <2> DEFINE msg == [type |-> "goodbye"]
  <2>5. Reply(a, msg) \/ UNCHANGED toBroker
    BY <1>25 DEF Quit, Crash
  <2>6. msg \in ToBroker /\ SoundToBroker(a, msg)'
    BY DEF ToBroker, SoundToBroker
  <2> HIDE DEF msg
  <2>7. \A x \in On(toBroker'[b]) : x \in On(toBroker[b]) \/ SoundToBroker(b, x)'
    BY <1>0, <2>5, <2>6, ReplyOn
  <2> QED BY <1>0, <2>3, <2>4, <2>7, OnEmpty, WorkKept
<1>26. CASE UNCHANGED vars
  BY <1>8, <1>26 DEF vars, clientVars
<1> QED
  BY <1>1, <1>2, <1>3, <1>4, <1>5, <1>6, <1>7, <1>9, <1>9a, <1>10, <1>11, <1>12, <1>13, <1>14,
     <1>15, <1>16, <1>17, <1>20, <1>21, <1>22, <1>23, <1>24, <1>25, <1>26
     DEF Next, BrokerReads, ExtensionReads, AgentSettles

LEMMA WorkAtFirst == Init => WorkInv
<1> SUFFICES ASSUME Init, NEW a \in Agents PROVE WorkOf(a)
  BY DEF WorkInv
<1>1. /\ toClient[a] = <<>> /\ toBroker[a] = <<>>
      /\ approvals[a] = {} /\ remote[a] = EmptyQueue
  BY DEF Init
<1> QED BY <1>1, OnEmpty, EmptyHolds DEF WorkOf

\* Whatever is lost, repeated, reordered or restarted, an extension holds, and
\* is sent, only work that is its own Agent's and that the permission let
\* through.
THEOREM OnlyAuthorisedWork == Spec => []WorkIsAuthorised
<1>1. WorkInv => WorkIsAuthorised
  <2> SUFFICES ASSUME WorkInv, NEW a \in Agents, NEW r \in Requests,
                      \/ r \in remote[a].seen
                      \/ \E i \in DOMAIN toClient[a] :
                           toClient[a][i] = [type |-> "deliver", req |-> r]
               PROVE  /\ TargetOf(r) = a
                      /\ reqStatus[r] \in LetThrough
    BY DEF WorkIsAuthorised, LetThrough
  <2>1. WorkOf(a)
    BY DEF WorkInv
  <2>2. CASE r \in remote[a].seen
    BY <2>1, <2>2 DEF WorkOf, Authorised, Mine
  <2>3. CASE \E i \in DOMAIN toClient[a] : toClient[a][i] = [type |-> "deliver", req |-> r]
    <3>1. [type |-> "deliver", req |-> r] \in On(toClient[a])
      BY <2>3 DEF On
    <3> QED BY <2>1, <3>1 DEF WorkOf, SoundToClient, Authorised, Mine
  <2> QED BY <2>2, <2>3
<1>2. Spec => []WorkInv
  BY WorkAtFirst, NextWork, TypeCorrect, MemoryMatchesDatabase, PTL DEF Spec
<1> QED BY <1>1, <1>2, PTL

------------------------------------------------------------------------------
(* Who is who: sessions, credentials and the clients that entries belong to  *)

\* Client ids are handed out once per session, so credentials are those of the
\* registered session or of none that will come; who holds them has seen a
\* snapshot of this very broker.
SessionOf(a) ==
  /\ clientId[a] <= lastClient[a] /\ session[a] <= lastClient[a]
  /\ link[a] # "none" => session[a] # 0
  /\ session[a] # 0 => up
  /\ link[a] = "live" => clientId[a] = session[a]
  /\ clientId[a] # 0 /\ clientId[a] = session[a] => knownInstance[a] = instance

\* An entry is addressed to a client that its target's session once was.
EntriesAddressed(a) ==
  \A r \in Mine(a) : pending[r].state # "none" => pending[r].client \in 1..lastClient[a]

IdsInv == \A a \in Agents : SessionOf(a) /\ EntriesAddressed(a)

\* Credentials of a client that is already known become those of the session
\* only if they were.
LEMMA NextSession ==
  ASSUME TypeOK, [Next]_vars, NEW b \in Agents, SessionOf(b)
  PROVE  /\ SessionOf(b)' /\ lastClient'[b] >= lastClient[b]
         /\ clientId'[b] \in 1..lastClient[b] /\ clientId'[b] = session'[b] =>
              clientId[b] = clientId'[b] /\ session[b] = session'[b]
<1> DEFINE Goal == /\ SessionOf(b)' /\ lastClient'[b] >= lastClient[b]
                   /\ clientId'[b] \in 1..lastClient[b] /\ clientId'[b] = session'[b] =>
                        clientId[b] = clientId'[b] /\ session[b] = session'[b]
<1> SUFFICES Goal
  OBVIOUS
<1>0. /\ clientId \in [Agents -> Nat] /\ session \in [Agents -> Nat]
      /\ lastClient \in [Agents -> Nat] /\ knownInstance \in [Agents -> Nat]
      /\ link \in [Agents -> Links] /\ instance \in Nat
  BY DEF TypeOK, BrokerType, ExtensionType, NetworkType
<1>1. ASSUME UNCHANGED <<clientId, lastClient, session, link, up, knownInstance, instance>>
      PROVE  Goal
  BY <1>0, <1>1 DEF SessionOf
<1>2. ASSUME NEW m \in Messages, ChatSend(m) PROVE Goal
  BY <1>1, <1>2 DEF ChatSend, clientVars
<1>3. ASSUME NEW a \in Agents,
             \/ HandleDeliverAck(a) \/ HandleApprove(a) \/ HandleReject(a)
             \/ HandleResult(a) \/ HandleLeave(a) \/ RemoveMember(a) \/ JoinGroup(a)
      PROVE  Goal
  BY <1>1, <1>3 DEF HandleDeliverAck, HandleApprove, HandleReject, HandleResult, HandleLeave,
                    RemoveMember, JoinGroup, clientVars
<1>4. ASSUME NEW a \in Agents,
             \/ ReceiveDelivery(a) \/ ReceiveApproval(a) \/ ReceiveSettled(a)
             \/ ReceiveResultAck(a) \/ ReceiveRemoved(a)
      PROVE  Goal
  BY <1>1, <1>4 DEF ReceiveDelivery, ReceiveApproval, ReceiveSettled, ReceiveResultAck,
                    ReceiveRemoved, brokerVars
<1>5. ASSUME NEW a \in Agents,
             \/ AgentSettles(a) \/ RetryResults(a) \/ LeaveGroup(a)
             \/ \E r \in Requests : Decide(a, r, "approve") \/ Decide(a, r, "reject")
      PROVE  Goal
  BY <1>1, <1>5 DEF AgentSettles, SettleLocal, Settle, RetryResults, LeaveGroup, Decide,
                    brokerVars, clientVars
<1>6. ASSUME NEW a \in Agents, HandleGoodbye(a) PROVE Goal
  <2>1. /\ session' = [session EXCEPT ![a] = 0] /\ link' = [link EXCEPT ![a] = "none"]
        /\ UNCHANGED <<clientId, lastClient, up, knownInstance, instance>>
    BY <1>6 DEF HandleGoodbye, clientVars
  <2> QED BY <1>0, <2>1 DEF SessionOf
<1>7. ASSUME NEW a \in Agents, HandleUnexpectedDisconnect(a) PROVE Goal
  <2>1. /\ link' = [link EXCEPT ![a] = "none"]
        /\ UNCHANGED <<clientId, session, lastClient, up, knownInstance, instance>>
    BY <1>7 DEF HandleUnexpectedDisconnect, clientVars, brokerVars
  <2> QED BY <1>0, <2>1 DEF SessionOf
<1>8. ASSUME NEW a \in Agents, GraceExpires(a) PROVE Goal
  <2>1. /\ session' = [session EXCEPT ![a] = 0] /\ link[a] = "none"
        /\ UNCHANGED <<clientId, lastClient, link, up, knownInstance, instance>>
    BY <1>8 DEF GraceExpires, clientVars
  <2> QED BY <1>0, <2>1 DEF SessionOf
<1>9. ASSUME NEW a \in Agents, DropCredentials(a) PROVE Goal
  <2>1. /\ clientId' = [clientId EXCEPT ![a] = 0] /\ link[a] # "live"
        /\ UNCHANGED <<session, lastClient, link, up, knownInstance, instance>>
    BY <1>9 DEF DropCredentials, brokerVars
  <2> QED BY <1>0, <2>1 DEF SessionOf
<1>10. ASSUME NEW a \in Agents, RegisterClient(a)
       PROVE  /\ up /\ clientId[a] = session[a]
              /\ \/ /\ session[a] = 0
                    /\ session'[a] = lastClient[a] + 1 /\ lastClient'[a] = lastClient[a] + 1
                 \/ session[a] # 0 /\ session'[a] = session[a] /\ lastClient'[a] = lastClient[a]
              /\ \A c \in Agents \ {a} : session'[c] = session[c] /\ lastClient'[c] = lastClient[c]
  BY <1>0, <1>10 DEF RegisterClient
<1>11. ASSUME NEW a \in Agents, Connect(a) PROVE Goal
  <2>1. /\ link' = [link EXCEPT ![a] = "live"]
        /\ clientId' = [clientId EXCEPT ![a] = session'[a]]
        /\ knownInstance' = [knownInstance EXCEPT ![a] = instance]
        /\ UNCHANGED <<up, instance>>
    BY <1>11 DEF Connect
  <2>2. RegisterClient(a)
    BY <1>11 DEF Connect
  <2>3. CASE b = a
    BY <1>0, <1>10, <2>1, <2>2, <2>3 DEF SessionOf
  <2>4. CASE b # a
    BY <1>0, <1>10, <2>1, <2>2, <2>4 DEF SessionOf
  <2> QED BY <2>3, <2>4
<1>12. ASSUME NEW a \in Agents, HelloLost(a) PROVE Goal
  <2>1. /\ link' = [link EXCEPT ![a] = "half"]
        /\ UNCHANGED <<up, instance, clientId, knownInstance>>
    BY <1>12 DEF HelloLost, clientVars
  <2>2. RegisterClient(a)
    BY <1>12 DEF HelloLost
  <2>3. CASE b = a
    BY <1>0, <1>10, <2>1, <2>2, <2>3 DEF SessionOf
  <2>4. CASE b # a
    BY <1>0, <1>10, <2>1, <2>2, <2>4 DEF SessionOf
  <2> QED BY <2>3, <2>4
<1>13. ASSUME NEW a \in Agents, LinkBreak(a) PROVE Goal
  <2>1. /\ link' = [link EXCEPT ![a] = "half"] /\ link[a] = "live"
        /\ UNCHANGED <<clientId, session, lastClient, up, knownInstance, instance>>
    BY <1>13 DEF LinkBreak, Detach, brokerVars, clientVars
  <2> QED BY <1>0, <2>1 DEF SessionOf
<1>14. CASE BrokerStops
  <2>1. /\ session' = [a \in Agents |-> 0] /\ link' = [a \in Agents |-> "none"]
        /\ UNCHANGED <<clientId, lastClient, knownInstance, instance>>
    BY <1>14 DEF BrokerStops, clientVars
  <2> QED BY <1>0, <2>1 DEF SessionOf
<1>15. CASE BrokerStarts
  <2>1. /\ ~up /\ up'
        /\ UNCHANGED <<clientId, session, lastClient, link, knownInstance>>
    BY <1>15 DEF BrokerStarts, clientVars
  <2> QED BY <1>0, <2>1 DEF SessionOf
<1>16. ASSUME NEW a \in Agents, Quit(a) \/ Crash(a) PROVE Goal
  <2>1. /\ clientId' = [clientId EXCEPT ![a] = 0]
        /\ knownInstance' = [knownInstance EXCEPT ![a] = 0]
        /\ \/ link[a] = "live" /\ link' = [link EXCEPT ![a] = "half"]
           \/ link[a] # "live" /\ link' = link
        /\ UNCHANGED <<session, lastClient, up, instance>>
    BY <1>16 DEF Quit, Crash, FreshExtension, Detach, brokerVars
  <2> QED BY <1>0, <2>1 DEF SessionOf
<1>17. CASE UNCHANGED vars
  BY <1>1, <1>17 DEF vars, brokerVars, clientVars
<1>a. ASSUME NEW a \in Agents,
             \/ BrokerReads(a) \/ HandleUnexpectedDisconnect(a) \/ GraceExpires(a)
             \/ RemoveMember(a) \/ DropCredentials(a) \/ Connect(a) \/ HelloLost(a)
             \/ LinkBreak(a) \/ JoinGroup(a) \/ ExtensionReads(a) \/ AgentSettles(a)
             \/ RetryResults(a) \/ LeaveGroup(a) \/ Quit(a) \/ Crash(a)
             \/ \E r \in Requests : Decide(a, r, "approve") \/ Decide(a, r, "reject")
      PROVE  Goal
  <2> HIDE DEF Goal
  <2> QED BY <1>3, <1>4, <1>5, <1>6, <1>7, <1>8, <1>9, <1>11, <1>12, <1>13, <1>16, <1>a
          DEF BrokerReads, ExtensionReads
<1> HIDE DEF Goal
<1> QED BY <1>2, <1>a, <1>14, <1>15, <1>17 DEF Next

\* Where an entry comes from: it was there before, addressed to the same
\* client, or its message is only now sent.
Asking(r) == /\ reqStatus[r] = "none" /\ link[TargetOf(r)] # "none"
             /\ pending'[r].client = session[TargetOf(r)] /\ ~pending'[r].acked
             /\ UNCHANGED <<toBroker, session, lastClient, clientVars>>

Keeping(r) == /\ pending[r].state # "none"
              /\ pending'[r].client = pending[r].client
              /\ pending'[r].acked =>
                   \/ pending[r].acked
                   \/ \E a \in Agents : [type |-> "deliver.ack", req |-> r] \in On(toBroker[a])

LEMMA EntryStep ==
  ASSUME TypeOK, [Next]_vars, NEW r \in Requests, pending'[r].state # "none"
  PROVE  Asking(r) \/ Keeping(r)
<1>0. /\ pending \in [Requests -> Entries] /\ NetworkType
      /\ NoEntry.state = "none"
  BY DEF TypeOK, BrokerType, NoEntry
<1>1. ASSUME UNCHANGED pending PROVE Keeping(r)
  BY <1>1 DEF Keeping
<1>2. ASSUME NEW m \in Messages, ChatSend(m) PROVE Asking(r) \/ Keeping(r)
  <2>1. PICK T \in SUBSET Agents, hasTask \in BOOLEAN : \E out \in [T -> RequestStatus] :
          (\A a \in T : out[a] \in Outcomes(a, hasTask)) /\ AddressTargets(m, T, out)
    BY <1>2 DEF ChatSend
  <2>2. PICK out \in [T -> RequestStatus] :
          (\A a \in T : out[a] \in Outcomes(a, hasTask)) /\ AddressTargets(m, T, out)
    BY <2>1
  <2>3. r = <<MessageOf(r), TargetOf(r)>> /\ TargetOf(r) \in Agents
    BY DEF Requests, MessageOf, TargetOf
  <2> DEFINE opened == /\ MessageOf(r) = m /\ TargetOf(r) \in T
                       /\ out[TargetOf(r)] \in {"pending", "awaiting_approval"}
  <2>4. CASE ~opened
    <3>1. pending'[r] = pending[r]
      BY <2>2, <2>4 DEF AddressTargets
    <3> QED BY <3>1 DEF Keeping
  <2>5. CASE opened
    <3>1. \E state : pending'[r] = Entry(state, session[TargetOf(r)])
      BY <2>2, <2>5 DEF AddressTargets
    <3>2. pending'[r].client = session[TargetOf(r)] /\ ~pending'[r].acked
      BY <3>1 DEF Entry
    <3>3. reqStatus[r] = "none"
      BY <1>2, <2>3, <2>5 DEF ChatSend, Asked
    <3>4. link[TargetOf(r)] # "none"
      BY <2>2, <2>3, <2>5 DEF Outcomes
    <3>5. UNCHANGED <<toBroker, session, lastClient, clientVars>>
      BY <1>2 DEF ChatSend
    <3> QED BY <3>2, <3>3, <3>4, <3>5 DEF Asking
  <2> QED BY <2>4, <2>5
<1>3. ASSUME NEW a \in Agents, HandleDeliverAck(a) PROVE Keeping(r)
  <2>1. Arrives(a, "deliver.ack") /\ Consume(a)
    BY <1>3 DEF HandleDeliverAck
  <2>1a. Head(toBroker[a]) \in ToBroker /\ Head(toBroker[a]).type = "deliver.ack"
    BY <1>0, <2>1, ArrivesType
  <2>2. PICK x \in Requests : x = Head(toBroker[a]).req
    BY <2>1a DEF ToBroker
  <2>3. Head(toBroker[a]) = [type |-> "deliver.ack", req |-> x]
    BY <2>1a, <2>2 DEF ToBroker
  <2>4. [type |-> "deliver.ack", req |-> x] \in On(toBroker[a])
    BY <1>0, <2>1, <2>3, ConsumeOn
  <2>5. pending' = [pending EXCEPT ![x].acked = TRUE] \/ UNCHANGED pending
    BY <1>3, <2>2 DEF HandleDeliverAck
  <2>6. \/ pending'[r] = pending[r]
        \/ x = r /\ pending'[r] = [pending[r] EXCEPT !.acked = TRUE]
    BY <1>0, <2>5
  <2>7. CASE x = r /\ pending'[r] = [pending[r] EXCEPT !.acked = TRUE]
    <3>1. pending[r] \in Entries
      BY <1>0
    <3>2. pending'[r].client = pending[r].client /\ pending'[r].state = pending[r].state
      BY <2>7, <3>1 DEF Entries
    <3> QED BY <2>4, <2>7, <3>2 DEF Keeping
  <2> QED BY <2>6, <2>7 DEF Keeping
<1>4. ASSUME NEW a \in Agents, HandleApprove(a) PROVE Keeping(r)
  <2>1. PICK x : \/ UNCHANGED pending
                 \/ pending' = [pending EXCEPT ![x].state = "delivering"] /\ Decidable(a, x)
    BY <1>4 DEF HandleApprove
  <2>2. \/ pending'[r] = pending[r]
        \/ /\ pending[r].state = "awaiting_approval"
           /\ pending'[r] = [pending[r] EXCEPT !.state = "delivering"]
    BY <1>0, <2>1 DEF Decidable
  <2>3. CASE /\ pending[r].state = "awaiting_approval"
             /\ pending'[r] = [pending[r] EXCEPT !.state = "delivering"]
    <3>1. pending[r] \in Entries
      BY <1>0
    <3>2. pending'[r].client = pending[r].client /\ pending'[r].acked = pending[r].acked
      BY <2>3, <3>1 DEF Entries
    <3> QED BY <2>3, <3>2 DEF Keeping
  <2> QED BY <2>2, <2>3 DEF Keeping
<1>5. ASSUME pending'[r] = pending[r] \/ pending'[r] = NoEntry PROVE Keeping(r)
  BY <1>0, <1>5 DEF Keeping
<1>6. ASSUME NEW a \in Agents, HandleReject(a) PROVE Keeping(r)
  <2>1. PICK x : pending' = pending \/ pending' = [pending EXCEPT ![x] = NoEntry]
    BY <1>6 DEF HandleReject
  <2> QED BY <1>0, <1>5, <2>1
<1>7. ASSUME NEW a \in Agents, HandleResult(a) PROVE Keeping(r)
  <2>1. PICK x : pending' = pending \/ pending' = [pending EXCEPT ![x] = NoEntry]
    BY <1>7 DEF HandleResult, CloseByResult
  <2> QED BY <1>0, <1>5, <2>1
<1>8. ASSUME NEW a \in Agents, HandleLeave(a) \/ HandleGoodbye(a) \/ GraceExpires(a)
      PROVE  Keeping(r)
  <2>1. FailRequestsForTarget(a) \/ UNCHANGED pending
    BY <1>8 DEF HandleLeave, HandleGoodbye, GraceExpires, LeaveClientGroup
  <2> QED BY <1>5, <2>1 DEF FailRequestsForTarget
<1>9. CASE BrokerStops
  BY <1>5, <1>9 DEF BrokerStops
<1>10. ASSUME NEW a \in Agents,
              \/ HandleUnexpectedDisconnect(a) \/ RemoveMember(a) \/ DropCredentials(a)
              \/ Connect(a) \/ HelloLost(a) \/ LinkBreak(a) \/ JoinGroup(a)
       PROVE  Keeping(r)
  BY <1>1, <1>10 DEF HandleUnexpectedDisconnect, RemoveMember, DropCredentials, Connect,
                     HelloLost, LinkBreak, JoinGroup, brokerVars
<1>11. ASSUME NEW a \in Agents, ExtensionReads(a) PROVE Keeping(r)
  BY <1>1, <1>11 DEF ExtensionReads, ReceiveDelivery, ReceiveApproval, ReceiveSettled,
                     ReceiveResultAck, ReceiveRemoved, brokerVars
<1>12. ASSUME NEW a \in Agents,
              \/ AgentSettles(a) \/ RetryResults(a) \/ LeaveGroup(a) \/ Quit(a) \/ Crash(a)
              \/ \E x \in Requests : Decide(a, x, "approve") \/ Decide(a, x, "reject")
       PROVE  Keeping(r)
  BY <1>1, <1>12 DEF AgentSettles, SettleLocal, Settle, RetryResults, LeaveGroup, Quit,
                     Crash, Decide, brokerVars
<1>13. CASE BrokerStarts \/ UNCHANGED vars
  BY <1>1, <1>13 DEF BrokerStarts, vars, brokerVars
<1> QED
  BY <1>2, <1>3, <1>4, <1>6, <1>7, <1>8, <1>9, <1>10, <1>11, <1>12, <1>13
     DEF Next, BrokerReads

LEMMA NextIds == TypeOK /\ IdsInv /\ [Next]_vars => IdsInv'
<1> SUFFICES ASSUME TypeOK, IdsInv, [Next]_vars, NEW b \in Agents
             PROVE  SessionOf(b)' /\ EntriesAddressed(b)'
  BY DEF IdsInv
<1>1. SessionOf(b) /\ EntriesAddressed(b) /\ SessionOf(b)' /\ lastClient'[b] >= lastClient[b]
  BY NextSession DEF IdsInv
<1>2. lastClient[b] \in Nat /\ session[b] \in Nat
  BY DEF TypeOK, BrokerType
<1>2a. lastClient'[b] \in Nat
  BY NextType DEF TypeOK, BrokerType
<1>3. ASSUME NEW r \in Mine(b), pending'[r].state # "none"
      PROVE  pending'[r].client \in 1..lastClient'[b]
  <2>1. r \in Requests /\ TargetOf(r) = b
    BY DEF Mine
  <2>2. pending'[r].client \in 1..lastClient[b]
    <3>1. CASE Asking(r)
      <4>1. pending'[r].client = session[b] /\ session[b] # 0 /\ session[b] <= lastClient[b]
        BY <1>1, <2>1, <3>1 DEF Asking, SessionOf
      <4> QED BY <1>2, <4>1
    <3>2. CASE Keeping(r)
      BY <1>1, <3>2 DEF Keeping, EntriesAddressed
    <3> QED BY <1>3, <2>1, <3>1, <3>2, EntryStep
  <2> QED BY <1>1, <1>2, <1>2a, <2>2
<1>4. EntriesAddressed(b)'
  BY <1>3 DEF EntriesAddressed, Mine
<1> QED BY <1>1, <1>4

------------------------------------------------------------------------------
(* What a request that was handed over is doing                              *)

\* Nobody leaves the group or is removed from it.  Both empty the RemoteQueue
\* while the broker still counts on it: see the run in which RunsOnce fails.
NobodyLeaves == Faults \cap {"leave", "remove"} = {}

Ack(r) == [type |-> "deliver.ack", req |-> r]
Deliver(r) == [type |-> "deliver", req |-> r]

\* The entry is addressed to the client that the extension now is.
Present(a, r) == /\ pending[r].state # "none"
                 /\ pending[r].client = session[a]
                 /\ clientId[a] = session[a]

\* A present request that the extension acknowledged, has acknowledged on the
\* way, or ever ran is one it has seen; what it has seen it still holds, for
\* the acknowledgement of a result is only sent for an entry that is gone.
HandsOf(a, r) ==
  /\ Present(a, r) => /\ r \in remote[a].seen => r \in Holding(remote[a])
                      /\ pending[r].acked => r \in remote[a].seen
                      /\ Ack(r) \in On(toBroker[a]) => r \in remote[a].seen
                      /\ runs[r] > 0 => r \in remote[a].seen
                      /\ \A x \in On(toClient[a]) : x.type = "result.ack" => x.req # r
  /\ runs[r] > 0 => reqStatus[r] \in LetThrough
  /\ runs[r] <= 1
  /\ r \in On(remote[a].queue) => runs[r] = 0
  /\ Deliver(r) \in On(toClient[a]) /\ runs[r] > 0 => r \in remote[a].seen

\* A request that a client's result closed has ended.
ClosedEnded == \A r \in Requests : completedBy[r] # 0 => reqStatus[r] \in Terminal

HandsInv ==
  /\ ClosedEnded
  /\ \A a \in Agents : /\ \A x \in On(toClient[a]) : x.type # "removed"
                       /\ \A r \in Mine(a) : HandsOf(a, r)

\* A client whose connection is not live has nothing left to read.
Silent == \A a \in Agents : link[a] # "live" => toClient[a] = <<>>

LEMMA NextSilent == TypeOK /\ Silent /\ [Next]_vars => Silent'
<1> SUFFICES ASSUME TypeOK, Silent, [Next]_vars, NEW b \in Agents, link'[b] # "live"
             PROVE  toClient'[b] = <<>>
  BY DEF Silent
<1> DEFINE Goal == toClient'[b] = <<>>
<1> SUFFICES Goal
  OBVIOUS
<1>0. /\ link \in [Agents -> Links]
      /\ toClient \in [Agents -> Seq(ToClient)]
      /\ link[b] # "live" => toClient[b] = <<>>
  BY DEF TypeOK, NetworkType, Silent
<1>1. ASSUME link'[b] = link[b], toClient'[b] = toClient[b] \/ link[b] = "live" PROVE Goal
  BY <1>0, <1>1
<1>2. ASSUME NEW m \in Messages, ChatSend(m) PROVE Goal
  <2>1. UNCHANGED link /\ (toClient'[b] = toClient[b] \/ link[b] = "live")
    BY <1>2 DEF ChatSend, AddressTargets, Sent
  <2> QED BY <1>1, <2>1
<1>3. ASSUME NEW a \in Agents,
             \/ HandleDeliverAck(a) \/ HandleApprove(a) \/ HandleReject(a) \/ HandleResult(a)
             \/ HandleLeave(a) \/ RemoveMember(a)
      PROVE  Goal
  <2>1. UNCHANGED link
    BY <1>3 DEF HandleDeliverAck, HandleApprove, HandleReject, HandleResult, HandleLeave,
                RemoveMember
  <2>2. CASE HandleDeliverAck(a) \/ HandleLeave(a)
    BY <1>1, <2>1, <2>2 DEF HandleDeliverAck, HandleLeave
  <2>3. CASE HandleApprove(a) \/ HandleReject(a) \/ RemoveMember(a)
    <3>1. UNCHANGED toClient \/ \E msg : SendToClient(a, msg)
      BY <2>3 DEF HandleApprove, HandleReject, RemoveMember
    <3> QED BY <1>0, <1>1, <2>1, <3>1 DEF SendToClient, Sent
  <2>4. CASE HandleResult(a)
    <3>1. \/ \E msg : SendToClient(a, msg)
          \/ \E msg, other : SendBothToClient(a, msg, other)
      BY <2>4 DEF HandleResult
    <3> QED BY <1>0, <1>1, <2>1, <3>1 DEF SendToClient, SendBothToClient, Sent
  <2> QED BY <1>3, <2>2, <2>3, <2>4
<1>4. ASSUME NEW a \in Agents, HandleGoodbye(a) PROVE Goal
  BY <1>0, <1>4 DEF HandleGoodbye
<1>5. ASSUME NEW a \in Agents,
             \/ HandleUnexpectedDisconnect(a) \/ HelloLost(a)
      PROVE  Goal
  <2>1. UNCHANGED toClient /\ link[a] # "live" /\ \E l : link' = [link EXCEPT ![a] = l]
    BY <1>5 DEF HandleUnexpectedDisconnect, HelloLost, RegisterClient
  <2> QED BY <1>0, <2>1
<1>6. ASSUME NEW a \in Agents, GraceExpires(a) \/ DropCredentials(a) \/ JoinGroup(a) PROVE Goal
  BY <1>1, <1>6 DEF GraceExpires, DropCredentials, JoinGroup
<1>7. ASSUME NEW a \in Agents, Connect(a) PROVE Goal
  <2>1. /\ link' = [link EXCEPT ![a] = "live"]
        /\ \E sent : toClient' = [toClient EXCEPT ![a] = sent]
    BY <1>7 DEF Connect
  <2> QED BY <1>0, <2>1
<1>8. ASSUME NEW a \in Agents, LinkBreak(a) \/ Quit(a) \/ Crash(a) PROVE Goal
  <2>1. Detach(a) \/ UNCHANGED <<link, toClient>>
    BY <1>8 DEF LinkBreak, Quit, Crash
  <2> QED BY <1>0, <2>1 DEF Detach
<1>9. CASE BrokerStops
  BY <1>9 DEF BrokerStops
<1>10. CASE BrokerStarts \/ UNCHANGED vars
  BY <1>1, <1>10 DEF BrokerStarts, vars
<1>11. ASSUME NEW a \in Agents, ExtensionReads(a) PROVE Goal
  <2>1. link[a] = "live" /\ UNCHANGED link /\ ConsumeAtClient(a)
    BY <1>11 DEF ExtensionReads, ReceiveDelivery, ReceiveApproval, ReceiveSettled,
                 ReceiveResultAck, ReceiveRemoved, Reads
  <2> QED BY <1>0, <1>1, <2>1 DEF ConsumeAtClient
<1>12. ASSUME NEW a \in Agents,
              \/ AgentSettles(a) \/ RetryResults(a) \/ LeaveGroup(a)
              \/ \E r \in Requests : Decide(a, r, "approve") \/ Decide(a, r, "reject")
       PROVE  Goal
  BY <1>1, <1>12 DEF AgentSettles, SettleLocal, Settle, RetryResults, LeaveGroup, Decide
<1> QED
  BY <1>2, <1>3, <1>4, <1>5, <1>6, <1>7, <1>8, <1>9, <1>10, <1>11, <1>12
     DEF Next, BrokerReads

Good == TypeOK /\ PendingMatchesRows /\ WorkInv /\ IdsInv /\ HandsInv /\ Silent

LEMMA NextClosed ==
  ASSUME TypeOK, ClosedEnded, [Next]_vars
  PROVE  ClosedEnded'
<1>0. /\ DatabaseType /\ NetworkType /\ completedBy \in [Requests -> Nat]
      /\ \A r \in Requests : reqStatus[r] \in Terminal => reqStatus'[r] \in Terminal
  BY NextRows, EndedStays DEF TypeOK, BrokerType
<1>1. ASSUME \A r \in Requests : completedBy'[r] \in {0, completedBy[r]} PROVE ClosedEnded'
  BY <1>0, <1>1 DEF ClosedEnded
<1>2. ASSUME NEW a \in Agents, HandleResult(a) PROVE ClosedEnded'
  <2>1. Head(toBroker[a]).req \in Requests
    BY SMTT(30), <1>0, <1>2, ArrivesType DEF HandleResult, ToBroker
  <2>2. PICK r \in Requests : \E ok : CloseByResult(a, r, ok) \/ UNCHANGED completedBy
    BY <1>2, <2>1 DEF HandleResult
  <2>3. PICK ok : CloseByResult(a, r, ok) \/ UNCHANGED completedBy
    BY <2>2
  <2>4. CASE CloseByResult(a, r, ok)
    <3>1. /\ SetStatus({r}, [x \in {r} |-> IF ok THEN "completed" ELSE "failed"])
          /\ completedBy' = [completedBy EXCEPT ![r] = session[a]]
      BY <2>4 DEF CloseByResult
    <3>2. reqStatus' = [reqStatus EXCEPT ![r] = IF ok THEN "completed" ELSE "failed"]
      BY <1>0, <3>1, SetOneStatus
    <3>3. reqStatus'[r] \in Terminal
      BY <1>0, <3>2 DEF DatabaseType, Terminal
    <3>4. \A x \in Requests \ {r} : completedBy'[x] = completedBy[x]
      BY <1>0, <3>1
    <3> QED BY <1>0, <3>3, <3>4 DEF ClosedEnded
  <2> QED BY <1>1, <2>3, <2>4
<1>3. CASE BrokerStops
  BY <1>1, <1>3 DEF BrokerStops
<1>4. ASSUME UNCHANGED completedBy PROVE ClosedEnded'
  BY <1>1, <1>4
<1>5. ASSUME NEW m \in Messages, ChatSend(m) PROVE ClosedEnded'
  BY <1>4, <1>5 DEF ChatSend
<1>6. ASSUME NEW a \in Agents,
             \/ HandleDeliverAck(a) \/ HandleApprove(a) \/ HandleReject(a) \/ HandleLeave(a)
             \/ HandleGoodbye(a) \/ GraceExpires(a) \/ HandleUnexpectedDisconnect(a)
             \/ RemoveMember(a) \/ DropCredentials(a) \/ Connect(a) \/ HelloLost(a)
             \/ LinkBreak(a) \/ JoinGroup(a)
      PROVE  ClosedEnded'
  BY <1>4, <1>6 DEF HandleDeliverAck, HandleApprove, HandleReject, HandleLeave, HandleGoodbye,
                    GraceExpires, HandleUnexpectedDisconnect, RemoveMember, DropCredentials,
                    Connect, HelloLost, LinkBreak, JoinGroup, brokerVars
<1>7. ASSUME NEW a \in Agents, ExtensionReads(a) PROVE ClosedEnded'
  BY <1>4, <1>7 DEF ExtensionReads, ReceiveDelivery, ReceiveApproval, ReceiveSettled,
                    ReceiveResultAck, ReceiveRemoved, brokerVars
<1>8. ASSUME NEW a \in Agents,
             \/ AgentSettles(a) \/ RetryResults(a) \/ LeaveGroup(a) \/ Quit(a) \/ Crash(a)
             \/ \E x \in Requests : Decide(a, x, "approve") \/ Decide(a, x, "reject")
      PROVE  ClosedEnded'
  BY <1>4, <1>8 DEF AgentSettles, SettleLocal, Settle, RetryResults, LeaveGroup, Quit,
                    Crash, Decide, brokerVars
<1>9. CASE BrokerStarts \/ UNCHANGED vars
  BY <1>4, <1>9 DEF BrokerStarts, vars, brokerVars
<1> QED
  BY <1>2, <1>3, <1>5, <1>6, <1>7, <1>8, <1>9 DEF Next, BrokerReads

\* A present request was present before, unless it is only now asked.
LEMMA PresentStep ==
  ASSUME TypeOK, IdsInv, [Next]_vars, NEW b \in Agents, NEW r \in Mine(b), Present(b, r)'
  PROVE  /\ Present(b, r) \/ Asking(r)
         /\ Present(b, r) => /\ clientId[b] # 0 /\ clientId'[b] # 0
                             /\ clientId[b] = session[b] /\ knownInstance[b] = instance
<1>1. r \in Requests /\ TargetOf(r) = b
  BY DEF Mine
<1>2. /\ pending'[r].state # "none" /\ pending'[r].client = session'[b]
      /\ clientId'[b] = session'[b]
  BY DEF Present
<1>3. /\ EntriesAddressed(b) /\ SessionOf(b)
      /\ clientId'[b] \in 1..lastClient[b] /\ clientId'[b] = session'[b] =>
              clientId[b] = clientId'[b] /\ session[b] = session'[b]
  BY NextSession DEF IdsInv
<1>4. Keeping(r) => Present(b, r)
  <2> SUFFICES ASSUME Keeping(r) PROVE Present(b, r)
    OBVIOUS
  <2>1. pending[r].client \in 1..lastClient[b] /\ pending[r].client = session'[b]
    BY <1>2, <1>3 DEF Keeping, EntriesAddressed
  <2> QED BY <1>2, <1>3, <2>1 DEF Keeping, Present
<1>5. Present(b, r) \/ Asking(r)
  BY <1>1, <1>2, <1>4, EntryStep
<1>6. EntriesAddressed(b)' /\ lastClient'[b] \in Nat /\ lastClient[b] \in Nat
  BY NextIds, NextType DEF IdsInv, TypeOK, BrokerType
<1>7. clientId'[b] # 0
  <2>1. r \in Mine(b)'
    BY DEF Mine
  <2>2. pending'[r].client \in 1..lastClient'[b]
    BY <1>2, <1>6, <2>1 DEF EntriesAddressed
  <2> QED BY <1>2, <1>6, <2>2
<1>8. ASSUME Present(b, r)
      PROVE  clientId[b] # 0 /\ clientId[b] = session[b] /\ knownInstance[b] = instance
  <2>1. pending[r].client \in 1..lastClient[b] /\ pending[r].client = clientId[b]
        /\ clientId[b] = session[b]
    BY <1>3, <1>8 DEF Present, EntriesAddressed
  <2> QED BY <1>3, <1>6, <2>1 DEF SessionOf
<1> QED BY <1>5, <1>7, <1>8

\* What is on record of a request that nobody has asked yet.
LEMMA UnaskedIsNowhere ==
  ASSUME Good, NEW b \in Agents, NEW r \in Mine(b), reqStatus[r] = "none"
  PROVE  /\ r \notin remote[b].seen /\ Ack(r) \notin On(toBroker[b])
         /\ runs[r] = 0
         /\ \A x \in On(toClient[b]) : x.type = "result.ack" => x.req # r
<1>1. WorkOf(b) /\ HandsOf(b, r) /\ r \in Requests /\ runs[r] \in Nat
  BY DEF Good, WorkInv, HandsInv, Mine, TypeOK, ExtensionType
<1>2. r \notin Authorised(b) /\ reqStatus[r] \notin LetThrough
  BY DEF Authorised, LetThrough
<1>3. Ack(r) \notin On(toBroker[b])
  BY <1>1, <1>2 DEF WorkOf, SoundToBroker, Ack
<1>4. runs[r] = 0
  BY <1>1, <1>2 DEF HandsOf
<1> QED BY <1>1, <1>2, <1>3, <1>4 DEF WorkOf, SoundToClient

LEMMA HandsKept ==
  ASSUME Good, [Next]_vars, NEW b \in Agents, NEW r \in Mine(b),
         Present(b, r) /\ Present(b, r)' /\ r \in remote[b].seen => r \in remote'[b].seen,
         Present(b, r)' /\ r \in remote'[b].seen => r \in Holding(remote'[b]),
         Ack(r) \in On(toBroker'[b]) => Ack(r) \in On(toBroker[b]) \/ r \in remote'[b].seen,
         \/ runs'[r] = runs[r]
         \/ runs[r] = 0 /\ runs'[r] = 1 /\ r \in remote'[b].seen /\ r \notin On(remote'[b].queue),
         r \in On(remote'[b].queue) => r \in On(remote[b].queue) \/ runs'[r] = 0,
         Deliver(r) \in On(toClient'[b]) /\ runs'[r] > 0 => r \in remote'[b].seen,
         \A x \in On(toClient'[b]) : x.type = "result.ack" /\ x.req = r => ~Present(b, r)'
  PROVE  HandsOf(b, r)'
<1>1. /\ HandsOf(b, r) /\ WorkOf(b) /\ WorkOf(b)' /\ r \in Requests /\ runs[r] \in Nat
      /\ TypeOK /\ IdsInv /\ PendingMatchesRows
  <2>1. WorkInv'
    BY NextWork DEF Good
  <2> QED BY <2>1 DEF Good, HandsInv, WorkInv, Mine, TypeOK, ExtensionType
<1>2. r \in remote'[b].seen => reqStatus'[r] \in LetThrough
  BY <1>1 DEF WorkOf, Authorised
<1>3. runs'[r] > 0 => reqStatus'[r] \in LetThrough
  BY <1>1, <1>2, LetThroughStays DEF HandsOf
<1>4. runs'[r] <= 1 /\ (r \in On(remote'[b].queue) => runs'[r] = 0)
  BY <1>1 DEF HandsOf
<1>5. ASSUME Present(b, r)'
      PROVE  /\ pending'[r].acked => r \in remote'[b].seen
             /\ Ack(r) \in On(toBroker'[b]) => r \in remote'[b].seen
             /\ runs'[r] > 0 => r \in remote'[b].seen
  <2>1. Present(b, r) \/ Asking(r)
    BY <1>1, <1>5, PresentStep
  <2>2. CASE Asking(r)
    <3>1. reqStatus[r] = "none" /\ ~pending'[r].acked
      BY <2>2 DEF Asking
    <3>2. Ack(r) \notin On(toBroker[b]) /\ runs[r] = 0
      BY <3>1, UnaskedIsNowhere
    <3> QED BY <3>1, <3>2
  <2>3. CASE Present(b, r) /\ ~Asking(r)
    <3>1. Keeping(r)
      BY <1>1, <1>5, <2>3, EntryStep DEF Present
    <3>2. pending'[r].acked => r \in remote[b].seen
      <4>1. ASSUME NEW a \in Agents, Ack(r) \in On(toBroker[a]) PROVE r \in remote[b].seen
        <5>1. WorkOf(a)
          BY DEF Good, WorkInv
        <5>2. r \in Authorised(a)
          BY <4>1, <5>1 DEF WorkOf, SoundToBroker, Ack
        <5>3. a = b
          BY <5>2 DEF Authorised, Mine
        <5> QED BY <1>1, <2>3, <4>1, <5>3 DEF HandsOf
      <4>2. pending[r].acked => r \in remote[b].seen
        BY <1>1, <2>3 DEF HandsOf
      <4> QED BY <3>1, <4>1, <4>2 DEF Keeping, Ack
    <3>3. Ack(r) \in On(toBroker[b]) => r \in remote[b].seen
      BY <1>1, <2>3 DEF HandsOf
    <3>4. runs[r] > 0 => r \in remote[b].seen
      BY <1>1, <2>3 DEF HandsOf
    <3> QED BY <1>5, <2>3, <3>2, <3>3, <3>4
  <2> QED BY <2>1, <2>2, <2>3
<1>6. \A x \in On(toClient'[b]) : Present(b, r)' /\ x.type = "result.ack" => x.req # r
  OBVIOUS
<1> QED BY <1>3, <1>4, <1>5, <1>6 DEF HandsOf, Holding, On, Ack, Deliver

\* The same for a request whose extension is left alone.
LEMMA HandsKeptOutside ==
  ASSUME Good, [Next]_vars, NEW b \in Agents, NEW r \in Mine(b),
         remote'[b] = remote[b], runs'[r] = runs[r],
         Ack(r) \in On(toBroker'[b]) => Ack(r) \in On(toBroker[b]),
         Deliver(r) \in On(toClient'[b]) => Deliver(r) \in On(toClient[b]) \/ runs[r] = 0,
         \A x \in On(toClient'[b]) :
           x.type = "result.ack" /\ x.req = r => x \in On(toClient[b]) \/ ~Present(b, r)'
  PROVE  HandsOf(b, r)'
<1>1. HandsOf(b, r) /\ TypeOK /\ IdsInv
  BY DEF Good, HandsInv
<1>2. ASSUME Present(b, r)' PROVE Present(b, r) \/ reqStatus[r] = "none"
  BY <1>1, <1>2, PresentStep DEF Asking
<1>3. Present(b, r)' /\ r \in remote'[b].seen => r \in Holding(remote'[b])
  BY <1>1, <1>2, UnaskedIsNowhere DEF HandsOf
<1>4. ASSUME NEW x \in On(toClient'[b]), x.type = "result.ack", x.req = r PROVE ~Present(b, r)'
  BY <1>1, <1>2, <1>4, UnaskedIsNowhere DEF HandsOf
<1>5. Deliver(r) \in On(toClient'[b]) /\ runs'[r] > 0 => r \in remote'[b].seen
  BY <1>1 DEF HandsOf
<1> QED BY <1>3, <1>4, <1>5, HandsKept

LEMMA NextHands ==
  ASSUME NobodyLeaves, Good, [Next]_vars, NEW b \in Agents
  PROVE  /\ \A x \in On(toClient'[b]) : x.type # "removed"
         /\ \A r \in Mine(b) : HandsOf(b, r)'
<1> DEFINE Goal == /\ \A x \in On(toClient'[b]) : x.type # "removed"
                   /\ \A r \in Mine(b) : HandsOf(b, r)'
<1> SUFFICES Goal
  OBVIOUS
<1>0. /\ TypeOK /\ PendingMatchesRows /\ WorkInv /\ IdsInv
      /\ DatabaseType /\ BrokerType /\ ExtensionType /\ NetworkType
      /\ \A a \in Agents : remote[a] \in RemoteQueues
  BY DEF Good, TypeOK, ExtensionType
<1>1. /\ \A a \in Agents : WorkOf(a) /\ SessionOf(a)
      /\ \A a \in Agents : \A x \in On(toClient[a]) : x.type # "removed"
      /\ \A r \in Mine(b) : HandsOf(b, r) /\ r \in Requests /\ TargetOf(r) = b
  BY DEF Good, WorkInv, IdsInv, HandsInv, Mine
<1>2. \A r \in Mine(b) : Ack(r).type = "deliver.ack" /\ Ack(r).req = r
                         /\ Deliver(r).type = "deliver" /\ Deliver(r).req = r
  BY DEF Ack, Deliver
\* The extension is left alone and nothing of interest is sent.
<1>a. ASSUME UNCHANGED <<remote, runs>>,
             On(toBroker'[b]) \subseteq On(toBroker[b]),
             \A x \in On(toClient'[b]) : \/ x \in On(toClient[b])
                                         \/ x.type \notin {"deliver", "result.ack", "removed"}
      PROVE  Goal
  <2>1. \A x \in On(toClient'[b]) : x.type # "removed"
    BY <1>1, <1>a
  <2>2. ASSUME NEW r \in Mine(b) PROVE HandsOf(b, r)'
    <3>1. Deliver(r) \in On(toClient'[b]) => Deliver(r) \in On(toClient[b])
      BY <1>2, <1>a
    <3>2. \A x \in On(toClient'[b]) : x.type = "result.ack" => x \in On(toClient[b])
      BY <1>a
    <3> QED BY <1>a, <3>1, <3>2, HandsKeptOutside
  <2> QED BY <2>1, <2>2
<1>3. ASSUME NEW m \in Messages, ChatSend(m) PROVE Goal
  <2>1. PICK T \in SUBSET Agents, hasTask \in BOOLEAN : \E out \in [T -> RequestStatus] :
          (\A a \in T : out[a] \in Outcomes(a, hasTask)) /\ AddressTargets(m, T, out)
    BY <1>3 DEF ChatSend
  <2>2. PICK out \in [T -> RequestStatus] : AddressTargets(m, T, out)
    BY <2>1
  <2> DEFINE msg == [type |-> IF out[b] = "pending" THEN "deliver" ELSE "request.pending",
                     req |-> <<m, b>>]
  <2>3. msg \in ToClient /\ <<m, b>> \in Requests
    BY DEF ToClient, Requests
  <2>4. \/ toClient'[b] = toClient[b]
        \/ b \in T /\ toClient'[b] = Sent(toClient, b, msg)
    BY <2>2 DEF AddressTargets
  <2>5. UNCHANGED <<remote, runs, toBroker>> /\ reqStatus[<<m, b>>] = "none"
    BY <1>3 DEF ChatSend, clientVars, Asked
  <2>6. msg.type \in {"deliver", "request.pending"} /\ msg.req = <<m, b>>
    OBVIOUS
  <2> HIDE DEF msg
  <2>7. \A x \in On(toClient'[b]) : x \in On(toClient[b]) \/ x = msg
    BY <1>0, <2>3, <2>4, SentOn
  <2>8. \A x \in On(toClient'[b]) : x.type # "removed"
    BY <1>1, <2>6, <2>7
  <2>9. ASSUME NEW r \in Mine(b) PROVE HandsOf(b, r)'
    <3>1. Deliver(r) \in On(toClient'[b]) => Deliver(r) \in On(toClient[b]) \/ runs[r] = 0
      <4>1. Deliver(r) = msg => runs[r] = 0
        BY <1>2, <2>5, <2>6, UnaskedIsNowhere
      <4> QED BY <2>7, <4>1
    <3>2. \A x \in On(toClient'[b]) : x.type = "result.ack" => x \in On(toClient[b])
      BY <2>6, <2>7
    <3> QED BY <2>5, <3>1, <3>2, HandsKeptOutside
  <2> QED BY <2>8, <2>9
<1>4. ASSUME NEW a \in Agents, HandleDeliverAck(a) \/ HandleLeave(a) PROVE Goal
  <2>1. On(toBroker'[b]) \subseteq On(toBroker[b])
    BY <1>0, <1>4, ConsumeOn DEF HandleDeliverAck, HandleLeave
  <2>2. UNCHANGED <<remote, runs, toClient>>
    BY <1>4 DEF HandleDeliverAck, HandleLeave, clientVars
  <2> QED BY <1>a, <2>1, <2>2
<1>5. ASSUME NEW a \in Agents, HandleApprove(a) PROVE Goal
  <2>0. Arrives(a, "approve") /\ Consume(a)
    BY <1>5 DEF HandleApprove
  <2>1. Head(toBroker[a]).req \in Requests
    BY <1>0, <2>0, ArrivesType DEF ToBroker
  <2>2. PICK x \in Requests : x = Head(toBroker[a]).req
    BY <2>1
  <2>3. /\ On(toBroker'[b]) \subseteq On(toBroker[b])
        /\ UNCHANGED <<remote, runs>>
        /\ \/ UNCHANGED toClient
           \/ Decidable(a, x) /\ SendToClient(a, Deliver(x))
    BY <1>0, <1>5, <2>0, <2>2, ConsumeOn DEF HandleApprove, clientVars, Deliver
  <2>4. CASE UNCHANGED toClient
    BY <1>a, <2>3, <2>4
  <2>5. CASE Decidable(a, x) /\ SendToClient(a, Deliver(x))
    <3>1. Deliver(x) \in ToClient /\ Deliver(x).type = "deliver" /\ Deliver(x).req = x
      BY DEF ToClient, Deliver
    <3>2. \A y \in On(toClient'[b]) : y \in On(toClient[b]) \/ y = Deliver(x)
      BY <1>0, <2>5, <3>1, SentOn
    <3>3. \A y \in On(toClient'[b]) : y.type # "removed"
      BY <1>1, <3>1, <3>2
    <3>4. ASSUME NEW r \in Mine(b) PROVE HandsOf(b, r)'
      <4>1. runs[r] \in Nat /\ (r = x => reqStatus[r] \notin LetThrough)
        BY <1>0, <1>1, <2>5 DEF Decidable, LetThrough, ExtensionType
      <4>2. r = x => runs[r] = 0
        BY <1>1, <4>1 DEF HandsOf
      <4>3. Deliver(r) \in On(toClient'[b]) => Deliver(r) \in On(toClient[b]) \/ runs[r] = 0
        BY <1>2, <3>1, <3>2, <4>2
      <4>4. \A y \in On(toClient'[b]) : y.type = "result.ack" => y \in On(toClient[b])
        BY <3>1, <3>2
      <4> QED BY <2>3, <4>3, <4>4, HandsKeptOutside
    <3> QED BY <3>3, <3>4
  <2> QED BY <2>3, <2>4, <2>5
<1>6. ASSUME NEW a \in Agents, HandleReject(a) PROVE Goal
  <2>0. Arrives(a, "reject") /\ Consume(a)
    BY <1>6 DEF HandleReject
  <2>1. Head(toBroker[a]).req \in Requests
    BY <1>0, <2>0, ArrivesType DEF ToBroker
  <2>2. PICK x \in Requests : x = Head(toBroker[a]).req
    BY <2>1
  <2> DEFINE msg == [type |-> "settled", req |-> x]
  <2>3. /\ On(toBroker'[b]) \subseteq On(toBroker[b])
        /\ UNCHANGED <<remote, runs>>
        /\ UNCHANGED toClient \/ SendToClient(a, msg)
    BY <1>0, <1>6, <2>0, <2>2, ConsumeOn DEF HandleReject, clientVars
  <2>4. msg \in ToClient /\ msg.type = "settled"
    BY DEF ToClient
  <2> HIDE DEF msg
  <2>5. \A y \in On(toClient'[b]) : y \in On(toClient[b]) \/ y.type = "settled"
    BY <1>0, <2>3, <2>4, SentOn
  <2> QED BY <1>a, <2>3, <2>5
<1>7. ASSUME NEW a \in Agents, HandleResult(a) PROVE Goal
  <2>0. Arrives(a, "result") /\ Consume(a)
    BY <1>7 DEF HandleResult
  <2>1. /\ Head(toBroker[a]).req \in Requests /\ Head(toBroker[a]).type = "result"
        /\ Head(toBroker[a]) \in On(toBroker[a]) /\ On(toBroker'[b]) \subseteq On(toBroker[b])
    <3>1. Head(toBroker[a]).req \in Requests
      BY <1>0, <2>0, ArrivesType DEF ToBroker
    <3> QED BY <1>0, <2>0, <3>1, ConsumeOn, ArrivesType
  <2>2. PICK x \in Requests : x = Head(toBroker[a]).req
    BY <2>1
  <2>3. PICK ok : ok = Head(toBroker[a]).ok
    OBVIOUS
  <2> DEFINE closes == /\ ~AlreadyClosed(a, x)
                       /\ OwnsResult(a, x)
                       /\ reqStatus[x] \in ClosableFrom(ok)
             ack(accepted) == [type |-> "result.ack", req |-> x, accepted |-> accepted]
             settled == [type |-> "settled", req |-> x]
  <2>4. /\ IF closes THEN CloseByResult(a, x, ok) ELSE UNCHANGED <<dbVars, pending, completedBy>>
        /\ \/ SendBothToClient(a, settled, ack(AlreadyClosed(a, x) \/ closes))
           \/ SendToClient(a, ack(AlreadyClosed(a, x) \/ closes))
        /\ UNCHANGED <<remote, runs, session, clientId>>
    BY <1>7, <2>2, <2>3 DEF HandleResult, clientVars
  <2>5. PICK accepted \in BOOLEAN : accepted = (AlreadyClosed(a, x) \/ closes)
    BY DEF AlreadyClosed, OwnsResult
  <2> DEFINE msg == ack(accepted)
  <2>6. \/ SendBothToClient(a, settled, msg)
        \/ SendToClient(a, msg)
    BY <2>4, <2>5
  <2>7. /\ msg \in ToClient /\ settled \in ToClient
        /\ msg.type = "result.ack" /\ msg.req = x /\ settled.type = "settled"
    BY <2>5 DEF ToClient
  <2> HIDE DEF msg, settled
  <2>8. \A y \in On(toClient'[b]) : y \in On(toClient[b]) \/ (b = a /\ y \in {msg, settled})
    BY <1>0, <2>6, <2>7, SentOn, BothSentOn
  <2>9. ~Present(a, x)'
    <3>1. CASE closes
      <4>1. pending'[x] = NoEntry
        BY <1>0, <2>4, <3>1 DEF CloseByResult, BrokerType
      <4> QED BY <4>1 DEF Present, NoEntry
    <3>2. CASE ~closes
      <4> SUFFICES ASSUME Present(a, x)' PROVE FALSE
        OBVIOUS
      <4>1. pending[x].state # "none" /\ pending[x].client = session[a]
        BY <2>4, <3>2 DEF Present
      <4>2. x \in Authorised(a) /\ up /\ session[a] # 0
        BY <1>1, <2>0, <2>1, <2>2 DEF WorkOf, SoundToBroker, Arrives
      <4>3. pending[x].state \in {"none", "awaiting_approval", "delivering"}
        BY <1>0 DEF BrokerType, Entries
      <4>4. reqStatus[x] \in {"pending", "delivered"}
        BY <1>0, <4>1, <4>2, <4>3, AwaitingEntries DEF Authorised, LetThrough
      <4>5. reqStatus[x] \notin Terminal /\ reqStatus[x] \in ClosableFrom(ok)
        BY <4>4 DEF Terminal, ClosableFrom, Active
      <4>6. completedBy[x] # session[a]
        BY <4>2, <4>5 DEF Good, HandsInv, ClosedEnded
      <4>7. reqStatus[x] # "completed"
        BY <4>4
      <4> QED BY <3>2, <4>1, <4>5, <4>6, <4>7 DEF AlreadyClosed, OwnsResult
    <3> HIDE DEF closes
    <3> QED BY <3>1, <3>2
  <2>10. \A y \in On(toClient'[b]) : y.type # "removed"
    BY <1>1, <2>7, <2>8
  <2>11. ASSUME NEW r \in Mine(b) PROVE HandsOf(b, r)'
    <3>1. Deliver(r) \in On(toClient'[b]) => Deliver(r) \in On(toClient[b])
      BY <1>2, <2>7, <2>8
    <3>2. ASSUME NEW y \in On(toClient'[b]), y.type = "result.ack", y.req = r
          PROVE  y \in On(toClient[b]) \/ ~Present(b, r)'
      <4>1. CASE y \in On(toClient[b])
        BY <4>1
      <4>2. CASE b = a /\ y = msg
        <5>1. r = x
          BY <2>7, <3>2, <4>2
        <5> QED BY <2>9, <4>2, <5>1
      <4>3. CASE b = a /\ y = settled
        BY <2>7, <3>2, <4>3
      <4> QED BY <2>8, <4>1, <4>2, <4>3
    <3>3. Ack(r) \in On(toBroker'[b]) => Ack(r) \in On(toBroker[b])
      BY <2>1
    <3> QED BY <2>4, <3>1, <3>2, <3>3, HandsKeptOutside
  <2> QED BY <2>10, <2>11
<1>8. ASSUME NEW a \in Agents, HandleGoodbye(a) PROVE Goal
  <2>1. /\ toClient'[b] = toClient[b] \/ toClient'[b] = <<>>
        /\ toBroker'[b] = toBroker[b] \/ toBroker'[b] = <<>>
        /\ UNCHANGED <<remote, runs>>
    BY <1>0, <1>8 DEF HandleGoodbye, NetworkType, clientVars
  <2>2. On(toClient'[b]) \subseteq On(toClient[b]) /\ On(toBroker'[b]) \subseteq On(toBroker[b])
    BY <2>1, OnEmpty
  <2> QED BY <1>a, <2>1, <2>2
<1>9. CASE BrokerStops
  <2>1. toClient'[b] = <<>> /\ toBroker'[b] = <<>> /\ UNCHANGED <<remote, runs>>
    BY <1>9 DEF BrokerStops, clientVars
  <2>2. On(toClient'[b]) = {} /\ On(toBroker'[b]) = {}
    BY <2>1, OnEmpty
  <2> QED BY <1>a, <2>1, <2>2
<1>10. ASSUME UNCHANGED <<remote, runs, toClient, toBroker>> PROVE Goal
  BY <1>a, <1>10
<1>11. ASSUME NEW a \in Agents, GraceExpires(a) \/ DropCredentials(a) \/ JoinGroup(a)
       PROVE  Goal
  BY <1>10, <1>11 DEF GraceExpires, DropCredentials, JoinGroup, clientVars
<1>12. CASE BrokerStarts \/ UNCHANGED vars
  BY <1>10, <1>12 DEF BrokerStarts, vars, clientVars
<1>13. ASSUME NEW a \in Agents, HandleUnexpectedDisconnect(a) \/ HelloLost(a) PROVE Goal
  <2>1. toBroker'[b] = toBroker[b] \/ toBroker'[b] = <<>>
    BY <1>0, <1>13 DEF HandleUnexpectedDisconnect, HelloLost, NetworkType
  <2>2. UNCHANGED <<remote, runs, toClient>>
    BY <1>13 DEF HandleUnexpectedDisconnect, HelloLost, clientVars
  <2>3. On(toBroker'[b]) \subseteq On(toBroker[b])
    BY <2>1, OnEmpty
  <2> QED BY <1>a, <2>2, <2>3
<1>14. ASSUME NEW a \in Agents,
              RemoveMember(a) \/ LeaveGroup(a)
       PROVE  Goal
  BY <1>14 DEF RemoveMember, LeaveGroup, Fault, NobodyLeaves
<1>15. ASSUME NEW a \in Agents, LinkBreak(a) PROVE Goal
  <2>1. toClient'[b] = toClient[b] \/ toClient'[b] = <<>>
    BY <1>0, <1>15 DEF LinkBreak, Detach, NetworkType
  <2>2. UNCHANGED <<remote, runs, toBroker>>
    BY <1>15 DEF LinkBreak, clientVars
  <2>3. On(toClient'[b]) \subseteq On(toClient[b])
    BY <2>1, OnEmpty
  <2> QED BY <1>a, <2>2, <2>3
\* Steps of another session's extension.
<1>b. ASSUME NEW a \in Agents, a # b, NEW q \in RemoteQueues, NEW idle \in BOOLEAN,
             TryStartNext(a, q, idle), NoRepeats(q.queue), Holding(q) \subseteq Mine(a),
             On(toClient'[b]) \subseteq On(toClient[b]), On(toBroker'[b]) \subseteq On(toBroker[b])
      PROVE  Goal
  <2>1. \A x \in On(toClient'[b]) : x.type # "removed"
    BY <1>1, <1>b
  <2>2. ASSUME NEW r \in Mine(b) PROVE HandsOf(b, r)'
    <3>1. remote'[b] = remote[b]
      BY <1>0, <1>b, TryStartHolds
    <3>2. r \notin On(q.queue)
      BY <1>b DEF Holding, Mine
    <3>3. runs'[r] = runs[r]
      BY <1>0, <1>1, <1>b, <3>2, TryStartHolds
    <3> QED BY <1>b, <3>1, <3>3, HandsKeptOutside
  <2> QED BY <2>1, <2>2
<1>c. \A a \in Agents : Holding(remote[a]) \subseteq Mine(a) /\ NoRepeats(remote[a].queue)
  BY <1>1 DEF WorkOf, Authorised
\* The extension is this one's: its RemoteQueue becomes q and may start work.
<1>d. ASSUME NEW q \in RemoteQueues, NEW idle \in BOOLEAN, NEW r \in Mine(b),
             TryStartNext(b, q, idle), NoRepeats(q.queue),
             Present(b, r) /\ Present(b, r)' /\ r \in remote[b].seen => r \in q.seen,
             Present(b, r)' /\ r \in q.seen => r \in Holding(q),
             Ack(r) \in On(toBroker'[b]) => Ack(r) \in On(toBroker[b]) \/ r \in q.seen,
             On(q.queue) \subseteq q.seen,
             r \in On(q.queue) => runs[r] = 0,
             Deliver(r) \in On(toClient'[b]) /\ runs[r] > 0 => r \in q.seen,
             \A x \in On(toClient'[b]) : x.type = "result.ack" /\ x.req = r => ~Present(b, r)'
      PROVE  HandsOf(b, r)'
  <2>1. /\ remote'[b].seen = q.seen /\ Holding(remote'[b]) = Holding(q)
        /\ On(remote'[b].queue) \subseteq On(q.queue)
    BY <1>0, <1>d, TryStartHolds
  <2>2. /\ runs[r] \in Nat
        /\ \/ runs'[r] = runs[r]
           \/ r \in On(q.queue) /\ r \notin On(remote'[b].queue) /\ runs'[r] = runs[r] + 1
    BY <1>0, <1>1, <1>d, TryStartHolds DEF ExtensionType
  <2>3. \/ runs'[r] = runs[r]
        \/ runs[r] = 0 /\ runs'[r] = 1 /\ r \in remote'[b].seen /\ r \notin On(remote'[b].queue)
    BY <1>d, <2>1, <2>2
  <2>4. r \in On(remote'[b].queue) => runs'[r] = 0
    BY <1>d, <2>1, <2>2, <2>3
  <2>5. Deliver(r) \in On(toClient'[b]) /\ runs'[r] > 0 => r \in remote'[b].seen
    BY <1>d, <2>1, <2>3
  <2> QED BY <1>d, <2>1, <2>3, <2>4, <2>5, HandsKept
<1>e. ASSUME NEW r \in Mine(b)
      PROVE  /\ Present(b, r)' /\ r \in remote[b].seen => r \in Holding(remote[b])
             /\ r \in On(remote[b].queue) => runs[r] = 0 /\ r \in remote[b].seen
             /\ Deliver(r) \in On(toClient[b]) /\ runs[r] > 0 => r \in remote[b].seen
             /\ \A x \in On(toClient[b]) : x.type = "result.ack" /\ x.req = r => ~Present(b, r)'
  <2>1. Present(b, r)' => Present(b, r) \/ reqStatus[r] = "none"
    BY <1>0, PresentStep DEF Asking
  <2>2. r \in On(remote[b].queue) => r \in remote[b].seen
    BY <1>1 DEF WorkOf, Holding
  <2> QED BY <1>1, <2>1, <2>2, UnaskedIsNowhere DEF HandsOf
<1>16. ASSUME NEW a \in Agents, Connect(a) PROVE Goal
  <2> DEFINE kept == IF knownInstance[a] \in {0, instance} THEN remote[a] ELSE EmptyQueue
  <2>1. /\ toBroker' = [toBroker EXCEPT ![a] = ResultMessages(kept.results)]
        /\ UNCHANGED pending /\ RegisterClient(a)
    BY <1>16 DEF Connect
  <2>2. PICK idle \in BOOLEAN : TryStartNext(a, kept, idle)
    BY <1>16 DEF Connect
  <2>3. PICK sent \in Resent(a, session'[a]) : toClient' = [toClient EXCEPT ![a] = sent]
    BY <1>16 DEF Connect
  <2>4. /\ kept \in RemoteQueues /\ Holding(kept) \subseteq Mine(a) /\ NoRepeats(kept.queue)
        /\ On(kept.queue) \subseteq kept.seen
    BY <1>0, <1>1, <1>c, EmptyQueueType, EmptyHolds DEF WorkOf, Holding
  <2>5. CASE a # b
    <3>1. toBroker'[b] = toBroker[b] /\ toClient'[b] = toClient[b]
      BY <1>0, <2>1, <2>3, <2>5 DEF NetworkType
    <3> HIDE DEF kept
    <3> QED BY <1>b, <2>2, <2>4, <2>5, <3>1
  <2>6. CASE a = b
    <3>1. toBroker'[b] = ResultMessages(kept.results) /\ toClient'[b] = sent
      BY <1>0, <2>1, <2>3, <2>6 DEF NetworkType
    <3>2. \A x \in On(toBroker'[b]) : x.type = "result"
      <4> HIDE DEF kept
      <4> QED BY <2>4, <3>1, ResultMessagesOn
    <3>3. \A x \in On(toClient'[b]) :
            \/ x.type = "deliver" /\ x.req \in Unacknowledged(b, session'[b])
            \/ x.type = "request.pending"
      BY <2>3, <2>6, <3>1, ResentOn
    <3>4. \A x \in On(toClient'[b]) : x.type # "removed"
      BY <3>3
    <3>5. ASSUME NEW r \in Mine(b) PROVE HandsOf(b, r)'
      <4>1. Present(b, r)' => Present(b, r)
        <5>1. UNCHANGED pending /\ link[b] # "live"
          BY <1>16, <2>6 DEF Connect, RegisterClient
        <5>2. SUFFICES ASSUME Present(b, r)', Asking(r) PROVE Present(b, r)
          BY <1>0, PresentStep
        <5>3. UNCHANGED <<session, clientId>>
          BY <5>2 DEF Asking, clientVars
        <5> QED BY <5>1, <5>2, <5>3 DEF Present
      <4>2. Present(b, r)' => kept = remote[b]
        BY <1>0, <2>6, <4>1, PresentStep
      <4>3. Deliver(r) \in On(toClient'[b]) => Present(b, r)'
        <5> SUFFICES ASSUME Deliver(r) \in On(toClient'[b]) PROVE Present(b, r)'
          OBVIOUS
        <5>1. r \in Unacknowledged(b, session'[b])
          BY <1>2, <3>3
        <5>2. pending[r].state # "none" /\ pending[r].client = session'[b]
          BY <5>1 DEF Unacknowledged, EntriesOf
        <5>3. clientId'[b] = session'[b]
          BY <1>0, <1>16, <2>6 DEF Connect, ExtensionType
        <5> QED BY <2>1, <5>2, <5>3 DEF Present
      <4>4. Deliver(r) \in On(toClient'[b]) /\ runs[r] > 0 => r \in kept.seen
        BY <1>1, <4>1, <4>2, <4>3 DEF HandsOf
      <4>5. r \in On(kept.queue) => runs[r] = 0
        BY <1>e, <2>6, EmptyHolds DEF EmptyQueue, On
      <4>6. Ack(r) \notin On(toBroker'[b])
        BY <1>2, <3>2
      <4>7. \A x \in On(toClient'[b]) : x.type # "result.ack"
        BY <3>3
      <4>8. Present(b, r)' /\ r \in kept.seen => r \in Holding(kept)
        BY <1>e, <4>2
      <4>9. Present(b, r)' /\ r \in remote[b].seen => r \in kept.seen
        BY <4>2
      <4> HIDE DEF kept
      <4> QED BY <1>d, <2>2, <2>4, <2>6, <4>4, <4>5, <4>6, <4>7, <4>8, <4>9
    <3> QED BY <3>4, <3>5
  <2> QED BY <2>5, <2>6
<1>17. ASSUME NEW a \in Agents, ReceiveDelivery(a) PROVE Goal
  <2>0. Reads(a, "deliver") /\ ConsumeAtClient(a)
    BY <1>17 DEF ReceiveDelivery
  <2>0a. /\ Head(toClient[a]) \in On(toClient[a])
         /\ Head(toClient[a]).type = "deliver" /\ Head(toClient[a]).req \in Requests
         /\ Head(toClient[a]) \in ToClient
         /\ On(toClient'[b]) \subseteq On(toClient[b])
    <3>1. Head(toClient[a]) \in ToClient /\ Head(toClient[a]).type = "deliver"
      BY <1>0, <2>0, ReadsType
    <3>2. /\ Head(toClient[a]) \in On(toClient[a])
          /\ On(toClient'[b]) \subseteq On(toClient[b])
      BY <1>0, <2>0, ConsumeAtClientOn
    <3> QED BY <3>1, <3>2 DEF ToClient
  <2>1. PICK x \in Requests : x = Head(toClient[a]).req
    BY <2>0a
  <2> DEFINE q == Enqueue(remote[a], x)
  <2>2. /\ Reply(a, Ack(x))
        /\ \E idle \in BOOLEAN : TryStartNext(a, q, idle /\ x \notin remote[a].seen)
    BY <1>17, <2>1 DEF ReceiveDelivery, Ack
  <2>3. PICK idle \in BOOLEAN : TryStartNext(a, q, idle)
    BY <2>2
  <2>4. x \in Mine(a)
    BY <1>1, <2>0a, <2>1 DEF WorkOf, SoundToClient, Authorised
  <2>5. /\ q \in RemoteQueues /\ q.seen = remote[a].seen \cup {x}
        /\ x \in remote[a].seen => q = remote[a]
        /\ x \notin remote[a].seen => /\ q.queue = Append(remote[a].queue, x)
                                      /\ On(q.queue) = On(remote[a].queue) \cup {x}
                                      /\ Holding(q) = Holding(remote[a]) \cup {x}
    BY <1>0, EnqueueType, EnqueueHolds
  <2> HIDE DEF q
  <2>6. NoRepeats(q.queue)
    <3>1. CASE x \in remote[a].seen
      BY <1>c, <2>5, <3>1
    <3>2. CASE x \notin remote[a].seen
      <4>1. x \notin On(remote[a].queue) /\ remote[a].queue \in Seq(Requests)
        BY <1>0, <1>1, <3>2 DEF WorkOf, Holding, RemoteQueues
      <4>2. NoRepeats(remote[a].queue)
        BY <1>c
      <4>3. NoRepeats(Append(remote[a].queue, x))
        BY <4>1, <4>2, NoRepeatsAppend
      <4> QED BY <2>5, <3>2, <4>3
    <3> QED BY <3>1, <3>2
  <2>7. Holding(q) \subseteq Mine(a) /\ On(q.queue) \subseteq q.seen
    <3>1. Holding(remote[a]) \subseteq Mine(a) /\ On(remote[a].queue) \subseteq remote[a].seen
      BY <1>1, <1>c DEF WorkOf, Holding
    <3> QED BY <2>4, <2>5, <3>1
  <2>8. Ack(x) \in ToBroker
    BY DEF ToBroker, Ack
  <2>9. \A y \in On(toBroker'[b]) : y \in On(toBroker[b]) \/ (b = a /\ y = Ack(x))
    BY <1>0, <2>2, <2>8, ReplyOn
  <2>10. CASE a # b
    <3>1. On(toBroker'[b]) \subseteq On(toBroker[b])
      BY <2>9, <2>10
    <3> QED BY <1>b, <2>0a, <2>3, <2>5, <2>6, <2>7, <2>10, <3>1
  <2>11. CASE a = b
    <3>1. \A y \in On(toClient'[b]) : y.type # "removed"
      BY <1>1, <2>0a
    <3>2. ASSUME NEW r \in Mine(b) PROVE HandsOf(b, r)'
      <4>1. Present(b, r)' /\ r \in q.seen => r \in Holding(q)
        BY <1>e, <2>5, <2>11
      <4>2. Ack(r) \in On(toBroker'[b]) => Ack(r) \in On(toBroker[b]) \/ r \in q.seen
        <5>1. Ack(r) = Ack(x) => r = x
          BY DEF Ack
        <5> QED BY <2>5, <2>9, <5>1
      <4>3. r \in On(q.queue) => runs[r] = 0
        <5>1. CASE r = x /\ x \notin remote[a].seen
          <6>1. Deliver(r) \in On(toClient[b])
            BY <2>0a, <2>1, <2>11, <5>1 DEF Deliver, ToClient
          <6>2. ~(runs[r] > 0) /\ runs[r] \in Nat
            BY <1>0, <1>1, <1>e, <2>11, <5>1, <6>1 DEF ExtensionType
          <6> QED BY <6>2
        <5>2. CASE ~(r = x /\ x \notin remote[a].seen)
          BY <1>e, <2>5, <2>11, <5>2
        <5> QED BY <5>1, <5>2
      <4>4. Deliver(r) \in On(toClient'[b]) /\ runs[r] > 0 => r \in q.seen
        BY <1>e, <2>0a, <2>5, <2>11
      <4>5. \A y \in On(toClient'[b]) : y.type = "result.ack" /\ y.req = r => ~Present(b, r)'
        BY <1>e, <2>0a
      <4>6. r \in remote[b].seen => r \in q.seen
        BY <2>5, <2>11
      <4> QED BY <1>d, <2>3, <2>5, <2>6, <2>7, <2>11, <4>1, <4>2, <4>3, <4>4, <4>5, <4>6
    <3> QED BY <3>1, <3>2
  <2> QED BY <2>10, <2>11
<1>18. ASSUME NEW a \in Agents, ReceiveApproval(a) \/ ReceiveSettled(a) PROVE Goal
  <2>1. On(toClient'[b]) \subseteq On(toClient[b])
    BY <1>0, <1>18, ConsumeAtClientOn DEF ReceiveApproval, ReceiveSettled
  <2>2. UNCHANGED <<remote, runs, toBroker>>
    BY <1>18 DEF ReceiveApproval, ReceiveSettled
  <2> QED BY <1>a, <2>1, <2>2
<1>19. ASSUME NEW a \in Agents, ReceiveResultAck(a) PROVE Goal
  <2>0. Reads(a, "result.ack") /\ ConsumeAtClient(a)
    BY <1>19 DEF ReceiveResultAck
  <2>0a. /\ Head(toClient[a]) \in On(toClient[a])
         /\ Head(toClient[a]).type = "result.ack" /\ Head(toClient[a]).req \in Requests
         /\ On(toClient'[b]) \subseteq On(toClient[b])
    <3>1. Head(toClient[a]) \in ToClient /\ Head(toClient[a]).type = "result.ack"
      BY <1>0, <2>0, ReadsType
    <3>2. /\ Head(toClient[a]) \in On(toClient[a])
          /\ On(toClient'[b]) \subseteq On(toClient[b])
      BY <1>0, <2>0, ConsumeAtClientOn
    <3> QED BY <3>1, <3>2 DEF ToClient
  <2>1. PICK x \in Requests : x = Head(toClient[a]).req
    BY <2>0a
  <2> DEFINE q == AcknowledgeResult(remote[a], x)
  <2>2. remote' = [remote EXCEPT ![a] = q] /\ UNCHANGED <<runs, toBroker>>
    BY <1>19, <2>1 DEF ReceiveResultAck
  <2>3. /\ q.seen = remote[a].seen /\ q.queue = remote[a].queue
        /\ Holding(remote[a]) \ {x} \subseteq Holding(q)
    BY <1>0, AcknowledgeHolds
  <2> HIDE DEF q
  <2>4. \A y \in On(toClient'[b]) : y.type # "removed"
    BY <1>1, <2>0a
  <2>5. ASSUME NEW r \in Mine(b) PROVE HandsOf(b, r)'
    <3>1. CASE a # b
      <4>1. remote'[b] = remote[b]
        BY <1>0, <2>2, <3>1 DEF ExtensionType
      <4> QED BY <2>0a, <2>2, <4>1, HandsKeptOutside
    <3>2. CASE a = b
      <4>1. remote'[b] = q
        BY <1>0, <2>2, <3>2 DEF ExtensionType
      <4>2. r = x => ~Present(b, r)'
        BY <1>e, <2>0a, <2>1, <3>2
      <4>3. Present(b, r)' /\ r \in remote'[b].seen => r \in Holding(remote'[b])
        BY <1>e, <2>3, <3>2, <4>1, <4>2
      <4>4. r \in On(remote'[b].queue) => r \in On(remote[b].queue)
        BY <2>3, <3>2, <4>1
      <4>5. Deliver(r) \in On(toClient'[b]) /\ runs'[r] > 0 => r \in remote'[b].seen
        BY <1>e, <2>0a, <2>2, <2>3, <3>2, <4>1
      <4>6. \A y \in On(toClient'[b]) : y.type = "result.ack" /\ y.req = r => ~Present(b, r)'
        BY <1>e, <2>0a
      <4>7. r \in remote[b].seen => r \in remote'[b].seen
        BY <2>3, <3>2, <4>1
      <4> QED BY <2>2, <4>3, <4>4, <4>5, <4>6, <4>7, HandsKept
    <3> QED BY <3>1, <3>2
  <2> QED BY <2>4, <2>5
<1>20. ASSUME NEW a \in Agents, ReceiveRemoved(a) PROVE Goal
  <2>1. Head(toClient[a]) \in On(toClient[a]) /\ Head(toClient[a]).type = "removed"
    BY <1>0, <1>20, ConsumeAtClientOn, ReadsType DEF ReceiveRemoved
  <2> QED BY <1>1, <2>1
\* Work is started, or a run is over; what is held stays the same.
<1>21. ASSUME NEW a \in Agents, NEW q \in RemoteQueues, NEW idle \in BOOLEAN,
              TryStartNext(a, q, idle), q.seen = remote[a].seen, q.queue = remote[a].queue,
              Holding(q) = Holding(remote[a]), toClient' = toClient,
              \A y \in On(toBroker'[b]) : y \in On(toBroker[b]) \/ (b = a /\ y.type = "result")
       PROVE  Goal
  <2>1. CASE a # b
    <3>1. On(toBroker'[b]) \subseteq On(toBroker[b])
      BY <1>21, <2>1
    <3> QED BY <1>b, <1>c, <1>21, <2>1, <3>1
  <2>2. CASE a = b
    <3>1. \A y \in On(toClient'[b]) : y.type # "removed"
      BY <1>1, <1>21
    <3>2. On(q.queue) \subseteq q.seen
      BY <1>1, <1>21 DEF WorkOf, Holding
    <3>3. ASSUME NEW r \in Mine(b) PROVE HandsOf(b, r)'
      <4>1. Ack(r) \in On(toBroker'[b]) => Ack(r) \in On(toBroker[b])
        BY <1>2, <1>21
      <4>2. /\ Present(b, r)' /\ r \in q.seen => r \in Holding(q)
            /\ r \in On(q.queue) => runs[r] = 0
            /\ Deliver(r) \in On(toClient'[b]) /\ runs[r] > 0 => r \in q.seen
            /\ \A x \in On(toClient'[b]) : x.type = "result.ack" /\ x.req = r => ~Present(b, r)'
        BY <1>e, <1>21, <2>2
      <4> QED BY <1>c, <1>d, <1>21, <2>2, <3>2, <4>1, <4>2
    <3> QED BY <3>1, <3>3
  <2> QED BY <2>1, <2>2
<1>22. ASSUME NEW a \in Agents, NEW ok \in BOOLEAN, Settle(a, ok) PROVE Goal
  <2> DEFINE result == [req |-> remote[a].active, ok |-> ok]
             q == CompleteActive(remote[a], result)
  <2>1. Flush(a, q) /\ UNCHANGED toClient /\ remote[a].active # NoRequest
    BY <1>22 DEF Settle
  <2>2. PICK idle \in BOOLEAN : TryStartNext(a, q, idle)
    BY <1>22 DEF Settle
  <2>3. result \in Results /\ result.req = remote[a].active
    BY <1>0, <2>1 DEF Results, RemoteQueues
  <2> HIDE DEF result
  <2>4. /\ q \in RemoteQueues /\ q.seen = remote[a].seen /\ q.queue = remote[a].queue
        /\ Holding(q) = Holding(remote[a])
    BY <1>0, <2>3, CompleteActiveType, CompleteHolds
  <2> HIDE DEF q
  <2>5. \A y \in On(toBroker'[b]) : y \in On(toBroker[b]) \/ (b = a /\ y.type = "result")
    BY <1>0, <2>1, <2>4, FlushOn
  <2> QED BY <1>21, <2>1, <2>2, <2>4, <2>5
<1>23. ASSUME NEW a \in Agents, SettleLocal(a) PROVE Goal
  <2>1. TryStartNext(a, remote[a], TRUE) /\ UNCHANGED <<toClient, toBroker>>
    BY <1>23 DEF SettleLocal
  <2> QED BY <1>0, <1>21, <2>1
\* The extension only writes to the broker, and no acknowledgement.
<1>24. ASSUME NEW a \in Agents, UNCHANGED <<remote, runs, toClient>>,
              \A y \in On(toBroker'[b]) : y \in On(toBroker[b]) \/ y.type # "deliver.ack"
       PROVE  Goal
  <2>1. \A y \in On(toClient'[b]) : y.type # "removed"
    BY <1>1, <1>24
  <2>2. ASSUME NEW r \in Mine(b) PROVE HandsOf(b, r)'
    <3>1. Ack(r) \in On(toBroker'[b]) => Ack(r) \in On(toBroker[b])
      BY <1>2, <1>24
    <3> QED BY <1>24, <3>1, HandsKeptOutside
  <2> QED BY <2>1, <2>2
<1>25. ASSUME NEW a \in Agents, RetryResults(a) PROVE Goal
  <2>1. Flush(a, remote[a]) /\ UNCHANGED <<remote, runs, toClient>>
    BY <1>25 DEF RetryResults, clientVars
  <2>2. \A y \in On(toBroker'[b]) : y \in On(toBroker[b]) \/ y.type # "deliver.ack"
    BY <1>0, <2>1, FlushOn
  <2> QED BY <1>24, <2>1, <2>2
<1>26. ASSUME NEW a \in Agents, NEW r \in Requests, NEW decision \in {"approve", "reject"},
              Decide(a, r, decision)
       PROVE  Goal
  <2> DEFINE msg == [type |-> decision, req |-> r]
  <2>1. Reply(a, msg) /\ UNCHANGED <<remote, runs, toClient>>
    BY <1>26 DEF Decide, clientVars
  <2>2. msg \in ToBroker /\ msg.type # "deliver.ack"
    BY DEF ToBroker
  <2> HIDE DEF msg
  <2>3. \A y \in On(toBroker'[b]) : y \in On(toBroker[b]) \/ y.type # "deliver.ack"
    BY <1>0, <2>1, <2>2, ReplyOn
  <2> QED BY <1>24, <2>1, <2>3
<1>27. ASSUME NEW a \in Agents, Quit(a) \/ Crash(a) PROVE Goal
  <2>1. /\ remote' = [remote EXCEPT ![a] = EmptyQueue]
        /\ clientId' = [clientId EXCEPT ![a] = 0] /\ runs' = runs
    BY <1>27 DEF Quit, Crash, FreshExtension
  <2>2. /\ \/ toClient'[b] = toClient[b]
           \/ toClient'[b] = <<>>
        /\ a = b => \/ toClient'[b] = <<>>
                    \/ (link[b] # "live" /\ toClient'[b] = toClient[b])
    BY <1>0, <1>27 DEF Quit, Crash, Detach, NetworkType
  <2> DEFINE msg == [type |-> "goodbye"]
  <2>3. Reply(a, msg) \/ UNCHANGED toBroker
    BY <1>27 DEF Quit, Crash
  <2>4. msg \in ToBroker /\ msg.type # "deliver.ack"
    BY DEF ToBroker
  <2> HIDE DEF msg
  <2>5. \A y \in On(toBroker'[b]) : y \in On(toBroker[b]) \/ y.type # "deliver.ack"
    BY <1>0, <2>3, <2>4, ReplyOn
  <2>6. \A y \in On(toClient'[b]) : y \in On(toClient[b]) /\ y.type # "removed"
    BY <1>1, <2>2, OnEmpty
  <2>7. ASSUME NEW r \in Mine(b) PROVE HandsOf(b, r)'
    <3>1. Ack(r) \in On(toBroker'[b]) => Ack(r) \in On(toBroker[b])
      BY <1>2, <2>5
    <3>2. CASE a # b
      <4>1. remote'[b] = remote[b]
        BY <1>0, <2>1, <3>2 DEF ExtensionType
      <4> QED BY <2>1, <2>6, <3>1, <4>1, HandsKeptOutside
    <3>3. CASE a = b
      <4>1. remote'[b] = EmptyQueue /\ clientId'[b] = 0
        BY <1>0, <2>1, <3>3 DEF ExtensionType
      <4>2. ~Present(b, r)'
        <5> SUFFICES ASSUME Present(b, r)' PROVE FALSE
          OBVIOUS
        <5>1. Asking(r)
          BY <1>0, <4>1, PresentStep
        <5>2. UNCHANGED clientId /\ clientId[b] = 0 /\ clientId[b] = session[b]
          BY <4>1, <5>1 DEF Asking, clientVars, Present
        <5>3. link[b] # "none" /\ session[b] # 0
          BY <1>1, <5>1 DEF Asking, SessionOf
        <5> QED BY <5>2, <5>3
      <4>3. Deliver(r) \notin On(toClient'[b])
        <5>1. On(toClient'[b]) = {}
          BY <2>2, <3>3, OnEmpty DEF Good, Silent
        <5> QED BY <5>1
      <4>4. Holding(remote'[b]) = {} /\ remote'[b].seen = {} /\ On(remote'[b].queue) = {}
        <5>1. EmptyQueue.queue = <<>>
          BY DEF EmptyQueue
        <5> QED BY <4>1, <5>1, EmptyHolds, OnEmpty
      <4> QED BY <2>1, <3>1, <4>2, <4>3, <4>4, HandsKept
    <3> QED BY <3>2, <3>3
  <2> QED BY <2>6, <2>7
<1> QED
  BY <1>3, <1>4, <1>5, <1>6, <1>7, <1>8, <1>9, <1>11, <1>12, <1>13, <1>14, <1>15, <1>16, <1>17,
     <1>18, <1>19, <1>20, <1>22, <1>23, <1>25, <1>26, <1>27
     DEF Next, BrokerReads, ExtensionReads, AgentSettles

LEMMA InitGood == Init => Good
<1> SUFFICES ASSUME Init PROVE Good
  OBVIOUS
<1>1. TypeOK
  BY InitType
<1>2. PendingMatchesRows
  <2>1. Matching(NoEntry, "none")
    BY DEF Matching, NoEntry, Active
  <2> QED BY <2>1 DEF Init, PendingMatchesRows
<1>3. WorkInv
  BY WorkAtFirst
<1>4. ASSUME NEW a \in Agents
      PROVE  /\ toClient[a] = <<>> /\ toBroker[a] = <<>> /\ remote[a] = EmptyQueue
             /\ link[a] = "live" /\ session[a] = 1 /\ clientId[a] = 1 /\ lastClient[a] = 1
             /\ knownInstance[a] = 1 /\ instance = 1 /\ up
             /\ \A r \in Mine(a) : /\ pending[r] = NoEntry /\ runs[r] = 0
  BY DEF Init, Mine
<1>5. IdsInv
  BY <1>4 DEF IdsInv, SessionOf, EntriesAddressed, NoEntry
<1>6. HandsInv
  <2>1. ClosedEnded
    BY DEF Init, ClosedEnded
  <2>2. ASSUME NEW a \in Agents, NEW r \in Mine(a) PROVE HandsOf(a, r)
    <3>1. ~Present(a, r)
      BY <1>4 DEF Present, NoEntry
    <3>2. EmptyQueue.queue = <<>>
      BY DEF EmptyQueue
    <3>3. runs[r] = 0 /\ On(remote[a].queue) = {} /\ On(toClient[a]) = {}
      BY <1>4, <3>2, OnEmpty
    <3> QED BY <3>1, <3>3 DEF HandsOf
  <2>3. \A a \in Agents : On(toClient[a]) = {}
    BY <1>4, OnEmpty
  <2> QED BY <2>1, <2>2, <2>3 DEF HandsInv
<1>7. Silent
  BY DEF Init, Silent
<1> QED BY <1>1, <1>2, <1>3, <1>5, <1>6, <1>7 DEF Good

LEMMA NextGood ==
  ASSUME NobodyLeaves, Good, [Next]_vars
  PROVE  Good'
<1>1. TypeOK' /\ PendingMatchesRows' /\ WorkInv' /\ IdsInv' /\ Silent'
  BY NextType, NextMatch, NextWork, NextIds, NextSilent DEF Good
<1>2. ClosedEnded'
  BY NextClosed DEF Good, HandsInv
<1>3. ASSUME NEW a \in Agents
      PROVE  /\ \A x \in On(toClient'[a]) : x.type # "removed"
             /\ \A r \in Mine(a) : HandsOf(a, r)'
  BY <1>3, NextHands
<1>4. \A a \in Agents : Mine(a)' = Mine(a)
  BY DEF Mine
<1>5. HandsInv'
  BY <1>2, <1>3, <1>4 DEF HandsInv, On
<1> QED BY <1>1, <1>5 DEF Good

LEMMA AlwaysGood ==
  ASSUME NobodyLeaves
  PROVE  Spec => []Good
<1>1. Good /\ [Next]_vars => Good'
  BY NextGood
<1> QED BY <1>1, InitGood, PTL DEF Spec

\* As long as nobody leaves the group or is removed, what the broker counts as
\* delivered is in the hands of the extension: AcknowledgedIsHeld.  So a
\* session that comes back in time owes nothing that only the broker knows of.
THEOREM HandedWorkIsHeld ==
  ASSUME NobodyLeaves
  PROVE  Spec => []AcknowledgedIsHeld
<1>1. Good => AcknowledgedIsHeld
  <2> SUFFICES ASSUME Good, NEW a \in Agents, NEW r \in EntriesOf(a, session[a]),
                      pending[r].acked, clientId[a] = session[a]
               PROVE  \/ remote[a].active = r
                      \/ \E i \in DOMAIN remote[a].queue : remote[a].queue[i] = r
                      \/ \E i \in DOMAIN remote[a].results : remote[a].results[i].req = r
    BY DEF AcknowledgedIsHeld
  <2>1. r \in Mine(a) /\ Present(a, r)
    BY DEF EntriesOf, Mine, Present
  <2>2. HandsOf(a, r)
    BY <2>1 DEF Good, HandsInv
  <2>3. r \in Holding(remote[a])
    BY <2>1, <2>2 DEF HandsOf
  <2> QED BY <2>3 DEF Holding, On
<1> QED BY <1>1, AlwaysGood, PTL

\* As long as nobody leaves the group or is removed, no Agent is set to work
\* twice on the same request, however often connections break, Pi processes
\* die and the broker restarts: RunsOnce.
THEOREM RunsAtMostOnce ==
  ASSUME NobodyLeaves
  PROVE  Spec => []RunsOnce
<1>1. Good => RunsOnce
  <2> SUFFICES ASSUME Good, NEW r \in Requests PROVE runs[r] <= 1
    BY DEF RunsOnce
  <2>1. r \in Mine(TargetOf(r)) /\ TargetOf(r) \in Agents
    BY DEF Mine, Requests, TargetOf
  <2>2. HandsOf(TargetOf(r), r)
    BY <2>1 DEF Good, HandsInv
  <2> QED BY <2>2 DEF HandsOf
<1> QED BY <1>1, AlwaysGood, PTL

------------------------------------------------------------------------------
(* Messages and their requests                                               *)

Settled(m) == (\A a \in Agents : reqStatus[<<m, a>>] \notin Active) => msgStatus[m] \notin Unsettled
Lone(m) == \A a, b \in Asked(m, reqStatus) : a = b

\* A message of a lone target always settles, and without restarts any does.
\* A restart interrupts all requests but finds only the message of a lone one.
SettlesInv == /\ up \/ "restart" \in Faults
              /\ \A m \in Messages : Lone(m) \/ "restart" \notin Faults => Settled(m)

LEMMA RefreshSettles ==
  ASSUME NEW m, NEW status, \A a \in Agents : status[<<m, a>>] \notin Active
  PROVE  RefreshedStatus(m, status) \notin Unsettled
<1> DEFINE of == {status[<<m, a>>] : a \in Agents}
<1>1. "delivered" \notin of /\ "pending" \notin of /\ "awaiting_approval" \notin of
  BY DEF Active
<1>2. RefreshedStatus(m, status) \in {"completed", "failed"}
  BY <1>1 DEF RefreshedStatus
<1> QED BY <1>2 DEF Unsettled

LEMMA SetStatusSettles ==
  ASSUME DatabaseType, NEW S \in SUBSET Requests, NEW new, SetStatus(S, new),
         NEW m \in Messages, Settled(m)
  PROVE  Settled(m)'
<1> SUFFICES ASSUME \A a \in Agents : reqStatus'[<<m, a>>] \notin Active
             PROVE  msgStatus'[m] \notin Unsettled
  BY DEF Settled
<1>1. /\ reqStatus' = [r \in Requests |-> IF r \in S THEN new[r] ELSE reqStatus[r]]
      /\ msgStatus'[m] = IF \E r \in S : MessageOf(r) = m
                         THEN RefreshedStatus(m, reqStatus') ELSE msgStatus[m]
  BY DEF SetStatus
<1>2. CASE \E r \in S : MessageOf(r) = m
  BY <1>1, <1>2, RefreshSettles
<1>3. CASE ~\E r \in S : MessageOf(r) = m
  <2>1. \A a \in Agents : <<m, a>> \in Requests /\ <<m, a>> \notin S
    BY <1>3 DEF Requests, MessageOf
  <2>2. \A a \in Agents : reqStatus[<<m, a>>] \notin Active
    BY <1>1, <2>1
  <2> QED BY <1>1, <1>3, <2>2 DEF Settled
<1> QED BY <1>2, <1>3

LEMMA StaysLone ==
  ASSUME TypeOK, [Next]_vars, NEW m \in Messages, Lone(m)'
  PROVE  Lone(m)
<1>1. /\ reqStatus \in [Requests -> RequestStatus]
      /\ \A a \in Agents : <<m, a>> \in Requests /\ MessageOf(<<m, a>>) = m
  BY DEF TypeOK, DatabaseType, Requests, MessageOf
<1>2. ASSUME \A r \in Requests : reqStatus[r] # "none" => reqStatus'[r] # "none" PROVE Lone(m)
  BY <1>1, <1>2 DEF Lone, Asked
<1>3. ASSUME NEW n \in Messages, AskRows(n) PROVE Lone(m)
  <2>1. CASE n = m
    BY <1>3, <2>1 DEF AskRows, Lone, Asked
  <2>2. CASE n # m
    <3>1. \A a \in Agents : reqStatus'[<<m, a>>] = reqStatus[<<m, a>>]
      BY <1>1, <1>3, <2>2 DEF AskRows
    <3> QED BY <3>1 DEF Lone, Asked
  <2> QED BY <2>1, <2>2
<1>4. ASSUME NEW r \in Requests, AcknowledgeRow(r) \/ ApproveRow(r) \/ AnswerRow(r)
      PROVE  Lone(m)
  BY <1>1, <1>2, <1>4 DEF AcknowledgeRow, ApproveRow, AnswerRow
<1>5. ASSUME NEW S \in SUBSET Requests, RefuseRows(S) PROVE Lone(m)
  BY <1>2, <1>5 DEF RefuseRows, Terminal
<1>6. CASE UNCHANGED <<reqStatus, answers>>
  BY <1>2, <1>6
<1> QED BY <1>3, <1>4, <1>5, <1>6, NextRows DEF RowStep

LEMMA AskedSettle ==
  ASSUME DatabaseType, NEW n \in Messages, ChatSend(n), NEW m \in Messages, Settled(m)
  PROVE  Settled(m)'
<1> SUFFICES ASSUME \A a \in Agents : reqStatus'[<<m, a>>] \notin Active
             PROVE  msgStatus'[m] \notin Unsettled
  BY DEF Settled
<1>1. PICK T \in SUBSET Agents, hasTask \in BOOLEAN : \E out \in [T -> RequestStatus] :
        (\A a \in T : out[a] \in Outcomes(a, hasTask)) /\ AddressTargets(n, T, out)
  BY DEF ChatSend
<1>2. PICK out \in [T -> RequestStatus] : AddressTargets(n, T, out)
  BY <1>1
<1>3. \A a \in Agents : /\ <<m, a>> \in Requests
                        /\ MessageOf(<<m, a>>) = m /\ TargetOf(<<m, a>>) = a
  BY DEF Requests, MessageOf, TargetOf
<1>4. /\ \A a \in Agents : reqStatus'[<<m, a>>] = IF m = n /\ a \in T THEN out[a]
                                                  ELSE reqStatus[<<m, a>>]
      /\ msgStatus'[m] = IF m = n
                         THEN IF \E a \in T : out[a] = "pending" THEN "processing"
                              ELSE IF \E a \in T : out[a] = "awaiting_approval"
                                   THEN "waiting_approval" ELSE "failed"
                         ELSE msgStatus[m]
  BY <1>2, <1>3 DEF AddressTargets, DatabaseType
<1>5. CASE m = n
  <2>1. \A a \in T : out[a] \notin Active
    BY <1>4, <1>5
  <2>2. msgStatus'[m] = "failed"
    BY <1>4, <1>5, <2>1 DEF Active
  <2> QED BY <2>2 DEF Unsettled
<1>6. CASE m # n
  BY <1>4, <1>6 DEF Settled
<1> QED BY <1>5, <1>6

\* What a restart interrupts it settles, if it was the message's only request.
LEMMA RestartSettles ==
  ASSUME DatabaseType, BrokerStarts, NEW m \in Messages, Lone(m), Settled(m)
  PROVE  Settled(m)'
<1> SUFFICES msgStatus'[m] \notin Unsettled
  BY DEF Settled
<1>1. msgStatus'[m] = InterruptedMessage(m)
  BY DEF BrokerStarts
<1>2. IsFiniteSet(Asked(m, reqStatus))
  BY ConstantsAssumption, FS_Subset DEF Asked
<1>3. CASE Asked(m, reqStatus) = {}
  <2>1. \A a \in Agents : reqStatus[<<m, a>>] \notin Active
    BY <1>3 DEF Asked, Active
  <2>2. Cardinality(Asked(m, reqStatus)) # 1
    BY <1>3, FS_EmptySet
  <2> QED BY <1>1, <2>1, <2>2 DEF InterruptedMessage, Settled
<1>4. CASE Asked(m, reqStatus) # {}
  <2>1. PICK a \in Agents : Asked(m, reqStatus) = {a}
    BY <1>4 DEF Lone, Asked
  <2>2. Cardinality(Asked(m, reqStatus)) = 1
    BY <2>1, FS_Singleton
  <2>3. (CHOOSE b \in Agents : b \in Asked(m, reqStatus)) = a
    BY <2>1
  <2>4. \A b \in Agents \ {a} : reqStatus[<<m, b>>] = "none"
    BY <2>1 DEF Asked
  <2>5. msgStatus'[m] = CASE reqStatus[<<m, a>>] = "awaiting_approval" -> "failed"
                          [] reqStatus[<<m, a>>] \in {"pending", "delivered"} -> "interrupted"
                          [] OTHER -> msgStatus[m]
    BY <1>1, <2>2, <2>3 DEF InterruptedMessage
  <2>6. CASE reqStatus[<<m, a>>] \in Active
    <3>1. msgStatus'[m] \in {"failed", "interrupted"}
      BY <2>5, <2>6 DEF Active
    <3> QED BY <3>1 DEF Unsettled
  <2>7. CASE reqStatus[<<m, a>>] \notin Active
    <3>1. msgStatus'[m] = msgStatus[m]
      BY <2>5, <2>7 DEF Active
    <3>2. \A b \in Agents : reqStatus[<<m, b>>] \notin Active
      BY <2>4, <2>7 DEF Active
    <3> QED BY <3>1, <3>2 DEF Settled
  <2> QED BY <2>6, <2>7
<1> QED BY <1>3, <1>4

\* Only a restart stops the broker.
LEMMA UpStays ==
  ASSUME [Next]_vars, up \/ "restart" \in Faults
  PROVE  up' \/ "restart" \in Faults
<1>1. ASSUME NEW m \in Messages, ChatSend(m) PROVE UNCHANGED up
  BY <1>1 DEF ChatSend
<1>2. ASSUME NEW a \in Agents, BrokerReads(a) \/ GraceExpires(a) \/ HandleUnexpectedDisconnect(a)
      PROVE  UNCHANGED up
  BY <1>2 DEF BrokerReads, HandleDeliverAck, HandleApprove, HandleReject, HandleResult,
              HandleLeave, HandleGoodbye, GraceExpires, HandleUnexpectedDisconnect, brokerVars
<1>3. ASSUME NEW a \in Agents,
             \/ RemoveMember(a) \/ DropCredentials(a) \/ Connect(a) \/ HelloLost(a)
             \/ LinkBreak(a) \/ JoinGroup(a)
      PROVE  UNCHANGED up
  BY <1>3 DEF RemoveMember, DropCredentials, Connect, HelloLost, LinkBreak, JoinGroup, brokerVars
<1>4. ASSUME NEW a \in Agents, ExtensionReads(a) PROVE UNCHANGED up
  BY <1>4 DEF ExtensionReads, ReceiveDelivery, ReceiveApproval, ReceiveSettled,
              ReceiveResultAck, ReceiveRemoved, brokerVars
<1>5. ASSUME NEW a \in Agents,
             \/ AgentSettles(a) \/ RetryResults(a) \/ LeaveGroup(a) \/ Quit(a) \/ Crash(a)
             \/ \E r \in Requests : Decide(a, r, "approve") \/ Decide(a, r, "reject")
      PROVE  UNCHANGED up
  BY <1>5 DEF AgentSettles, SettleLocal, Settle, RetryResults, LeaveGroup, Quit, Crash,
              Decide, brokerVars
<1>6. BrokerStops => "restart" \in Faults
  BY DEF BrokerStops, Fault
<1>7. BrokerStarts => up'
  BY DEF BrokerStarts
<1>8. UNCHANGED vars => UNCHANGED up
  BY DEF vars, brokerVars
<1> QED BY <1>1, <1>2, <1>3, <1>4, <1>5, <1>6, <1>7, <1>8 DEF Next

LEMMA NextSettles ==
  ASSUME TypeOK, SettlesInv, [Next]_vars
  PROVE  SettlesInv'
<1>0. DatabaseType /\ NetworkType
  BY DEF TypeOK
<1> DEFINE Goal == \/ \A m \in Messages : Settled(m) => Settled(m)'
                   \/ BrokerStarts
<1>1. Goal
  <2> SUFFICES Goal
    OBVIOUS
  <2>1. ASSUME UNCHANGED <<reqStatus, msgStatus>> PROVE Goal
    BY <2>1 DEF Settled
  <2>2. ASSUME NEW n \in Messages, ChatSend(n) PROVE Goal
    BY <1>0, <2>2, AskedSettle
  <2>3. ASSUME NEW S \in SUBSET Requests, NEW new, SetStatus(S, new) PROVE Goal
    BY <1>0, <2>3, SetStatusSettles
  <2>4. ASSUME NEW a \in Agents, HandleDeliverAck(a) PROVE Goal
    <3>1. PICK r \in Requests : r = Head(toBroker[a]).req
      BY <1>0, <2>4, ArrivesType DEF HandleDeliverAck, ToBroker
    <3>2. (\E new : SetStatus({r}, new)) \/ UNCHANGED <<reqStatus, msgStatus>>
      BY <2>4, <3>1 DEF HandleDeliverAck
    <3> QED BY <2>1, <2>3, <3>2
  <2>5. ASSUME NEW a \in Agents, HandleApprove(a) \/ HandleReject(a) PROVE Goal
    <3>1. PICK r \in Requests : r = Head(toBroker[a]).req
      BY <1>0, <2>5, ArrivesType DEF HandleApprove, HandleReject, ToBroker
    <3>2. (\E new : SetStatus({r}, new)) \/ UNCHANGED <<reqStatus, msgStatus>>
      BY <2>5, <3>1 DEF HandleApprove, HandleReject
    <3> QED BY <2>1, <2>3, <3>2
  <2>6. ASSUME NEW a \in Agents, HandleResult(a) PROVE Goal
    <3>1. PICK r \in Requests : r = Head(toBroker[a]).req
      BY <1>0, <2>6, ArrivesType DEF HandleResult, ToBroker
    <3>2. (\E ok : CloseByResult(a, r, ok)) \/ UNCHANGED dbVars
      BY <2>6, <3>1 DEF HandleResult
    <3>3. (\E new : SetStatus({r}, new)) \/ UNCHANGED <<reqStatus, msgStatus>>
      BY <3>2 DEF CloseByResult, dbVars
    <3> QED BY <2>1, <2>3, <3>3
  <2>7. ASSUME NEW a \in Agents, HandleLeave(a) \/ HandleGoodbye(a) \/ GraceExpires(a)
        PROVE  Goal
    <3>1. FailRequestsForTarget(a) \/ UNCHANGED <<reqStatus, msgStatus>>
      BY <2>7 DEF HandleLeave, HandleGoodbye, GraceExpires, LeaveClientGroup
    <3>2. (\E S \in SUBSET Requests : \E new : SetStatus(S, new))
             \/ UNCHANGED <<reqStatus, msgStatus>>
      <4> SUFFICES ASSUME FailRequestsForTarget(a)
                   PROVE  \E S \in SUBSET Requests : \E new : SetStatus(S, new)
        BY <3>1
      <4> DEFINE T == {r \in EntriesOf(a, session[a]) : reqStatus[r] \in Active}
      <4>1. T \in SUBSET Requests
        BY DEF EntriesOf
      <4>2. \E new : SetStatus(T, new)
        BY DEF FailRequestsForTarget
      <4> HIDE DEF T
      <4> QED BY <4>1, <4>2
    <3> QED BY <2>1, <2>3, <3>2
  <2>8. ASSUME NEW a \in Agents,
               \/ HandleUnexpectedDisconnect(a) \/ RemoveMember(a) \/ DropCredentials(a)
               \/ Connect(a) \/ HelloLost(a) \/ LinkBreak(a) \/ JoinGroup(a)
        PROVE  Goal
    BY <2>1, <2>8 DEF HandleUnexpectedDisconnect, RemoveMember, DropCredentials, Connect,
                      HelloLost, LinkBreak, JoinGroup, dbVars
  <2>9. ASSUME NEW a \in Agents, ExtensionReads(a) PROVE Goal
    BY <2>1, <2>9 DEF ExtensionReads, ReceiveDelivery, ReceiveApproval, ReceiveSettled,
                      ReceiveResultAck, ReceiveRemoved, dbVars
  <2>10. ASSUME NEW a \in Agents,
                \/ AgentSettles(a) \/ RetryResults(a) \/ LeaveGroup(a) \/ Quit(a) \/ Crash(a)
                \/ \E r \in Requests : Decide(a, r, "approve") \/ Decide(a, r, "reject")
         PROVE  Goal
    BY <2>1, <2>10 DEF AgentSettles, SettleLocal, Settle, RetryResults, LeaveGroup, Quit,
                       Crash, Decide, dbVars
  <2>11. CASE BrokerStops \/ UNCHANGED vars
    BY <2>1, <2>11 DEF BrokerStops, vars, dbVars
  <2>12. CASE BrokerStarts
    BY <2>12
  <2> QED
    BY <2>2, <2>4, <2>5, <2>6, <2>7, <2>8, <2>9, <2>10, <2>11, <2>12 DEF Next, BrokerReads
<1>2. up' \/ "restart" \in Faults
  BY UpStays DEF SettlesInv
<1>3. ASSUME NEW m \in Messages, Lone(m)' \/ "restart" \notin Faults
      PROVE  Settled(m)'
  <2>1. Lone(m) \/ "restart" \notin Faults
    BY <1>3, StaysLone
  <2>2. Settled(m)
    BY <2>1 DEF SettlesInv
  <2>3. CASE BrokerStarts
    <3>1. "restart" \in Faults
      BY <2>3 DEF BrokerStarts, SettlesInv
    <3> QED BY <1>0, <2>1, <2>2, <2>3, <3>1, RestartSettles
  <2> QED BY <1>1, <2>2, <2>3
<1> QED BY <1>2, <1>3 DEF SettlesInv

\* Through every fault, the message of a request that is its only one settles
\* when the request ends; without restarts every message does: SettlesInv.
THEOREM LoneMessagesSettle == Spec => []SettlesInv
<1>1. Init => SettlesInv
  BY DEF Init, SettlesInv, Settled, Unsettled
<1>2. TypeOK /\ SettlesInv /\ [Next]_vars => SettlesInv'
  BY NextSettles
<1> QED BY <1>1, <1>2, TypeCorrect, PTL DEF Spec

\* With one Agent, or without restarts, no message shows work going on when
\* all its requests ended: MessageSettles.  (A restart leaves the message of a
\* fan-out as it was.)
THEOREM MessagesSettle ==
  ASSUME Cardinality(Agents) = 1 \/ "restart" \notin Faults
  PROVE  Spec => []MessageSettles
<1>1. SettlesInv => MessageSettles
  <2> SUFFICES ASSUME SettlesInv, NEW m \in Messages PROVE Settled(m)
    BY DEF MessageSettles, Settled
  <2>1. Cardinality(Agents) = 1 => \A a, b \in Agents : a = b
    BY ConstantsAssumption, FS_Singleton
  <2>2. Lone(m) \/ "restart" \notin Faults
    BY <2>1 DEF Lone, Asked
  <2> QED BY <2>2 DEF SettlesInv
<1> QED BY <1>1, LoneMessagesSettle, PTL

------------------------------------------------------------------------------
(* Sessions: the promise of SessionPromise                                   *)

SessionOfAll == TypeOK /\ \A a \in Agents : SessionOf(a)

\* What holds a session, and what its broker knows of it
Seat(a) == IF link[a] = "none" THEN {} ELSE {a}
Connected == {{a} : a \in {b \in Agents : link[b] # "none"}}

LEMMA Seats ==
  /\ \A a \in Agents : (Seat(a) # {} <=> link[a] # "none") /\ (Seat(a) # {} => Seat(a) = {a})
  /\ \A a, b \in Agents : {a} = {b} => a = b
  /\ \A a \in Agents : {a} \in Connected <=> link[a] # "none"
BY DEF Seat, Connected

\* One session's link changes.
LEMMA LinkChanges ==
  ASSUME link \in [Agents -> Links], NEW a \in Agents, NEW l, link' = [link EXCEPT ![a] = l]
  PROVE  /\ l # "none" => Connected' = Connected \cup {{a}}
         /\ l = "none" => Connected' = Connected \ {{a}}
         /\ \A b \in Agents : b # a => link'[b] = link[b]
         /\ link'[a] = l
<1>1. link'[a] = l /\ \A b \in Agents : b # a => link'[b] = link[b]
  OBVIOUS
<1>2. ASSUME NEW b \in Agents PROVE {b} = {a} <=> b = a
  OBVIOUS
<1>3. ASSUME NEW x PROVE x \in Connected' <=> \E b \in Agents : x = {b} /\ link'[b] # "none"
  BY DEF Connected
<1>4. ASSUME NEW x PROVE x \in Connected <=> \E b \in Agents : x = {b} /\ link[b] # "none"
  BY DEF Connected
<1>5. CASE l # "none"
  BY <1>1, <1>2, <1>3, <1>4, <1>5
<1>6. CASE l = "none"
  BY <1>1, <1>2, <1>3, <1>4, <1>6
<1> QED BY <1>1, <1>5, <1>6

\* Handshakes, goodbyes, breaks, grace times and restarts are steps of
\* SessionPromise; nothing else touches a session.
LEMMA SessionStep ==
  ASSUME SessionOfAll, SessionOfAll', [Next]_vars
  PROVE  [Sessions!Next]_(Sessions!vars)
<1> DEFINE holder == [a \in Agents |-> Seat(a)]
           instanceOf == [a \in Agents |-> IF up THEN instance ELSE instance + 1]
           Goal == [Sessions!Next]_(Sessions!vars)
<1> SUFFICES Goal
  OBVIOUS
<1>0. /\ session \in [Agents -> Nat] /\ lastClient \in [Agents -> Nat]
      /\ link \in [Agents -> Links] /\ instance \in Nat /\ link' \in [Agents -> Links]
      /\ session' \in [Agents -> Nat]
      /\ \A a \in Agents : SessionOf(a) /\ SessionOf(a)'
  BY DEF SessionOfAll, TypeOK, BrokerType, NetworkType
<1>1. ASSUME UNCHANGED <<session, link, up, instance>> PROVE Goal
  BY <1>1 DEF Sessions!vars
<1>2. ASSUME NEW m \in Messages, ChatSend(m) PROVE Goal
  BY <1>1, <1>2 DEF ChatSend
<1>3. ASSUME NEW a \in Agents,
             \/ HandleDeliverAck(a) \/ HandleApprove(a) \/ HandleReject(a)
             \/ HandleResult(a) \/ HandleLeave(a) \/ RemoveMember(a) \/ JoinGroup(a)
             \/ DropCredentials(a)
      PROVE  Goal
  BY <1>1, <1>3 DEF HandleDeliverAck, HandleApprove, HandleReject, HandleResult, HandleLeave,
                    RemoveMember, JoinGroup, DropCredentials, brokerVars
<1>4. ASSUME NEW a \in Agents,
             \/ ReceiveDelivery(a) \/ ReceiveApproval(a) \/ ReceiveSettled(a)
             \/ ReceiveResultAck(a) \/ ReceiveRemoved(a)
      PROVE  Goal
  BY <1>1, <1>4 DEF ReceiveDelivery, ReceiveApproval, ReceiveSettled, ReceiveResultAck,
                    ReceiveRemoved, brokerVars
<1>5. ASSUME NEW a \in Agents,
             \/ AgentSettles(a) \/ RetryResults(a) \/ LeaveGroup(a)
             \/ \E r \in Requests : Decide(a, r, "approve") \/ Decide(a, r, "reject")
      PROVE  Goal
  BY <1>1, <1>5 DEF AgentSettles, SettleLocal, Settle, RetryResults, LeaveGroup, Decide,
                    brokerVars
<1>6. ASSUME NEW a \in Agents, HandleGoodbye(a) PROVE Goal
  <2>1. /\ session' = [session EXCEPT ![a] = 0] /\ link' = [link EXCEPT ![a] = "none"]
        /\ link[a] # "none" /\ up' = up /\ instance' = instance
    BY <1>6 DEF HandleGoodbye, Arrives
  <2>2. Seat(a) = {a} /\ Connected' = Connected \ {{a}} /\ link'[a] = "none"
        /\ \A b \in Agents : b # a => link'[b] = link[b]
    BY <1>0, <2>1, LinkChanges DEF Seat
  <2>3. holder' = [holder EXCEPT ![a] = {}] /\ holder[a] = {a} /\ instanceOf' = instanceOf
    BY <2>1, <2>2 DEF Seat
  <2>4. Sessions!Leave(a)
    BY <2>1, <2>2, <2>3 DEF Sessions!Leave, Seat, Connected
  <2> QED BY <2>4 DEF Sessions!Next
<1>7. ASSUME NEW a \in Agents, HandleUnexpectedDisconnect(a) PROVE Goal
  <2>1. /\ link' = [link EXCEPT ![a] = "none"] /\ link[a] = "half"
        /\ UNCHANGED <<session, up, instance>>
    BY <1>7 DEF HandleUnexpectedDisconnect, brokerVars
  <2>2. Connected' = Connected \ {{a}} /\ link'[a] = "none"
        /\ \A b \in Agents : b # a => link'[b] = link[b]
    BY <1>0, <2>1, LinkChanges
  <2>3. holder' = [b \in Agents |-> IF holder[b] = {a} THEN {} ELSE holder[b]]
        /\ instanceOf' = instanceOf
    BY <2>1, <2>2, Seats DEF Seat
  <2>4. Sessions!Close({a})
    BY <2>1, <2>2, <2>3 DEF Sessions!Close, Seat, Connected
  <2> QED BY <2>4 DEF Sessions!Next
<1>8. ASSUME NEW a \in Agents, GraceExpires(a) PROVE Goal
  <2>1. /\ session' = [session EXCEPT ![a] = 0] /\ link[a] = "none" /\ session[a] # 0
        /\ UNCHANGED <<link, up, instance>>
    BY <1>8 DEF GraceExpires
  <2>2. Sessions!Expire(a)
    BY <2>1 DEF Sessions!Expire
  <2> QED BY <2>2 DEF Sessions!Next
<1>9. ASSUME NEW a \in Agents, RegisterClient(a), NEW l, l # "none",
             link' = [link EXCEPT ![a] = l], UNCHANGED <<up, instance>>
      PROVE  Goal
  <2>1. Connected' = Connected \cup {{a}} /\ link'[a] = l
        /\ \A b \in Agents : b # a => link'[b] = link[b]
    BY <1>0, <1>9, LinkChanges
  <2>2. holder' = [holder EXCEPT ![a] = {a}] /\ instanceOf' = instanceOf
    BY <1>9, <2>1 DEF Seat
  <2>3. session'[a] # 0 /\ session' = [session EXCEPT ![a] = IF @ = 0 THEN session'[a] ELSE @]
    BY <1>0, <1>9 DEF RegisterClient
  <2>4. \A b \in Agents : holder[b] = {a} => b = a
    BY Seats
  <2>5. holder[a] \in {{}, {a}} /\ {} \notin Connected
    BY DEF Seat, Connected
  <2>6. /\ Connected' \ {{a}} = Connected \ {{a}, holder[a]}
        /\ {a} \in Connected => {a} \in Connected'
    BY <2>1, <2>5
  <2>7. Sessions!Take(a, {a})
    BY <1>9, <2>2, <2>3, <2>4, <2>6 DEF Sessions!Take, Seat, Connected
  <2> QED BY <2>7 DEF Sessions!Next
<1>10. ASSUME NEW a \in Agents, Connect(a) \/ HelloLost(a) PROVE Goal
  <2>1. CASE Connect(a)
    <3>1. RegisterClient(a) /\ link' = [link EXCEPT ![a] = "live"] /\ UNCHANGED <<up, instance>>
      BY <2>1 DEF Connect
    <3> QED BY <1>9, <3>1
  <2>2. CASE HelloLost(a)
    <3>1. RegisterClient(a) /\ link' = [link EXCEPT ![a] = "half"] /\ UNCHANGED <<up, instance>>
      BY <2>2 DEF HelloLost
    <3> QED BY <1>9, <3>1
  <2> QED BY <1>10, <2>1, <2>2
<1>11. ASSUME NEW a \in Agents, link[a] = "live", link' = [link EXCEPT ![a] = "half"],
              UNCHANGED <<session, up, instance>>
       PROVE  Goal
  <2>1. Connected' = Connected \cup {{a}} /\ link'[a] = "half"
        /\ \A b \in Agents : b # a => link'[b] = link[b]
    BY <1>0, <1>11, LinkChanges
  <2>2. Connected' = Connected /\ \A b \in Agents : link'[b] = "none" <=> link[b] = "none"
    BY <1>11, <2>1, Seats
  <2>3. holder' = holder /\ instanceOf' = instanceOf
    BY <1>11, <2>2 DEF Seat
  <2> QED BY <1>11, <2>2, <2>3 DEF Sessions!vars, Seat, Connected
<1>12. ASSUME NEW a \in Agents, LinkBreak(a) \/ Quit(a) \/ Crash(a) PROVE Goal
  <2>1. UNCHANGED <<session, up, instance>>
    BY <1>12 DEF LinkBreak, Quit, Crash, brokerVars
  <2>2. link' = link \/ (link[a] = "live" /\ link' = [link EXCEPT ![a] = "half"])
    BY <1>12 DEF LinkBreak, Quit, Crash, Detach
  <2> QED BY <1>1, <1>11, <2>1, <2>2
<1>13. CASE BrokerStops
  <2>1. /\ up /\ ~up' /\ instance' = instance /\ session' = [a \in Agents |-> 0]
        /\ link' = [a \in Agents |-> "none"]
    BY <1>13 DEF BrokerStops
  <2>2. Connected' = {}
    BY <2>1 DEF Connected
  <2>3. /\ holder' = [a \in Agents |-> {}] /\ session' = [a \in Agents |-> 0]
        /\ instanceOf' = [a \in Agents |-> instanceOf[a] + 1]
    BY <2>1 DEF Seat
  <2>4. Sessions!Restart(Agents)
    BY <2>2, <2>3 DEF Sessions!Restart, Seat, Connected
  <2> QED BY <2>4 DEF Sessions!Next
<1>14. CASE BrokerStarts
  <2>1. ~up /\ up' /\ instance' = instance + 1 /\ UNCHANGED <<session, link>>
    BY <1>14 DEF BrokerStarts
  <2> QED BY <2>1 DEF Sessions!vars
<1>15. CASE UNCHANGED vars
  BY <1>1, <1>15 DEF vars, brokerVars
<1>a. ASSUME NEW a \in Agents,
             \/ BrokerReads(a) \/ HandleUnexpectedDisconnect(a) \/ GraceExpires(a)
             \/ RemoveMember(a) \/ DropCredentials(a) \/ Connect(a) \/ HelloLost(a)
             \/ LinkBreak(a) \/ JoinGroup(a) \/ ExtensionReads(a) \/ AgentSettles(a)
             \/ RetryResults(a) \/ LeaveGroup(a) \/ Quit(a) \/ Crash(a)
             \/ \E r \in Requests : Decide(a, r, "approve") \/ Decide(a, r, "reject")
      PROVE  Goal
  <2> HIDE DEF Goal
  <2> QED BY <1>3, <1>4, <1>5, <1>6, <1>7, <1>8, <1>10, <1>12, <1>a DEF BrokerReads, ExtensionReads
<1> HIDE DEF Goal
<1> QED BY <1>2, <1>a, <1>13, <1>14, <1>15 DEF Next

\* What the requests rely on of sessions and connections is SessionPromise: the
\* handshake in one step that this module has is no more than what the
\* handshakes of SessionConnections come to.
THEOREM KeepsSessions == Spec => SessionSpec
<1>1. Init => SessionOfAll
  <2> SUFFICES ASSUME Init PROVE SessionOfAll
    OBVIOUS
  <2>1. \A a \in Agents : SessionOf(a)
    BY DEF Init, SessionOf
  <2> QED BY <2>1, InitType DEF SessionOfAll
<1>2. SessionOfAll /\ [Next]_vars => SessionOfAll'
  <2> SUFFICES ASSUME SessionOfAll, [Next]_vars PROVE SessionOfAll'
    OBVIOUS
  <2>1. \A a \in Agents : SessionOf(a)'
    BY NextSession DEF SessionOfAll
  <2> QED BY <2>1, NextType DEF SessionOfAll
<1>3. Init => Sessions!Init
  <2> SUFFICES ASSUME Init PROVE Sessions!Init
    OBVIOUS
  <2>1. /\ session = [a \in Agents |-> 1] /\ link = [a \in Agents |-> "live"] /\ up /\ instance = 1
    BY DEF Init
  <2> QED BY <2>1 DEF Sessions!Init
<1>4. SessionOfAll /\ SessionOfAll' /\ [Next]_vars => [Sessions!Next]_(Sessions!vars)
  BY SessionStep
<1> QED BY <1>1, <1>2, <1>3, <1>4, PTL DEF Spec, SessionSpec, Sessions!Spec

=============================================================================
