--------------------------- MODULE SessionConnections ---------------------------
(***************************************************************************)
(* Connections between the sessions of one user and the brokers: handshake,*)
(* resumption, takeover, heartbeats, grace time and the end.  The client   *)
(* of Pi is BrokerClient (src/src/extension/broker-client.ts); the phone's *)
(* page is src/src/web/public/app.js; the broker's side are the handlers   *)
(* of connections in src/src/broker/server.ts.                             *)
(*                                                                         *)
(* A connection has two ends, which close one after the other: the closing *)
(* of an end travels like a message, behind what was sent before it.  When *)
(* the path is cut, neither end hears of the other any more.  A connection *)
(* whose ends are both closed is used again for the next one.              *)
(*                                                                         *)
(* Each run of the system has either one Pi with a session or pages of one *)
(* browser that share a session.                                           *)
(***************************************************************************)
EXTENDS Naturals, Sequences, FiniteSets

CONSTANTS Brokers, Home,  \* brokers; the one Pi is set up for
          Pi, Tabs,       \* the Pi; the pages
          Conns, None,    \* bound: connections that exist at once
          MaxIds,         \* bound: client ids in use at once
          MaxFaults,      \* bound: cuts, refusals, slow handshakes, crashes, restarts
          MaxUser         \* bound: decisions of the user

ASSUME ConstantsAssumption ==
  /\ Home \in Brokers /\ Pi \notin Tabs
  /\ None \notin Conns \cup Brokers \cup Tabs \cup {Pi}
  /\ {MaxIds, MaxFaults, MaxUser} \subseteq Nat

VARIABLES
  conn,   \* the connections, with what both ends know of them
  proc,   \* the state of each client
  broker, \* of each broker, instance, session of the user and `clients`
  kind,   \* who uses the session: "pi" or "web"
  faults, moves

vars == <<conn, proc, broker, kind, faults, moves>>

Procs == {Pi} \cup Tabs
Ids == 1..MaxIds

\* clientId and resumeToken, with the instance that gave them; id 0: undefined
NoCred == [id |-> 0, from |-> None, inst |-> 0]

\* cut: the path is cut.  mine, its: state of the client's and the broker's end.
\* step: how far the client got.  probed, id: the broker's acceptedProbe (hello
\* of a page) and clientId of the connection.  up, down: messages under way.
Closed == [by |-> None, to |-> None, cut |-> FALSE, mine |-> "closed", its |-> "closed",
           step |-> "none", probed |-> FALSE, id |-> 0, up |-> <<>>, down |-> <<>>]

\* sock, task: #socket, and the connection of #connectTask.  connected:
\* #connected, and of a page that it has joined.  known: the
\* instance last seen.  expects: expectedBrokerId (0: undefined).
NewProc == [sock |-> None, task |-> None, connected |-> FALSE, retry |-> FALSE,
            stopping |-> TRUE, permanent |-> FALSE, cred |-> NoCred, known |-> NoCred,
            target |-> Home, expects |-> 0]

\* id, sock: the session's clientId (0: no session) and socket.  grace: the
\* client that its disconnectTimer waits for.
NewBroker == [inst |-> 1, identity |-> 1, id |-> 0, sock |-> None, grace |-> 0, clients |-> {}]

Init ==
  /\ conn = [s \in Conns |-> Closed]
  /\ proc = [p \in Procs |-> NewProc]
  /\ broker = [b \in Brokers |-> NewBroker]
  /\ kind \in {"pi", "web"}
  /\ faults = 0 /\ moves = 0

\* Bound: a decision of the user takes the place of a fault.
Fault == faults + moves < MaxFaults /\ faults' = faults + 1
Move == moves < MaxUser /\ faults + moves < MaxFaults /\ moves' = moves + 1

------------------------------------------------------------------------------
(* Connections *)

Msg(t) == [type |-> t, cred |-> NoCred, identity |-> 0]
MsgWith(t, cred, identity) == [type |-> t, cred |-> cred, identity |-> identity]
Fin == Msg("fin")

\* What is sent into a cut path, or to an end that is closed, is lost.
ToBroker(c, m) == IF c.cut \/ c.its \in {"closed", "destroyed"} THEN c ELSE [c EXCEPT !.up = @ \o m]
ToClient(c, m) == IF c.cut \/ c.mine = "closed" THEN c ELSE [c EXCEPT !.down = @ \o m]

\* socket.destroy() of the broker; its handler of "close" runs later.
BrokerDestroy(c) ==
  IF c.its = "closed" THEN c
  ELSE [IF c.its = "open" THEN ToClient(c, <<Fin>>) ELSE c EXCEPT !.its = "destroyed", !.up = <<>>]

Gone(c) == IF c.mine = "closed" /\ c.its = "closed" THEN Closed ELSE c

\* socket.end(): nothing more is sent; the end still reads.
ClientEnd(c) == IF c.mine = "open" THEN [ToBroker(c, <<Fin>>) EXCEPT !.mine = "ended"] ELSE c
BrokerEnd(c) == IF c.its = "open" THEN [ToClient(c, <<Fin>>) EXCEPT !.its = "ended"] ELSE c

\* socket.destroy(), or the other end has closed
ClientClose(c) == Gone([ClientEnd(c) EXCEPT !.mine = "closed", !.down = <<>>])
BrokerClose(c) == Gone([BrokerEnd(c) EXCEPT !.its = "closed", !.up = <<>>])

ClientReads(s, type) ==
  /\ conn[s].mine # "closed" /\ conn[s].down # <<>> /\ Head(conn[s].down).type = type
BrokerReads(s, type) ==
  /\ conn[s].its \in {"open", "ended"} /\ conn[s].up # <<>> /\ Head(conn[s].up).type = type

\* The connection when its client, its broker took the first message.
ClientTook(s) == [conn[s] EXCEPT !.down = Tail(@)]
BrokerTook(s) == [conn[s] EXCEPT !.up = Tail(@)]

Free(cs) == {s \in Conns : cs[s] = Closed}

------------------------------------------------------------------------------
(* The client *)

\* Mutant: an attempt under way is not looked at.
CanOpenAgain(P) == ~(P.connected /\ P.sock # None) /\ ~P.stopping

\* connect and #openConnection open a connection; else nothing happens.
CanOpen(P) == ~(P.connected /\ P.sock # None) /\ P.task = None /\ ~P.stopping

\* connect() of p, whose state is P, among the connections cs
Connecting(p, P, cs) ==
  IF CanOpen(P)
  THEN \E s \in Free(cs) :
         /\ s = CHOOSE t \in Free(cs) : TRUE
         /\ conn' = [cs EXCEPT ![s] = [Closed EXCEPT !.by = p, !.to = P.target, !.mine = "open",
                                                     !.step = "connecting"]]
         /\ proc' = [proc EXCEPT ![p] = [P EXCEPT !.sock = s, !.task = IF p = Pi THEN s ELSE None]]
  ELSE conn' = cs /\ proc' = [proc EXCEPT ![p] = P]

\* Mutant: only a connection that was established is tried again.
DroppedLive(P, s) ==
  LET Q == [P EXCEPT !.task = IF @ = s THEN None ELSE @]
  IN  IF P.sock # s THEN Q
      ELSE [Q EXCEPT !.sock = None, !.connected = FALSE,
                     !.retry = @ \/ (P.connected /\ ~P.stopping /\ ~P.permanent)]

\* The handler of "close": the attempt fails, and unless the client has left
\* the connection, it is tried again.  What the extension starts in
\* onDisconnected is one more attempt, earlier than the timer's.
Dropped(P, s) ==
  LET Q == [P EXCEPT !.task = IF @ = s THEN None ELSE @]
  IN  IF P.sock # s THEN Q
      ELSE [Q EXCEPT !.sock = None, !.connected = FALSE,
                     !.retry = @ \/ (~P.stopping /\ ~P.permanent)]

\* The client closes connection s, which is in state c; P is its owner's state.
Drop(s, c, P) ==
  /\ conn' = [conn EXCEPT ![s] = ClientClose(c)]
  /\ proc' = [proc EXCEPT ![c.by] = Dropped(P, s)]

\* connectOrStartBroker goes on at any time, also while the timer waits or an
\* attempt is under way; session_start calls it after stop() has returned, and it
\* is content when the client says that it is connected.  A page is opened.
MayStart(p) ==
  /\ kind = IF p = Pi THEN "pi" ELSE "web"
  /\ p \in Tabs => proc[p].stopping
  /\ proc[p].stopping =>
       ~proc[p].connected /\ \A s \in Conns : conn[s].by = p => conn[s].mine = "closed"

\* start()
Start(p) ==
  /\ MayStart(p)
  /\ Connecting(p, [proc[p] EXCEPT !.stopping = FALSE, !.permanent = FALSE], conn)
  /\ UNCHANGED <<broker, kind, faults, moves>>

\* #scheduleReconnect's timer; the page's `retry`
Retry(p) ==
  /\ proc[p].retry
  /\ Connecting(p, [proc[p] EXCEPT !.retry = FALSE], conn)
  /\ UNCHANGED <<broker, kind, faults, moves>>

\* The page hears that the network is gone, or is hidden: it closes the socket.
TabOffline(t) ==
  /\ t \in Tabs /\ Move
  /\ LET s == proc[t].sock
         P == [proc[t] EXCEPT !.connected = FALSE]
     IN  /\ s # None /\ conn[s].mine = "open"
         /\ IF conn[s].step = "connecting" THEN Drop(s, conn[s], P)
            ELSE /\ conn' = [conn EXCEPT ![s] = ClientEnd(@)]
                 /\ proc' = [proc EXCEPT ![t] = P]
  /\ UNCHANGED <<broker, kind, faults>>

\* The network is back, the page is shown, before the old socket has closed.
TabOnline(t) ==
  /\ t \in Tabs /\ ~proc[t].stopping
  /\ proc[t].sock # None /\ conn[proc[t].sock].mine = "ended"
  /\ Connecting(t, [proc[t] EXCEPT !.sock = None, !.connected = FALSE, !.retry = FALSE], conn)
  /\ UNCHANGED <<broker, kind, faults, moves>>

\* stop(): goodbye, and the socket's end.  A socket that connects yet is given up.
Stop ==
  /\ Move /\ ~proc[Pi].stopping
  /\ LET s == proc[Pi].sock
         P == [proc[Pi] EXCEPT !.stopping = TRUE, !.retry = FALSE, !.sock = None,
                               !.connected = FALSE]
     IN  IF s = None THEN proc' = [proc EXCEPT ![Pi] = P] /\ UNCHANGED conn
         ELSE IF conn[s].step = "connecting" THEN Drop(s, conn[s], P)
         ELSE /\ conn' = [conn EXCEPT ![s] =
                   [ClientEnd(ToBroker(conn[s], <<Msg("goodbye")>>)) EXCEPT
                      !.step = IF @ = "live" THEN "left" ELSE @]]
              /\ proc' = [proc EXCEPT ![Pi] = P]
  /\ UNCHANGED <<broker, kind, faults>>

\* Mutant: the credentials of the broker that is left are kept.
MovedWith(P, b, e) ==
  [P EXCEPT !.retry = FALSE, !.sock = None, !.task = None, !.connected = FALSE,
            !.permanent = FALSE, !.known = NoCred, !.target = b, !.expects = e]

\* setConnection, when the old socket is closed
Moved(P, b, e) ==
  [P EXCEPT !.retry = FALSE, !.sock = None, !.task = None, !.connected = FALSE,
            !.permanent = FALSE, !.known = NoCred, !.cred = NoCred, !.target = b, !.expects = e]

\* The user chooses another broker, or rediscoverSavedGroup found the group's
\* broker under another address, while the client does what it does.
Elsewhere(b, e) == b # proc[Pi].target \/ e # proc[Pi].expects

\* setConnection to broker b, which perhaps is to have identity e.  It waits for
\* an attempt that stop() has left.
SetConnection(b, e) ==
  LET P == proc[Pi]
  IN  /\ kind = "pi" /\ Move
      /\ Elsewhere(b, e)
      /\ P.task \in {None, P.sock}
      /\ Connecting(Pi, Moved(P, b, e),
                    IF P.sock = None THEN conn ELSE [conn EXCEPT ![P.sock] = ClientClose(@)])
      /\ UNCHANGED <<broker, kind, faults>>

\* The process of Pi ends without goodbye, the page is closed.
Quit(p) ==
  /\ Fault /\ proc[p] # NewProc
  /\ conn' = [s \in Conns |-> IF conn[s].by = p /\ conn[s].mine # "closed" THEN ClientClose(conn[s])
                              ELSE conn[s]]
  /\ proc' = [proc EXCEPT ![p] = NewProc]
  /\ UNCHANGED <<broker, kind, moves>>

------------------------------------------------------------------------------
(* What happens to the client's end *)

\* "connect": the probe, the page's hello
ConnectOk(s) ==
  /\ conn[s].step = "connecting" /\ ~conn[s].cut
  /\ conn' = [conn EXCEPT ![s] =
       IF @.by = Pi THEN [@ EXCEPT !.its = "open", !.step = "probed", !.up = <<Msg("probe")>>]
       ELSE [@ EXCEPT !.its = "open", !.step = "hello", !.up = <<Msg("web.hello")>>]]
  /\ UNCHANGED <<proc, broker, kind, faults, moves>>

\* The connection is refused.
ConnectFails(s) ==
  /\ conn[s].step = "connecting" /\ Fault
  /\ Drop(s, conn[s], proc[conn[s].by])
  /\ UNCHANGED <<broker, kind, moves>>

\* broker.ready: an instance that was not seen before gets no old credentials.
Ready(s) ==
  /\ ClientReads(s, "ready")
  /\ LET c == ClientTook(s)
         P == proc[c.by]
         m == Head(conn[s].down)
         Q == [P EXCEPT !.known = m.cred, !.cred = IF P.known \in {NoCred, m.cred} THEN @ ELSE NoCred]
     IN  IF P.expects # 0 /\ P.expects # m.identity
         THEN Drop(s, c, [P EXCEPT !.permanent = TRUE])
         ELSE IF c.mine = "ended"   \* the hello can no longer be written
         THEN Drop(s, c, Q)
         ELSE /\ conn' = [conn EXCEPT ![s] =
                   ToBroker([c EXCEPT !.step = "hello"], <<MsgWith("hello", Q.cred, 0)>>)]
              /\ proc' = [proc EXCEPT ![c.by] = Q]
  /\ UNCHANGED <<broker, kind, faults, moves>>

Instance(cred) == [cred EXCEPT !.id = 0]

\* client.welcome; the page answers the first one with group.join.
Welcome(s) ==
  /\ ClientReads(s, "welcome")
  /\ LET c == ClientTook(s)
         m == Head(conn[s].down)
         next == [c EXCEPT !.step = IF @ = "hello" THEN "welcomed" ELSE @]
     IN  IF c.by = Pi
         THEN /\ conn' = [conn EXCEPT ![s] = next]
              /\ proc' = [proc EXCEPT ![Pi].cred = m.cred, ![Pi].known = Instance(m.cred)]
         ELSE /\ conn' = [conn EXCEPT ![s] =
                   IF c.step = "hello" /\ c.mine = "open" /\ proc[c.by].sock = s
                   THEN ToBroker(next, <<Msg("join")>>) ELSE c]
              /\ UNCHANGED proc
  /\ UNCHANGED <<broker, kind, faults, moves>>

\* snapshot.  The Pi's client does not look whether it has been stopped; a page
\* looks at its current connection only.
Snapshot(s) ==
  /\ ClientReads(s, "snapshot")
  /\ LET c == ClientTook(s)
     IN  IF c.by # Pi /\ (proc[c.by].sock # s \/ c.mine = "ended")
         THEN conn' = [conn EXCEPT ![s] = c] /\ UNCHANGED proc
         ELSE /\ conn' = [conn EXCEPT ![s] = [c EXCEPT !.step = "live"]]
              /\ proc' = [proc EXCEPT ![c.by] =
                   [proc[c.by] EXCEPT !.connected = TRUE, !.task = IF @ = s THEN None ELSE @]]
  /\ UNCHANGED <<broker, kind, faults, moves>>

\* Mutant: the client insists on the session that is no more.
KeepRejected(P, why) == P

\* The credentials after an error in the handshake
Refused(P, why) == IF why = "resume_rejected" THEN [P EXCEPT !.cred = NoCred] ELSE P

\* The errors that end the page's attempts
Final == {"session_in_use", "network_unavailable"}

\* An error: Pi gives the connection up unless it is established; the page stops
\* when another one has taken the session.
Error(s, why) ==
  /\ ClientReads(s, why)
  /\ LET c == ClientTook(s)
         P == proc[c.by]
     IN  IF c.by = Pi /\ c.step \notin {"live", "left"}
         THEN Drop(s, c, Refused(P, why))
         ELSE IF c.by \in Tabs /\ P.sock = s /\ c.mine = "open" /\ why \in Final
         THEN /\ conn' = [conn EXCEPT ![s] = ClientEnd(c)]
              /\ proc' = [proc EXCEPT ![c.by] = [P EXCEPT !.stopping = TRUE, !.connected = FALSE]]
         ELSE conn' = [conn EXCEPT ![s] = c] /\ UNCHANGED proc
  /\ UNCHANGED <<broker, kind, faults, moves>>

ErrorCodes == {"session_in_use", "resume_rejected", "hello_timeout", "network_unavailable",
               "invalid_payload"}

\* The broker's end is closed.
ClientFin(s) ==
  /\ ClientReads(s, "fin")
  /\ Drop(s, conn[s], proc[conn[s].by])
  /\ UNCHANGED <<broker, kind, faults, moves>>

\* Nothing is heard: the timers of the handshake and #startHeartbeat's, or TCP
\* itself for a page and for an end that waits for the other to close.
ClientSilence(s) ==
  /\ conn[s].mine # "closed" /\ conn[s].cut
  /\ Drop(s, conn[s], proc[conn[s].by])
  /\ UNCHANGED <<broker, kind, faults, moves>>

\* The handshake takes too long, though nothing is lost.
SlowHandshake(s) ==
  /\ conn[s].by = Pi /\ conn[s].mine # "closed" /\ proc[Pi].task = s
  /\ Fault
  /\ Drop(s, conn[s], proc[Pi])
  /\ UNCHANGED <<broker, kind, moves>>

\* The path is cut; what is under way is lost.
Cut(s) ==
  /\ conn[s] # Closed /\ ~conn[s].cut /\ Fault
  /\ conn' = [conn EXCEPT ![s] = [@ EXCEPT !.cut = TRUE, !.up = <<>>, !.down = <<>>]]
  /\ UNCHANGED <<proc, broker, kind, moves>>

------------------------------------------------------------------------------
(* The broker *)

Entry(id, s) == [id |-> id, sock |-> s]
IdsOf(cs) == {c.id : c \in cs}

\* A UUID that nobody has
UsedIds ==
  LET messages == UNION {{conn[s].up[i] : i \in DOMAIN conn[s].up} \cup
                         {conn[s].down[i] : i \in DOMAIN conn[s].down} : s \in Conns}
  IN  {proc[p].cred.id : p \in Procs} \cup {conn[s].id : s \in Conns} \cup
      {m.cred.id : m \in messages} \cup {broker[b].id : b \in Brokers} \cup
      UNION {IdsOf(broker[b].clients) : b \in Brokers}
FreshId == CHOOSE n \in Ids : n \notin UsedIds

CredOf(b, id) == [id |-> id, from |-> b, inst |-> broker[b].inst]

\* broker.probe
Probe(s) ==
  /\ BrokerReads(s, "probe")
  /\ LET c == BrokerTook(s)
     IN  conn' = [conn EXCEPT ![s] = ToClient([c EXCEPT !.probed = TRUE],
           <<MsgWith("ready", CredOf(c.to, 0), broker[c.to].identity)>>)]
  /\ UNCHANGED <<proc, broker, kind, faults, moves>>

\* broker.probe from a network that is not allowed for the moment
ProbeRefused(s) ==
  /\ BrokerReads(s, "probe") /\ Fault
  /\ conn' = [conn EXCEPT ![s] =
       BrokerEnd(ToClient(BrokerTook(s), <<Msg("network_unavailable")>>))]
  /\ UNCHANGED <<proc, broker, kind, moves>>

\* registerClient from the check on: s carries client id from now on; the
\* connection it replaces is closed, a page after it was told.
Registered(s, c) ==
  LET b == c.to
      B == broker[b]
      id == IF B.id = 0 THEN FreshId ELSE B.id
      told == [conn EXCEPT ![s] = ToClient([c EXCEPT !.id = id],
                <<MsgWith("welcome", CredOf(b, id), 0), Msg("snapshot")>>)]
  IN  /\ B.id = 0 => Ids \ UsedIds # {}
      /\ conn' = IF B.sock \in {None, s} THEN told
                 ELSE [told EXCEPT ![B.sock] =
                   IF c.by = Pi THEN BrokerDestroy(@)
                   ELSE BrokerEnd(ToClient(@, <<Msg("session_in_use")>>))]
      /\ broker' = [broker EXCEPT ![b] = [B EXCEPT !.id = id, !.sock = s, !.grace = 0,
                      !.clients = {x \in @ : x.id # id} \cup {Entry(id, s)}]]

\* Mutant: whoever says hello stops the timer of the session.
RejectedHello(s, c, why) ==
  /\ conn' = [conn EXCEPT ![s] = BrokerEnd(ToClient(c, <<Msg(why)>>))]
  /\ broker' = [broker EXCEPT ![c.to].grace = 0]

\* registerClient refuses.
Rejected(s, c, why) ==
  /\ conn' = [conn EXCEPT ![s] = BrokerEnd(ToClient(c, <<Msg(why)>>))]
  /\ UNCHANGED broker

\* client.hello.  A session that exists takes who has its credentials, else only
\* who claims none.
Hello(s) ==
  /\ BrokerReads(s, "hello")
  /\ LET c == BrokerTook(s)
         id == Head(conn[s].up).cred.id
     IN  IF id = broker[c.to].id
         THEN Registered(s, c)
         ELSE Rejected(s, c, IF id = 0 THEN "session_in_use" ELSE "resume_rejected")
  /\ UNCHANGED <<proc, kind, faults, moves>>

\* The page's hello is only kept.
WebHello(s) ==
  /\ BrokerReads(s, "web.hello")
  /\ LET c == BrokerTook(s)
     IN  conn' = [conn EXCEPT ![s] = ToClient([c EXCEPT !.probed = TRUE], <<Msg("welcome")>>)]
  /\ UNCHANGED <<proc, broker, kind, faults, moves>>

\* group.join of a page, with a credential that is good
WebJoin(s) ==
  /\ BrokerReads(s, "join")
  /\ Registered(s, BrokerTook(s))
  /\ UNCHANGED <<proc, kind, faults, moves>>

\* The network is not allowed for pages any more: at the join, and, in
\* refreshNetworkAccess, for the pages that have joined.
JoinRefused(s) ==
  /\ BrokerReads(s, "join") /\ Fault
  /\ conn' = [conn EXCEPT ![s] =
       BrokerEnd(ToClient(BrokerTook(s), <<Msg("network_unavailable")>>))]
  /\ UNCHANGED <<proc, broker, kind, moves>>

RefreshNetworkAccess(b) ==
  /\ kind = "web" /\ broker[b].clients # {} /\ Fault
  /\ conn' = [s \in Conns |->
       IF s \in {x.sock : x \in broker[b].clients}
       THEN BrokerEnd(ToClient(conn[s], <<Msg("network_unavailable")>>)) ELSE conn[s]]
  /\ UNCHANGED <<proc, broker, kind, moves>>

\* client.goodbye: removeClientSession
Goodbye(s) ==
  /\ BrokerReads(s, "goodbye")
  /\ LET c == BrokerTook(s)
     IN  IF c.id = 0
         THEN conn' = [conn EXCEPT ![s] = ToClient(c, <<Msg("invalid_payload")>>)] /\ UNCHANGED broker
         ELSE /\ conn' = [conn EXCEPT ![s] = BrokerEnd(c)]
              /\ broker' = [broker EXCEPT ![c.to] =
                   [broker[c.to] EXCEPT !.id = 0, !.sock = None, !.grace = 0,
                                        !.clients = @ \ {Entry(c.id, s)}]]
  /\ UNCHANGED <<proc, kind, faults, moves>>

\* Mutant: it is not asked whether the client has another connection by now.
LostAny(B, s, id) ==
  IF id = 0 THEN B
  ELSE [B EXCEPT !.clients = {x \in @ : x.id # id}, !.sock = IF @ = s THEN None ELSE @,
                 !.grace = IF B.id = 0 THEN @ ELSE id]

\* handleUnexpectedDisconnect, for the connection s of client id
Lost(B, s, id) ==
  IF Entry(id, s) \notin B.clients THEN B
  ELSE [B EXCEPT !.clients = {x \in @ : x.id # id}, !.sock = IF @ = s THEN None ELSE @,
                 !.grace = IF B.id = 0 THEN @ ELSE id]

\* The broker's end of s, which is in state c, closes.
Lose(s, c) ==
  /\ conn' = [conn EXCEPT ![s] = BrokerClose(c)]
  /\ broker' = [broker EXCEPT ![c.to] = Lost(@, s, c.id)]

\* The client's end is closed.
BrokerFin(s) ==
  /\ BrokerReads(s, "fin")
  /\ Lose(s, conn[s])
  /\ UNCHANGED <<proc, kind, faults, moves>>

\* Nothing is heard: helloTimer and armHeartbeat end the connection.
BrokerSilence(s) ==
  /\ conn[s].its = "open" /\ conn[s].cut
  /\ conn[s].id = 0 \/ broker[conn[s].to].sock = s
  /\ conn' = [conn EXCEPT ![s] = BrokerEnd(@)]
  /\ UNCHANGED <<proc, broker, kind, faults, moves>>

\* No answer to that either: in the end TCP gives up.
BrokerGivesUp(s) ==
  /\ conn[s].its = "ended" /\ conn[s].cut
  /\ Lose(s, conn[s])
  /\ UNCHANGED <<proc, kind, faults, moves>>

\* The handler of "close" of a connection that was replaced
BrokerClosed(s) ==
  /\ conn[s].its = "destroyed"
  /\ Lose(s, conn[s])
  /\ UNCHANGED <<proc, kind, faults, moves>>

\* helloTimer of a connection that is only slow
SlowHello(s) ==
  /\ conn[s].its = "open" /\ conn[s].id = 0 /\ Fault
  /\ conn' = [conn EXCEPT ![s] = BrokerEnd(ToClient(@, <<Msg("hello_timeout")>>))]
  /\ UNCHANGED <<proc, broker, kind, moves>>

\* The grace time of the session is over.
GraceEnds(b) ==
  /\ broker[b].grace # 0
  /\ broker' = [broker EXCEPT ![b] =
       IF @.grace \in IdsOf(@.clients) THEN [@ EXCEPT !.grace = 0]
       ELSE [@ EXCEPT !.id = 0, !.sock = None, !.grace = 0]]
  /\ UNCHANGED <<conn, proc, kind, faults, moves>>

\* The broker starts again, perhaps with another database.  Bound: only one that
\* somebody has to do with.
Restart(b) ==
  /\ Fault
  /\ broker[b].id # 0 \/ \E s \in Conns : conn[s].to = b \/ \E p \in Procs : proc[p].known.from = b
  /\ conn' = [s \in Conns |-> IF conn[s].to = b /\ conn[s].its # "closed" THEN BrokerClose(conn[s])
                              ELSE conn[s]]
  /\ \E id \in {broker[b].identity, broker[b].identity + 1} :
       broker' = [broker EXCEPT ![b] = [NewBroker EXCEPT !.inst = broker[b].inst + 1,
                                                         !.identity = id]]
  /\ UNCHANGED <<proc, kind, moves>>

------------------------------------------------------------------------------
ClientStep(s) ==
  \/ ConnectOk(s) \/ Ready(s) \/ Welcome(s) \/ Snapshot(s) \/ ClientFin(s) \/ ClientSilence(s)
  \/ \E why \in ErrorCodes : Error(s, why)

BrokerStep(s) ==
  \/ Probe(s) \/ Hello(s) \/ WebHello(s) \/ WebJoin(s) \/ Goodbye(s) \/ BrokerFin(s)
  \/ BrokerSilence(s) \/ BrokerGivesUp(s) \/ BrokerClosed(s)

Next ==
  \/ \E p \in Procs : Start(p) \/ Retry(p) \/ TabOffline(p) \/ TabOnline(p) \/ Quit(p)
  \/ Stop
  \/ \E b \in Brokers, e \in {0, 1} : SetConnection(b, e)
  \/ \E s \in Conns :
       \/ ClientStep(s) \/ BrokerStep(s)
       \/ ConnectFails(s) \/ SlowHandshake(s) \/ Cut(s) \/ ProbeRefused(s) \/ JoinRefused(s)
       \/ SlowHello(s)
  \/ \E b \in Brokers : GraceEnds(b) \/ Restart(b) \/ RefreshNetworkAccess(b)

\* Both ends read what arrives, their timers fire, and TCP gives up in the end.
Fairness ==
  /\ \A p \in Procs : WF_vars(Retry(p))
  /\ \A s \in Conns : WF_vars(ClientStep(s)) /\ WF_vars(BrokerStep(s))
  /\ \A b \in Brokers : WF_vars(GraceEnds(b))

Spec == Init /\ [][Next]_vars /\ Fairness

------------------------------------------------------------------------------
(* Properties *)

\* The broker's books agree at every moment: a session has either a connection
\* that is not closed and that `clients` names for it, or a timer that will end
\* it; nothing else is in `clients`.  No session is left that nobody can enter.
SessionHeld ==
  \A b \in Brokers :
    LET B == broker[b]
    IN  IF B.id = 0 \/ B.sock = None
        THEN B.clients = {} /\ B.grace = B.id /\ B.sock = None
        ELSE /\ B.clients = {Entry(B.id, B.sock)} /\ B.grace = 0
             /\ conn[B.sock].id = B.id /\ conn[B.sock].to = b /\ conn[B.sock].its # "closed"

\* Who uses a connection that is sound is reached by what the broker sends: no
\* late close, takeover or timer has taken the entry away.
ConnectedIsRegistered ==
  \A p \in Procs :
    LET s == proc[p].sock
    IN  s # None /\ conn[s].step = "live" /\ ~conn[s].cut /\ conn[s].its = "open" =>
          Entry(conn[s].id, s) \in broker[conn[s].to].clients

\* clientId and resumeToken are sent to the instance that gave them only,
\* whatever broker the client was moved to and whoever restarted.
CredentialsGoHome ==
  \A s \in Conns : conn[s].its # "closed" =>
    \A i \in DOMAIN conn[s].up :
      LET cred == conn[s].up[i].cred
      IN  cred.id # 0 => cred.from = conn[s].to /\ cred.inst = broker[cred.from].inst

\* One Pi has one connection, also while timers, starts and moves overlap; only
\* one that it has said goodbye on may still be closing.
OneConnection ==
  \A s, t \in Conns :
    conn[s].by = Pi /\ conn[t].by = Pi /\ conn[s].mine = "open" /\ conn[t].mine = "open" => s = t

\* Once cuts and crashes are over, whoever wants to be connected is in the end,
\* also against a session that the broker still keeps for a dead connection.
Established(p) ==
  proc[p].connected /\ proc[p].sock # None /\ conn[proc[p].sock].step = "live"
Reconnects ==
  \A p \in Procs : []<>(Established(p) \/ proc[p].stopping \/ proc[p].permanent)

------------------------------------------------------------------------------
(* Refinement *)

Promised ==
  INSTANCE SessionPromise WITH
    Seats <- Brokers,
    holder <- [b \in Brokers |-> broker[b].sock],
    client <- [b \in Brokers |-> broker[b].id],
    instance <- [b \in Brokers |-> broker[b].inst],
    open <- {s \in Conns : conn[s].its = "open"}

\* However connections are made, cut, replaced and closed, each broker keeps
\* SessionPromise: the connection that a session replaces is ended, takeovers,
\* losses and late closes leave its client id as it is, and no timer ends a
\* session that somebody holds.
SessionSpec == Promised!Spec

=============================================================================
