----------------------- MODULE SessionConnections_proofs -----------------------
(***************************************************************************)
(* Theorems of SessionConnections for any brokers, pages and connections   *)
(* and any number of faults and moves.  SessionInv says what is right about*)
(* each connection alone (ConnRight), what clients (ProcRight, PiRight)    *)
(* and what brokers (SessionHeld, BrokerRight) know of connections.        *)
(***************************************************************************)
EXTENDS SessionConnections, TLAPS

Creds == [id : Nat, from : Brokers \cup {None}, inst : Nat]
Types ==
  {"probe", "hello", "web.hello", "join", "goodbye", "fin", "ready", "welcome", "snapshot"}
    \cup ErrorCodes
Messages == [type : Types, cred : Creds, identity : Nat]
Steps == {"none", "connecting", "probed", "hello", "welcomed", "live", "left"}
ConnType ==
  [by : Procs \cup {None}, to : Brokers \cup {None}, cut : BOOLEAN,
   mine : {"open", "ended", "closed"}, its : {"open", "ended", "destroyed", "closed"},
   step : Steps, probed : BOOLEAN, id : Nat, up : Seq(Messages), down : Seq(Messages)]
ProcType ==
  [sock : Conns \cup {None}, task : Conns \cup {None}, connected : BOOLEAN, retry : BOOLEAN,
   stopping : BOOLEAN, permanent : BOOLEAN, cred : Creds, known : Creds,
   target : Brokers, expects : Nat]
BrokerType ==
  [inst : Nat, identity : Nat, id : Nat, sock : Conns \cup {None}, grace : Nat,
   clients : SUBSET [id : Nat, sock : Conns]]

TypeOK ==
  /\ conn \in [Conns -> ConnType]
  /\ proc \in [Procs -> ProcType]
  /\ broker \in [Brokers -> BrokerType]
  /\ kind \in {"pi", "web"}
  /\ faults \in Nat /\ moves \in Nat

\* The messages under way in one direction
Under(q) == {q[i] : i \in DOMAIN q}

\* A connection that is used has a client and a broker; one that the broker has not
\* seen carries nothing.
Begun(c) ==
  /\ c # Closed => c.by \in Procs /\ c.to \in Brokers /\ (c.by = Pi <=> kind = "pi")
  /\ c.mine = "closed" /\ c.its = "closed" => c = Closed
  /\ c.step = "connecting" =>
       c.its = "closed" /\ c.mine = "open" /\ c.up = <<>> /\ c.down = <<>> /\ c.id = 0

\* goodbye is the last message before the end.
LastWord(q) ==
  \A i, j \in DOMAIN q : q[i].type = "goodbye" /\ i < j => q[j].type = "fin"

\* What clients say: Pi says hello and goodbye, pages join.
Spoken(c) ==
  /\ \A m \in Under(c.up) :
       /\ m.type \in {"probe", "hello", "goodbye"} => c.by = Pi
       /\ m.type = "join" => c.by \in Tabs
       /\ m.type = "goodbye" => c.mine # "open"
       /\ m.type # "hello" => m.cred.id = 0
  /\ LastWord(c.up)

\* What a broker says: ready and the credentials are for Pi; a snapshot goes to a
\* client that has an id.
Told(c) ==
  /\ \A m \in Under(c.down) :
       /\ m.type = "ready" => c.by = Pi
       /\ m.cred.id # 0 => m.cred.from # None
       /\ m.type = "snapshot" => c.id # 0
  /\ c.step = "live" => c.id # 0

\* While the broker's end is not closed, what is under way belongs to the instance
\* inst of that broker.
Of(cred, b, inst) == cred.from = b /\ cred.inst = inst
CredsRight(c, inst) ==
  c.its # "closed" =>
    /\ \A m \in Under(c.up) : m.cred.id # 0 => Of(m.cred, c.to, inst)
    /\ \A m \in Under(c.down) : m.type = "ready" \/ m.cred.id # 0 => Of(m.cred, c.to, inst)

ConnRight(c, inst) ==
  c \in ConnType /\ Begun(c) /\ Spoken(c) /\ Told(c) /\ CredsRight(c, inst)

\* A client knows whom its credentials are from; a page gets none.
ProcRight(p) ==
  LET P == proc[p]
  IN  /\ P.cred.id # 0 => P.known = Instance(P.cred) /\ P.cred.from # None
      /\ ~P.stopping => (p = Pi <=> kind = "pi")
      /\ P.sock # None => conn[P.sock].by = p /\ conn[P.sock].mine # "closed"
      /\ p = Pi /\ P.sock # None => conn[P.sock].mine = "open"

\* The one open connection of Pi is #socket, and is being established or is.
PiRight(s) ==
  conn[s].by = Pi /\ conn[s].mine = "open" =>
    proc[Pi].sock = s /\ (proc[Pi].task = s \/ proc[Pi].connected)

\* A connection with a client id is the session's, until it is replaced or has
\* said goodbye.
Left(c) == c.mine # "open" /\ \A m \in Under(c.up) : m.type # "goodbye"
BrokerRight(s) ==
  LET c == conn[s]
  IN  /\ c.its = "open" /\ c.id # 0 => broker[c.to].sock = s
      /\ c.its = "ended" /\ c.id # 0 /\ c.by = Pi => broker[c.to].sock = s \/ Left(c)

\* Of SessionHeld, the part of one broker
Held(b) ==
  LET B == broker[b]
  IN  IF B.id = 0 \/ B.sock = None
      THEN B.clients = {} /\ B.grace = B.id /\ B.sock = None
      ELSE /\ B.clients = {Entry(B.id, B.sock)} /\ B.grace = 0
           /\ conn[B.sock].id = B.id /\ conn[B.sock].to = b /\ conn[B.sock].its # "closed"

SessionInv ==
  /\ TypeOK
  /\ \A b \in Brokers : Held(b)
  /\ \A s \in Conns : ConnRight(conn[s], broker[conn[s].to].inst) /\ PiRight(s) /\ BrokerRight(s)
  /\ \A p \in Procs : ProcRight(p)

------------------------------------------------------------------------------
(* Messages under way *)

LEMMA UnderAppend ==
  ASSUME NEW S, NEW q \in Seq(S), NEW r \in Seq(S)
  PROVE  q \o r \in Seq(S) /\ Under(q \o r) = Under(q) \cup Under(r)
<1>1. q \o r \in Seq(S) /\ DOMAIN (q \o r) = 1..(Len(q) + Len(r))
  OBVIOUS
<1>2. DOMAIN q = 1..Len(q) /\ DOMAIN r = 1..Len(r) /\ Len(q) \in Nat /\ Len(r) \in Nat
  OBVIOUS
<1>3. ASSUME NEW m \in Under(q \o r) PROVE m \in Under(q) \cup Under(r)
  <2>1. PICK i \in DOMAIN (q \o r) : m = (q \o r)[i]
    BY DEF Under
  <2>2. CASE i <= Len(q)
    BY <1>1, <1>2, <2>1, <2>2 DEF Under
  <2>3. CASE i > Len(q)
    <3>1. i - Len(q) \in DOMAIN r /\ m = r[i - Len(q)]
      BY <1>1, <1>2, <2>1, <2>3
    <3> QED BY <3>1 DEF Under
  <2> QED BY <1>1, <1>2, <2>1, <2>2, <2>3
<1>4. ASSUME NEW m \in Under(q) PROVE m \in Under(q \o r)
  <2>1. PICK i \in DOMAIN q : m = q[i]
    BY DEF Under
  <2>2. i \in DOMAIN (q \o r) /\ m = (q \o r)[i]
    BY <1>1, <1>2, <2>1
  <2> QED BY <2>2 DEF Under
<1>5. ASSUME NEW m \in Under(r) PROVE m \in Under(q \o r)
  <2>1. PICK i \in DOMAIN r : m = r[i]
    BY DEF Under
  <2>2. i + Len(q) \in DOMAIN (q \o r) /\ m = (q \o r)[i + Len(q)]
    BY <1>1, <1>2, <2>1
  <2> QED BY <2>2 DEF Under
<1> QED BY <1>1, <1>3, <1>4, <1>5

LEMMA UnderTail ==
  ASSUME NEW S, NEW q \in Seq(S), q # <<>>
  PROVE  /\ Tail(q) \in Seq(S) /\ Under(Tail(q)) \subseteq Under(q)
         /\ Head(q) \in Under(q) /\ Head(q) \in S
<1>1. /\ Tail(q) \in Seq(S) /\ DOMAIN Tail(q) = 1..(Len(q) - 1) /\ Len(q) \in Nat
      /\ Len(q) > 0 /\ DOMAIN q = 1..Len(q) /\ Head(q) = q[1] /\ q[1] \in S
      /\ \A i \in 1..(Len(q) - 1) : Tail(q)[i] = q[i + 1]
  OBVIOUS
<1>2. \A i \in DOMAIN Tail(q) : i + 1 \in DOMAIN q
  BY <1>1
<1>3. 1 \in DOMAIN q
  BY <1>1
<1> QED BY <1>1, <1>2, <1>3 DEF Under

LEMMA UnderSingle ==
  /\ Under(<<>>) = {}
  /\ \A m : Under(<<m>>) = {m}
  /\ \A m, n : Under(<<m, n>>) = {m, n}
BY DEF Under

LEMMA UnderMore ==
  ASSUME NEW q \in Seq(Messages), NEW m \in Messages
  PROVE  q \o <<m>> \in Seq(Messages) /\ Under(q \o <<m>>) = Under(q) \cup {m}
<1>1. <<m>> \in Seq(Messages)
  OBVIOUS
<1>2. q \o <<m>> \in Seq(Messages) /\ Under(q \o <<m>>) = Under(q) \cup Under(<<m>>)
  BY ZenonT(60), <1>1, UnderAppend
<1> QED BY <1>2, UnderSingle

\* The first message is read.
LEMMA LastWordTail ==
  ASSUME NEW q \in Seq(Messages), q # <<>>, LastWord(q)
  PROVE  /\ LastWord(Tail(q))
         /\ Head(q).type = "goodbye" => \A m \in Under(Tail(q)) : m.type = "fin"
<1>1. /\ DOMAIN Tail(q) = 1..(Len(q) - 1) /\ Len(q) \in Nat
      /\ Len(q) > 0 /\ DOMAIN q = 1..Len(q) /\ Head(q) = q[1]
      /\ \A i \in 1..(Len(q) - 1) : Tail(q)[i] = q[i + 1]
  OBVIOUS
<1>2. \A i \in DOMAIN Tail(q) : i + 1 \in DOMAIN q /\ 1 \in DOMAIN q /\ 1 < i + 1
  BY <1>1
<1>3. ASSUME NEW i \in DOMAIN Tail(q), NEW j \in DOMAIN Tail(q),
             Tail(q)[i].type = "goodbye", i < j
      PROVE  Tail(q)[j].type = "fin"
  <2>1. q[i + 1].type = "goodbye" /\ i + 1 < j + 1
    BY <1>1, <1>2, <1>3
  <2>2. q[j + 1].type = "fin"
    BY <1>2, <2>1 DEF LastWord
  <2> QED BY <1>1, <2>2
<1>4. ASSUME Head(q).type = "goodbye", NEW i \in DOMAIN Tail(q)
      PROVE  Tail(q)[i].type = "fin"
  <2>1. q[i + 1].type = "fin"
    BY <1>1, <1>2, <1>4 DEF LastWord
  <2> QED BY <1>1, <2>1
<1> QED BY <1>3, <1>4 DEF LastWord, Under

\* Behind a goodbye the end is sent only, and nothing is sent behind the end.
LEMMA LastWordAppend ==
  ASSUME NEW q \in Seq(Messages), NEW m \in Messages, LastWord(q),
         m.type = "fin" \/ \A x \in Under(q) : x.type # "goodbye"
  PROVE  LastWord(q \o <<m>>)
<1> DEFINE r == q \o <<m>>
<1>1. DOMAIN r = 1..(Len(q) + 1) /\ Len(q) \in Nat /\ DOMAIN q = 1..Len(q)
      /\ r[Len(q) + 1] = m /\ \A i \in DOMAIN q : r[i] = q[i]
  OBVIOUS
<1>2. ASSUME NEW i \in DOMAIN r, NEW j \in DOMAIN r, r[i].type = "goodbye", i < j
      PROVE  r[j].type = "fin"
  <2>1. i \in DOMAIN q /\ q[i] \in Under(q) /\ q[i].type = "goodbye"
    BY <1>1, <1>2 DEF Under
  <2>2. CASE j \in DOMAIN q
    BY <1>1, <1>2, <2>1, <2>2 DEF LastWord
  <2>3. CASE j \notin DOMAIN q
    BY <1>1, <1>2, <2>1, <2>3
  <2> QED BY <2>2, <2>3
<1> QED BY <1>2 DEF LastWord

------------------------------------------------------------------------------
(* What is done to one connection *)

\* A connection whose broker's end is not closed, or that has something under
\* way, is in use and not being opened.
LEMMA InUse ==
  ASSUME NEW c \in ConnType, Begun(c),
         c.its # "closed" \/ c.up # <<>> \/ c.down # <<>> \/ c.id # 0
  PROVE  c # Closed /\ c.by \in Procs /\ c.to \in Brokers /\ c.step # "connecting"
<1>1. Closed.its = "closed" /\ Closed.up = <<>> /\ Closed.down = <<>> /\ Closed.id = 0
  BY DEF Closed
<1>2. c # Closed /\ c.step # "connecting"
  BY <1>1 DEF Begun
<1> QED BY <1>2 DEF Begun

LEMMA ClosedRight ==
  ASSUME NEW inst PROVE ConnRight(Closed, inst)
<1>1. /\ Closed.up = <<>> /\ Closed.down = <<>> /\ Closed.its = "closed" /\ Closed.step = "none"
      /\ Closed.id = 0
  BY DEF Closed
<1>2. Closed \in ConnType
  BY DEF Closed, ConnType, Steps
<1>3. Under(<<>>) = {} /\ LastWord(<<>>)
  BY DEF Under, LastWord
<1> QED BY <1>1, <1>2, <1>3 DEF ConnRight, Begun, Spoken, Told, CredsRight

LEMMA GoneRight ==
  ASSUME NEW c, NEW inst, c \in ConnType,
         c # Closed => c.by \in Procs /\ c.to \in Brokers /\ (c.by = Pi <=> kind = "pi"),
         c.step = "connecting" =>
           c.its = "closed" /\ (c.mine = "closed" \/
             (c.mine = "open" /\ c.up = <<>> /\ c.down = <<>> /\ c.id = 0)),
         Spoken(c), Told(c), CredsRight(c, inst)
  PROVE  /\ ConnRight(Gone(c), inst)
         /\ Gone(c) = c \/ (c.mine = "closed" /\ c.its = "closed" /\ Gone(c) = Closed)
<1>1. CASE c.mine = "closed" /\ c.its = "closed"
  BY <1>1, ClosedRight DEF Gone
<1>2. CASE ~(c.mine = "closed" /\ c.its = "closed")
  BY <1>2 DEF Gone, ConnRight, Begun
<1> QED BY <1>1, <1>2

\* A message of the broker
Sayable(m, c, inst) ==
  /\ m \in Messages
  /\ m.type = "ready" => c.by = Pi
  /\ m.type = "ready" \/ m.cred.id # 0 => Of(m.cred, c.to, inst)
  /\ m.cred.id # 0 => m.cred.from # None
  /\ m.type = "snapshot" => c.id # 0

SameConn(d, c) == d.by = c.by /\ d.to = c.to /\ d.id = c.id

LEMMA ToClientRight ==
  ASSUME NEW c, NEW inst, NEW q \in Seq(Messages), ConnRight(c, inst), c.its # "closed",
         \A m \in Under(q) : Sayable(m, c, inst)
  PROVE  /\ ConnRight(ToClient(c, q), inst) /\ SameConn(ToClient(c, q), c)
         /\ ToClient(c, q).mine = c.mine /\ ToClient(c, q).its = c.its
         /\ ToClient(c, q).up = c.up /\ ToClient(c, q) # Closed
<1>1. c # Closed /\ c.step # "connecting"
  BY InUse DEF ConnRight
<1>2. CASE c.cut \/ c.mine = "closed"
  BY <1>1, <1>2 DEF ToClient, SameConn
<1>3. CASE ~(c.cut \/ c.mine = "closed")
  <2> DEFINE d == [c EXCEPT !.down = @ \o q]
  <2>1. ToClient(c, q) = d
    BY <1>3 DEF ToClient
  <2>2. c.down \o q \in Seq(Messages) /\ Under(c.down \o q) = Under(c.down) \cup Under(q)
    BY UnderAppend DEF ConnRight, ConnType
  <2>3. /\ d \in ConnType /\ SameConn(d, c) /\ d.mine = c.mine /\ d.its = c.its /\ d.up = c.up
        /\ d.step = c.step /\ d.cut = c.cut /\ d.down = c.down \o q
    BY <2>2 DEF ConnRight, ConnType, SameConn
  <2> HIDE DEF d
  <2>4. Begun(d) /\ Spoken(d)
    BY <1>1, <1>3, <2>3 DEF ConnRight, Begun, Spoken, SameConn
  <2>5. Told(d)
    BY <2>2, <2>3 DEF ConnRight, Told, SameConn, Sayable
  <2>6. CredsRight(d, inst)
    BY <2>2, <2>3 DEF ConnRight, CredsRight, SameConn, Sayable
  <2>7. d # Closed
    BY <2>3 DEF Closed
  <2> QED BY <2>1, <2>3, <2>4, <2>5, <2>6, <2>7 DEF ConnRight
<1> QED BY <1>2, <1>3

\* A change that sends nothing: the broker's end ends or is given up.
LEMMA EndRight ==
  ASSUME NEW c, NEW inst, ConnRight(c, inst), NEW d \in ConnType, SameConn(d, c),
         d.mine = c.mine, d.step = c.step, d.down = c.down,
         d.up = c.up \/ d.up = <<>>,
         c.its # "closed", d.its # "closed"
  PROVE  ConnRight(d, inst)
<1>1. c # Closed /\ c.step # "connecting"
  BY InUse DEF ConnRight
<1>2. Under(d.up) \subseteq Under(c.up) /\ LastWord(d.up)
  BY UnderSingle DEF ConnRight, Spoken, LastWord
<1>3. Begun(d)
  BY <1>1 DEF ConnRight, Begun, SameConn
<1>4. Spoken(d)
  BY <1>2 DEF ConnRight, Spoken, SameConn
<1>5. Told(d)
  BY DEF ConnRight, Told, SameConn
<1>6. CredsRight(d, inst)
  BY <1>2 DEF ConnRight, CredsRight, SameConn
<1> QED BY <1>3, <1>4, <1>5, <1>6 DEF ConnRight

LEMMA SayMsg ==
  ASSUME NEW t \in Types, NEW c, NEW inst, t # "ready", t # "snapshot"
  PROVE  Sayable(Msg(t), c, inst) /\ <<Msg(t)>> \in Seq(Messages) /\ Under(<<Msg(t)>>) = {Msg(t)}
         /\ Msg(t).type = t /\ Msg(t).cred.id = 0 /\ Msg(t) \in Messages
BY UnderSingle DEF Msg, Sayable, Messages, Creds, NoCred

LEMMA FinMessage == Fin \in Messages /\ Fin.type = "fin" /\ Fin.cred.id = 0
<1>1. "fin" \in Types /\ "fin" # "ready" /\ "fin" # "snapshot"
  BY DEF Types
<1> QED BY <1>1, SayMsg DEF Fin

LEMMA SayFin ==
  ASSUME NEW c, NEW inst, ConnRight(c, inst), c.its # "closed"
  PROVE  LET e == ToClient(c, <<Fin>>)
         IN  /\ ConnRight(e, inst) /\ SameConn(e, c) /\ e.mine = c.mine /\ e.its = c.its
             /\ e.up = c.up /\ e # Closed
<1>1. <<Fin>> \in Seq(Messages) /\ \A m \in Under(<<Fin>>) : Sayable(m, c, inst)
  <2>1. "fin" \in Types /\ "fin" # "ready" /\ "fin" # "snapshot"
    BY DEF Types
  <2> QED BY <2>1, SayMsg DEF Fin
<1> QED BY <1>1, ToClientRight

LEMMA ClosedAgain ==
  /\ [Closed EXCEPT !.its = "closed", !.up = <<>>] = Closed
  /\ <<>> \in Seq(Messages)
<1>1. [Closed EXCEPT !.its = "closed", !.up = <<>>] = Closed
  <2>1. Closed \in ConnType /\ Closed.its = "closed" /\ Closed.up = <<>>
    BY ClosedRight DEF ConnRight, Closed
  <2> QED BY <2>1 DEF ConnType
<1>2. <<>> \in Seq(Messages)
  OBVIOUS
<1> QED BY <1>1, <1>2

LEMMA BrokerEndRight ==
  ASSUME NEW c, NEW inst, ConnRight(c, inst)
  PROVE  /\ ConnRight(BrokerEnd(c), inst) /\ SameConn(BrokerEnd(c), c)
         /\ BrokerEnd(c).mine = c.mine /\ BrokerEnd(c).up = c.up
         /\ BrokerEnd(c).its = IF c.its = "open" THEN "ended" ELSE c.its
<1>1. CASE c.its # "open"
  BY <1>1 DEF BrokerEnd, SameConn
<1>2. CASE c.its = "open"
  <2> DEFINE e == ToClient(c, <<Fin>>)
             d == [e EXCEPT !.its = "ended"]
  <2>1. BrokerEnd(c) = d
    BY <1>2 DEF BrokerEnd
  <2>2. ConnRight(e, inst) /\ SameConn(e, c) /\ e.mine = c.mine /\ e.its = c.its /\ e.up = c.up
    BY <1>2, SayFin
  <2> HIDE DEF e
  <2>3. /\ d \in ConnType /\ SameConn(d, c) /\ SameConn(d, e) /\ d.mine = e.mine
        /\ d.its = "ended" /\ d.up = e.up /\ d.step = e.step /\ d.down = e.down
    BY <2>2 DEF ConnRight, ConnType, SameConn
  <2> HIDE DEF d
  <2>4. ConnRight(d, inst)
    BY <1>2, <2>2, <2>3, EndRight
  <2> QED BY <1>2, <2>1, <2>2, <2>3, <2>4
<1> QED BY <1>1, <1>2

LEMMA BrokerDestroyRight ==
  ASSUME NEW c, NEW inst, ConnRight(c, inst), c.its # "closed"
  PROVE  /\ ConnRight(BrokerDestroy(c), inst) /\ SameConn(BrokerDestroy(c), c)
         /\ BrokerDestroy(c).mine = c.mine /\ BrokerDestroy(c).its = "destroyed"
<1> DEFINE e == IF c.its = "open" THEN ToClient(c, <<Fin>>) ELSE c
           d == [e EXCEPT !.its = "destroyed", !.up = <<>>]
<1>1. BrokerDestroy(c) = d
  BY DEF BrokerDestroy
<1>2. ConnRight(e, inst) /\ SameConn(e, c) /\ e.mine = c.mine /\ e.its = c.its
  BY SayFin DEF SameConn
<1> HIDE DEF e
<1>3. /\ d \in ConnType /\ SameConn(d, c) /\ SameConn(d, e) /\ d.mine = e.mine
      /\ d.its = "destroyed" /\ d.up = <<>> /\ d.step = e.step /\ d.down = e.down
  BY <1>2, ClosedAgain DEF ConnRight, ConnType, SameConn
<1> HIDE DEF d
<1>4. ConnRight(d, inst)
  BY <1>2, <1>3, EndRight
<1> QED BY <1>1, <1>2, <1>3, <1>4

LEMMA BrokerCloseRight ==
  ASSUME NEW c, NEW inst, NEW new, ConnRight(c, inst)
  PROVE  /\ ConnRight(BrokerClose(c), new)
         /\ BrokerClose(c).its = "closed"
         /\ \/ SameConn(BrokerClose(c), c) /\ BrokerClose(c).mine = c.mine
            \/ c.mine = "closed" /\ BrokerClose(c) = Closed
<1> DEFINE e == BrokerEnd(c)
           d == [e EXCEPT !.its = "closed", !.up = <<>>]
<1>1. BrokerClose(c) = Gone(d)
  BY DEF BrokerClose
<1>2. /\ ConnRight(e, inst) /\ SameConn(e, c) /\ e.mine = c.mine /\ e.up = c.up
      /\ e.its = IF c.its = "open" THEN "ended" ELSE c.its
  BY BrokerEndRight
<1> HIDE DEF e
<1>3. /\ d \in ConnType /\ SameConn(d, c) /\ SameConn(d, e) /\ d.mine = e.mine /\ d.its = "closed"
      /\ d.up = <<>> /\ d.step = e.step /\ d.down = e.down
  BY <1>2, ClosedAgain DEF ConnRight, ConnType, SameConn
<1>5. e = Closed => d = Closed
  BY ClosedAgain
<1> HIDE DEF d
<1>6. d # Closed => d.by \in Procs /\ d.to \in Brokers /\ (d.by = Pi <=> kind = "pi")
  BY <1>2, <1>3, <1>5 DEF ConnRight, Begun, SameConn
<1>7. d.step = "connecting" => d.its = "closed" /\ d.mine = "open" /\ d.up = <<>> /\ d.down = <<>> /\ d.id = 0
  BY <1>2, <1>3 DEF ConnRight, Begun, SameConn
<1>8. Spoken(d) /\ Told(d) /\ CredsRight(d, new)
  BY <1>2, <1>3, UnderSingle DEF ConnRight, Spoken, Told, CredsRight, SameConn, LastWord
<1>9. /\ ConnRight(Gone(d), new)
      /\ Gone(d) = d \/ (d.mine = "closed" /\ d.its = "closed" /\ Gone(d) = Closed)
  BY <1>3, <1>6, <1>7, <1>8, GoneRight
<1> QED BY <1>1, <1>2, <1>3, <1>9 DEF Closed

\* A message of the client
Speakable(m, c, inst) ==
  /\ m \in Messages /\ m.type # "goodbye"
  /\ m.type \in {"probe", "hello"} => c.by = Pi
  /\ m.type = "join" => c.by \in Tabs
  /\ m.type # "hello" => m.cred.id = 0
  /\ c.its # "closed" /\ m.cred.id # 0 => Of(m.cred, c.to, inst)
  /\ m.type = "fin" \/ c.mine = "open"

\* What is under way to the broker is what was, or such a message.
OnlyMore(d, c, t) == \A m \in Under(d.up) : m \in Under(c.up) \/ m.type = t

LEMMA ToBrokerRight ==
  ASSUME NEW c, NEW inst, ConnRight(c, inst), NEW m, Speakable(m, c, inst)
  PROVE  LET d == ToBroker(c, <<m>>)
         IN  /\ ConnRight(d, inst) /\ SameConn(d, c) /\ d.mine = c.mine /\ d.its = c.its
             /\ d.step = c.step /\ d.cut = c.cut /\ OnlyMore(d, c, m.type)
             /\ c # Closed => d # Closed
<1>1. CASE c.cut \/ c.its \in {"closed", "destroyed"}
  BY <1>1 DEF ToBroker, SameConn, OnlyMore
<1>2. CASE ~(c.cut \/ c.its \in {"closed", "destroyed"})
  <2> DEFINE d == [c EXCEPT !.up = @ \o <<m>>]
  <2>1. ToBroker(c, <<m>>) = d
    BY <1>2 DEF ToBroker
  <2>2. /\ c.up \in Seq(Messages) /\ <<m>> \in Seq(Messages)
        /\ c.up \o <<m>> \in Seq(Messages) /\ Under(c.up \o <<m>>) = Under(c.up) \cup {m}
    BY UnderMore DEF ConnRight, ConnType, Speakable
  <2>3. LastWord(c.up \o <<m>>)
    BY <2>2, LastWordAppend DEF ConnRight, Spoken, Speakable
  <2>4. /\ d \in ConnType /\ SameConn(d, c) /\ d.mine = c.mine /\ d.its = c.its /\ d.down = c.down
        /\ d.step = c.step /\ d.cut = c.cut /\ d.up = c.up \o <<m>>
    BY <2>2 DEF ConnRight, ConnType, SameConn
  <2> HIDE DEF d
  <2>5. c # Closed /\ c.step # "connecting"
    BY <1>2, InUse DEF ConnRight
  <2>6. d # Closed /\ Begun(d)
    <3>1. d.its # "closed"
      BY <1>2, <2>4
    <3> QED BY <2>4, <2>5, <3>1 DEF ConnRight, Begun, SameConn, Closed
  <2>7. Spoken(d)
    BY <2>2, <2>3, <2>4 DEF ConnRight, Spoken, SameConn, Speakable
  <2>8. Told(d) /\ CredsRight(d, inst)
    BY <2>2, <2>4 DEF ConnRight, Told, CredsRight, SameConn, Speakable
  <2>9. OnlyMore(d, c, m.type)
    BY <2>2, <2>4 DEF OnlyMore
  <2> QED BY <2>1, <2>4, <2>6, <2>7, <2>8, <2>9 DEF ConnRight
<1> QED BY <1>1, <1>2

\* The client's end ends; it need not be open.
LEMMA ClientEndRight ==
  ASSUME NEW c, NEW inst, ConnRight(c, inst), c # Closed
  PROVE  LET d == ClientEnd(c)
         IN  /\ c.step # "connecting" => ConnRight(d, inst)
             /\ d \in ConnType /\ Spoken(d) /\ Told(d) /\ CredsRight(d, inst)
             /\ SameConn(d, c) /\ d.its = c.its /\ d.step = c.step
             /\ d.mine = (IF c.mine = "open" THEN "ended" ELSE c.mine)
             /\ OnlyMore(d, c, "fin")
<1>1. CASE c.mine # "open"
  BY <1>1 DEF ClientEnd, SameConn, OnlyMore, ConnRight
<1>2. CASE c.mine = "open"
  <2> DEFINE e == ToBroker(c, <<Fin>>)
             d == [e EXCEPT !.mine = "ended"]
  <2>1. ClientEnd(c) = d
    BY <1>2 DEF ClientEnd
  <2>2. Fin.type = "fin" /\ Speakable(Fin, c, inst)
    BY <1>2, FinMessage DEF Speakable
  <2>3. /\ ConnRight(e, inst) /\ SameConn(e, c) /\ e.mine = c.mine /\ e.its = c.its /\ e # Closed
        /\ e.step = c.step /\ OnlyMore(e, c, "fin")
    BY <2>2, ToBrokerRight
  <2> HIDE DEF e
  <2>4. /\ d \in ConnType /\ SameConn(d, c) /\ SameConn(d, e) /\ d.mine = "ended" /\ d.its = e.its
        /\ d.step = e.step /\ d.up = e.up /\ d.down = e.down
    BY <2>3 DEF ConnRight, ConnType, SameConn
  <2> HIDE DEF d
  <2>5. Spoken(d) /\ Told(d) /\ CredsRight(d, inst)
    BY <2>3, <2>4 DEF ConnRight, Spoken, Told, CredsRight, SameConn
  <2>6. c.step # "connecting" => Begun(d)
    BY <2>3, <2>4 DEF ConnRight, Begun, SameConn
  <2> QED BY <1>2, <2>1, <2>3, <2>4, <2>5, <2>6 DEF ConnRight, OnlyMore
<1> QED BY <1>1, <1>2

LEMMA ClientCloseRight ==
  ASSUME NEW c, NEW inst, ConnRight(c, inst), c # Closed
  PROVE  LET d == ClientClose(c)
         IN  /\ ConnRight(d, inst) /\ d.mine = "closed"
             /\ \/ c.its = "closed" /\ d = Closed
                \/ SameConn(d, c) /\ d.its = c.its /\ OnlyMore(d, c, "fin") /\ c.its # "closed"
<1> DEFINE e == ClientEnd(c)
           d == [e EXCEPT !.mine = "closed", !.down = <<>>]
<1>1. ClientClose(c) = Gone(d)
  BY DEF ClientClose
<1>2. /\ e \in ConnType /\ Spoken(e) /\ Told(e) /\ CredsRight(e, inst)
      /\ SameConn(e, c) /\ e.its = c.its /\ e.step = c.step /\ OnlyMore(e, c, "fin")
  BY ClientEndRight
<1> HIDE DEF e
<1>3. /\ d \in ConnType /\ SameConn(d, c) /\ SameConn(d, e) /\ d.mine = "closed" /\ d.its = e.its
      /\ d.up = e.up /\ d.step = e.step /\ d.down = <<>>
  BY <1>2, ClosedAgain DEF ConnType, SameConn
<1> HIDE DEF d
<1>4. Spoken(d) /\ Told(d) /\ CredsRight(d, inst)
  BY <1>2, <1>3, UnderSingle DEF Spoken, Told, CredsRight, SameConn
<1>5. d # Closed => d.by \in Procs /\ d.to \in Brokers /\ (d.by = Pi <=> kind = "pi")
  BY <1>3 DEF ConnRight, Begun, SameConn
<1>6. d.step = "connecting" => d.its = "closed" /\ d.mine = "closed"
  BY <1>2, <1>3 DEF ConnRight, Begun
<1>7. /\ ConnRight(Gone(d), inst)
      /\ Gone(d) = d \/ (d.mine = "closed" /\ d.its = "closed" /\ Gone(d) = Closed)
  BY <1>3, <1>4, <1>5, <1>6, GoneRight
<1>8. d.its = "closed" => Gone(d) = Closed
  BY <1>3 DEF Gone
<1> QED BY <1>1, <1>2, <1>3, <1>7, <1>8 DEF OnlyMore, Closed

\* stop() of an established connection, or of one in the handshake
LEMMA GoodbyeRight ==
  ASSUME NEW c, NEW inst, ConnRight(c, inst), c.mine = "open", c.by = Pi, c.step # "connecting"
  PROVE  LET d == [ClientEnd(ToBroker(c, <<Msg("goodbye")>>)) EXCEPT
                     !.step = IF @ = "live" THEN "left" ELSE @]
         IN  /\ ConnRight(d, inst) /\ SameConn(d, c) /\ d.its = c.its /\ d.mine = "ended"
             /\ c.its = "closed" => d.up = c.up
<1> DEFINE g == Msg("goodbye")
           e == ToBroker(c, <<g>>)
           f == ToBroker(e, <<Fin>>)
           d == [ClientEnd(e) EXCEPT !.step = IF @ = "live" THEN "left" ELSE @]
<1>1. /\ g \in Messages /\ g.type = "goodbye" /\ g.cred.id = 0
      /\ Fin \in Messages /\ Fin.type = "fin" /\ Fin.cred.id = 0
  BY SayMsg, FinMessage DEF Types
<1>2. c \in ConnType /\ c.up \in Seq(Messages) /\ <<g>> \in Seq(Messages) /\ <<Fin>> \in Seq(Messages)
  BY <1>1 DEF ConnRight, ConnType
<1> HIDE DEF g
<1>3. PICK u \in Seq(Messages) :
        /\ f = [c EXCEPT !.up = u] /\ LastWord(u)
        /\ \A m \in Under(u) : m \in Under(c.up) \/ m = g \/ m = Fin
        /\ c.its = "closed" => u = c.up
  <2>1. CASE c.cut \/ c.its \in {"closed", "destroyed"}
    <3>1. f = c
      BY <2>1 DEF ToBroker
    <3>2. c = [c EXCEPT !.up = c.up]
      BY <1>2 DEF ConnType
    <3> QED BY <1>2, <3>1, <3>2 DEF ConnRight, Spoken
  <2>2. CASE ~(c.cut \/ c.its \in {"closed", "destroyed"})
    <3> DEFINE v == c.up \o <<g>>
               u == v \o <<Fin>>
    <3>1. v \in Seq(Messages) /\ Under(v) = Under(c.up) \cup {g}
      BY <1>1, <1>2, UnderMore
    <3>2. LastWord(v)
      BY <1>1, <1>2, LastWordAppend DEF ConnRight, Spoken
    <3>3. e = [c EXCEPT !.up = v]
      BY <2>2 DEF ToBroker
    <3> HIDE DEF v
    <3>4. u \in Seq(Messages) /\ Under(u) = Under(v) \cup {Fin} /\ LastWord(u)
      BY <1>1, <1>2, <3>1, <3>2, UnderMore, LastWordAppend
    <3>5. e.up = v /\ e.cut = c.cut /\ e.its = c.its
      BY <1>2, <3>1, <3>3 DEF ConnType
    <3>6. f = [e EXCEPT !.up = u]
      BY <2>2, <3>5 DEF ToBroker
    <3> HIDE DEF u, e, f
    <3>7. f = [c EXCEPT !.up = u]
      BY <1>2, <3>1, <3>3, <3>4, <3>6 DEF ConnType
    <3> QED BY <2>2, <3>1, <3>4, <3>7
  <2> QED BY <2>1, <2>2
<1>4. e.mine = "open"
  BY <1>2 DEF ToBroker, ConnType
<1>5. d = [[f EXCEPT !.mine = "ended"] EXCEPT !.step = IF @ = "live" THEN "left" ELSE @]
  BY <1>4 DEF ClientEnd
<1> HIDE DEF d, f, e
<1>6. /\ d \in ConnType /\ SameConn(d, c) /\ d.mine = "ended" /\ d.its = c.its /\ d.up = u
      /\ d.down = c.down /\ d.step = IF c.step = "live" THEN "left" ELSE c.step
  BY <1>2, <1>3, <1>5 DEF ConnType, SameConn, Steps
<1>7. Begun(d)
  <2>1. c # Closed
    BY DEF Closed
  <2> QED BY <1>6, <2>1 DEF ConnRight, Begun, SameConn
<1>8. Spoken(d)
  BY <1>1, <1>3, <1>6 DEF ConnRight, Spoken, SameConn
<1>9. Told(d) /\ CredsRight(d, inst)
  BY <1>1, <1>3, <1>6 DEF ConnRight, Told, CredsRight, SameConn
<1> QED BY <1>3, <1>6, <1>7, <1>8, <1>9 DEF ConnRight, d, e, g

\* The first message is read.
LEMMA ClientTookRight ==
  ASSUME NEW c, NEW inst, ConnRight(c, inst), c.down # <<>>
  PROVE  LET d == [c EXCEPT !.down = Tail(@)]
         IN  /\ ConnRight(d, inst) /\ SameConn(d, c) /\ d.mine = c.mine /\ d.its = c.its /\ d # Closed
             /\ d.step = c.step /\ d.up = c.up /\ c.step # "connecting" /\ c.by \in Procs
             /\ Head(c.down) \in Messages /\ Head(c.down) \in Under(c.down)
<1> DEFINE d == [c EXCEPT !.down = Tail(@)]
<1>1. /\ c # Closed /\ c.step # "connecting" /\ c.by \in Procs
      /\ c \in ConnType /\ c.down \in Seq(Messages)
  BY InUse DEF ConnRight, ConnType
<1>2. /\ Tail(c.down) \in Seq(Messages) /\ Under(Tail(c.down)) \subseteq Under(c.down)
      /\ Head(c.down) \in Under(c.down) /\ Head(c.down) \in Messages
  BY <1>1, UnderTail
<1>3. /\ d \in ConnType /\ SameConn(d, c) /\ d.mine = c.mine /\ d.its = c.its /\ d.up = c.up
      /\ d.step = c.step /\ d.down = Tail(c.down)
  BY <1>1, <1>2 DEF ConnType, SameConn
<1> HIDE DEF d
<1>4. Begun(d) /\ d # Closed
  <2>1. ~(d.mine = "closed" /\ d.its = "closed")
    BY <1>1, <1>3 DEF ConnRight, Begun
  <2> QED BY <1>1, <1>3, <2>1 DEF ConnRight, Begun, SameConn, Closed
<1>5. Spoken(d) /\ Told(d) /\ CredsRight(d, inst)
  BY <1>2, <1>3 DEF ConnRight, Spoken, Told, CredsRight, SameConn
<1> QED BY <1>1, <1>2, <1>3, <1>4, <1>5 DEF ConnRight, d

LEMMA BrokerTookRight ==
  ASSUME NEW c, NEW inst, ConnRight(c, inst), c.up # <<>>
  PROVE  LET d == [c EXCEPT !.up = Tail(@)]
         IN  /\ ConnRight(d, inst) /\ SameConn(d, c) /\ d.mine = c.mine /\ d.its = c.its
             /\ d.step = c.step /\ c.step # "connecting" /\ c.by \in Procs /\ c.to \in Brokers
             /\ Under(d.up) \subseteq Under(c.up)
             /\ Head(c.up) \in Messages /\ Head(c.up) \in Under(c.up)
             /\ Head(c.up).type = "goodbye" => \A m \in Under(d.up) : m.type = "fin"
<1> DEFINE d == [c EXCEPT !.up = Tail(@)]
<1>1. /\ c # Closed /\ c.step # "connecting" /\ c.by \in Procs /\ c.to \in Brokers
      /\ c \in ConnType /\ c.up \in Seq(Messages)
  BY InUse DEF ConnRight, ConnType
<1>2. /\ Tail(c.up) \in Seq(Messages) /\ Under(Tail(c.up)) \subseteq Under(c.up)
      /\ Head(c.up) \in Under(c.up) /\ Head(c.up) \in Messages
  BY <1>1, UnderTail
<1>3. /\ d \in ConnType /\ SameConn(d, c) /\ d.mine = c.mine /\ d.its = c.its /\ d.up = Tail(c.up)
      /\ d.step = c.step /\ d.down = c.down
  BY <1>1, <1>2 DEF ConnType, SameConn
<1> HIDE DEF d
<1>4. Begun(d)
  <2>1. ~(d.mine = "closed" /\ d.its = "closed")
    BY <1>1, <1>3 DEF ConnRight, Begun
  <2> QED BY <1>1, <1>3, <2>1 DEF ConnRight, Begun, SameConn
<1>5. /\ LastWord(Tail(c.up))
      /\ Head(c.up).type = "goodbye" => \A m \in Under(Tail(c.up)) : m.type = "fin"
  BY <1>1, LastWordTail DEF ConnRight, Spoken
<1>6. Spoken(d) /\ Told(d) /\ CredsRight(d, inst)
  BY <1>2, <1>3, <1>5 DEF ConnRight, Spoken, Told, CredsRight, SameConn
<1> QED BY <1>1, <1>2, <1>3, <1>4, <1>5, <1>6 DEF ConnRight, d

------------------------------------------------------------------------------
(* Steps of clients *)

Inst(b) == broker[b].inst

\* What a client may do to a connection as the broker sees it: nothing but speak,
\* unless the broker does not see it.
Kept(d, c) ==
  \/ c.its = "closed" /\ (d.its = "closed" \/ d.id = 0)
  \/ SameConn(d, c) /\ d.its = c.its /\ (Left(c) => Left(d))

LEMMA ClientChanges ==
  ASSUME SessionInv, broker' = broker, kind' = kind,
         conn' \in [Conns -> ConnType],
         \A s \in Conns : ConnRight(conn'[s], Inst(conn'[s].to)) /\ Kept(conn'[s], conn[s])
  PROVE  /\ \A b \in Brokers : Held(b)'
         /\ \A s \in Conns : ConnRight(conn[s], broker[conn[s].to].inst)' /\ BrokerRight(s)'
<1>1. ASSUME NEW b \in Brokers PROVE Held(b)'
  <2>1. Held(b) /\ broker[b].sock \in Conns \cup {None}
    BY DEF SessionInv, TypeOK, BrokerType
  <2>2. CASE broker[b].id = 0 \/ broker[b].sock = None
    BY <2>1, <2>2 DEF Held
  <2>3. CASE ~(broker[b].id = 0 \/ broker[b].sock = None)
    <3>1. Kept(conn'[broker[b].sock], conn[broker[b].sock]) /\ conn[broker[b].sock].its # "closed"
      BY <2>1, <2>3 DEF Held
    <3> QED BY <2>1, <2>3, <3>1 DEF Held, Kept, SameConn, Entry
  <2> QED BY <2>2, <2>3
<1>2. ASSUME NEW s \in Conns PROVE BrokerRight(s)'
  <2>1. Kept(conn'[s], conn[s]) /\ BrokerRight(s)
    BY DEF SessionInv
  <2>2. CASE conn[s].its = "closed" /\ (conn'[s].its = "closed" \/ conn'[s].id = 0)
    BY <2>2 DEF BrokerRight
  <2>3. CASE SameConn(conn'[s], conn[s]) /\ conn'[s].its = conn[s].its /\ (Left(conn[s]) => Left(conn'[s]))
    BY <2>1, <2>3 DEF BrokerRight, SameConn, Left
  <2> QED BY <2>1, <2>2, <2>3 DEF Kept
<1>3. ASSUME NEW s \in Conns PROVE ConnRight(conn[s], broker[conn[s].to].inst)'
  <2>1. ConnRight(conn'[s], Inst(conn'[s].to))
    OBVIOUS
  <2> QED BY <2>1 DEF ConnRight, Inst, Begun, Spoken, Told, CredsRight
<1> QED BY <1>1, <1>2, <1>3

\* What remains right in the state of a client
CredRight(Q) == Q.cred.id # 0 => Q.known = Instance(Q.cred) /\ Q.cred.from # None

\* One client changes its state and one of its connections.
LEMMA ClientStepInv ==
  ASSUME SessionInv, NEW s \in Conns, NEW p \in Procs, conn[s].by = p, NEW d, NEW Q \in ProcType,
         conn' = [conn EXCEPT ![s] = d], proc' = [proc EXCEPT ![p] = Q],
         broker' = broker, kind' = kind, faults' \in Nat, moves' \in Nat,
         ConnRight(d, Inst(d.to)), Kept(d, conn[s]), CredRight(Q),
         ~Q.stopping => (p = Pi <=> kind = "pi"),
         Q.sock \in {None, proc[p].sock},
         d.by = p \/ d = Closed,
         Q.sock = s => d.mine # "closed" /\ (p = Pi => d.mine = "open"),
         p = Pi /\ d.mine = "open" => Q.sock = s /\ (Q.task = s \/ Q.connected),
         proc[p].sock # s =>
           /\ Q.sock = proc[p].sock
           /\ proc[p].connected => Q.connected
           /\ Q.task = proc[p].task \/ proc[p].task = s \/ Q.connected
  PROVE  SessionInv'
<1>1. /\ conn \in [Conns -> ConnType] /\ proc \in [Procs -> ProcType]
      /\ ConstantsAssumption /\ Pi \in Procs
  BY ConstantsAssumption DEF SessionInv, TypeOK, Procs
<1>2. d \in ConnType /\ conn' \in [Conns -> ConnType] /\ proc' \in [Procs -> ProcType]
  BY <1>1 DEF ConnRight
<1>3. /\ conn'[s] = d /\ proc'[p] = Q
      /\ \A t \in Conns : t # s => conn'[t] = conn[t]
      /\ \A r \in Procs : r # p => proc'[r] = proc[r]
  BY <1>1
<1>4. \A t \in Conns : ConnRight(conn'[t], Inst(conn'[t].to)) /\ Kept(conn'[t], conn[t])
  <2>1. ASSUME NEW t \in Conns, t # s PROVE ConnRight(conn[t], Inst(conn[t].to)) /\ Kept(conn[t], conn[t])
    BY DEF SessionInv, Inst, Kept, SameConn
  <2> QED BY <1>3, <2>1
<1>5. TypeOK'
  BY <1>2 DEF SessionInv, TypeOK
<1>6. ASSUME NEW r \in Procs PROVE ProcRight(r)'
  <2>0. ProcRight(r) /\ proc[r] \in ProcType
    BY <1>1 DEF SessionInv
  <2>1. CASE r # p
    <3>1. proc[r].sock # None => proc[r].sock \in Conns /\ conn[proc[r].sock].by = r
      BY <2>0 DEF ProcRight, ProcType
    <3>2. proc[r].sock # None => conn'[proc[r].sock] = conn[proc[r].sock]
      BY <1>3, <2>1, <3>1
    <3> QED BY <1>3, <2>0, <2>1, <3>2 DEF ProcRight, Instance
  <2>2. CASE r = p
    <3>1. CASE Q.sock = None
      BY <1>3, <2>2, <3>1 DEF ProcRight, CredRight, Instance
    <3>2. CASE Q.sock = s
      <4>1. d.by = p
        BY <3>2 DEF Closed
      <4> QED BY <1>3, <2>2, <3>2, <4>1 DEF ProcRight, CredRight, Instance
    <3>3. CASE Q.sock # s /\ Q.sock # None
      <4>1. Q.sock = proc[p].sock /\ Q.sock \in Conns /\ conn'[Q.sock] = conn[Q.sock]
        BY <1>3, <3>3 DEF ProcType
      <4> QED BY <1>3, <2>0, <2>2, <3>3, <4>1 DEF ProcRight, CredRight, Instance
    <3> QED BY <3>1, <3>2, <3>3
  <2> QED BY <2>1, <2>2
<1>7. ASSUME NEW t \in Conns PROVE PiRight(t)'
  <2>0. PiRight(t) /\ PiRight(s)
    BY DEF SessionInv
  <2>1. CASE t = s
    <3> SUFFICES ASSUME d.by = Pi, d.mine = "open"
                 PROVE  proc'[Pi].sock = s /\ (proc'[Pi].task = s \/ proc'[Pi].connected)
      BY <1>3, <2>1 DEF PiRight
    <3>1. p = Pi
      BY DEF Closed
    <3> QED BY <1>3, <3>1
  <2>2. CASE t # s
    <3> SUFFICES ASSUME conn[t].by = Pi, conn[t].mine = "open"
                 PROVE  proc'[Pi].sock = t /\ (proc'[Pi].task = t \/ proc'[Pi].connected)
      BY <1>3, <2>2 DEF PiRight
    <3>1. proc[Pi].sock = t /\ (proc[Pi].task = t \/ proc[Pi].connected)
      BY <2>0 DEF PiRight
    <3>2. CASE p # Pi
      BY <1>1, <1>3, <3>1, <3>2
    <3>3. CASE p = Pi
      BY <1>3, <2>2, <3>1, <3>3
    <3> QED BY <3>2, <3>3
  <2> QED BY <2>1, <2>2
<1>8. /\ \A b \in Brokers : Held(b)'
      /\ \A t \in Conns : ConnRight(conn[t], broker[conn[t].to].inst)' /\ BrokerRight(t)'
  BY <1>2, <1>4, ClientChanges
<1> QED BY <1>5, <1>6, <1>7, <1>8 DEF SessionInv

\* What SessionInv says of a client and its connection
LEMMA FromInv ==
  ASSUME SessionInv
  PROVE  /\ conn \in [Conns -> ConnType] /\ proc \in [Procs -> ProcType]
         /\ broker \in [Brokers -> BrokerType]
         /\ faults \in Nat /\ moves \in Nat /\ kind \in {"pi", "web"}
         /\ Pi \in Procs /\ Pi \notin Tabs /\ Tabs \subseteq Procs /\ None \notin Procs
         /\ None \notin Conns /\ None \notin Brokers
         /\ \A s \in Conns : /\ conn[s] \in ConnType /\ ConnRight(conn[s], Inst(conn[s].to))
                             /\ PiRight(s) /\ BrokerRight(s)
         /\ \A p \in Procs : proc[p] \in ProcType /\ ProcRight(p) /\ CredRight(proc[p])
BY ConstantsAssumption DEF SessionInv, TypeOK, Inst, Procs, ProcRight, CredRight

LEMMA DropInv ==
  ASSUME SessionInv, NEW s \in Conns, NEW p \in Procs, conn[s].by = p,
         NEW c, ConnRight(c, Inst(c.to)), SameConn(c, conn[s]), c.its = conn[s].its,
         c.up = conn[s].up, c # Closed,
         NEW P \in ProcType, CredRight(P), ~P.stopping => (p = Pi <=> kind = "pi"),
         P.sock \in {None, proc[p].sock},
         proc[p].sock # s =>
           P.sock = proc[p].sock /\ P.task = proc[p].task /\ P.connected = proc[p].connected,
         Drop(s, c, P), broker' = broker, kind' = kind, faults' \in Nat, moves' \in Nat
  PROVE  SessionInv'
<1> DEFINE d == ClientClose(c)
           Q == Dropped(P, s)
<1>1. conn' = [conn EXCEPT ![s] = d] /\ proc' = [proc EXCEPT ![p] = Q]
  BY DEF Drop, SameConn
<1>2. /\ ConnRight(d, Inst(c.to)) /\ d.mine = "closed"
      /\ \/ c.its = "closed" /\ d = Closed
         \/ SameConn(d, c) /\ d.its = c.its /\ OnlyMore(d, c, "fin") /\ c.its # "closed"
  BY ClientCloseRight
<1> HIDE DEF d
<1>3. ConnRight(d, Inst(d.to)) /\ Kept(d, conn[s]) /\ (d.by = p \/ d = Closed)
  <2>1. CASE c.its = "closed" /\ d = Closed
    BY <1>2, <2>1, ClosedRight DEF Kept, Closed
  <2>2. CASE SameConn(d, c) /\ d.its = c.its /\ OnlyMore(d, c, "fin") /\ c.its # "closed"
    <3>1. Left(conn[s]) => Left(d)
      BY <1>2, <2>2 DEF Left, OnlyMore
    <3> QED BY <1>2, <2>2, <3>1 DEF Kept, SameConn
  <2> QED BY <1>2, <2>1, <2>2
<1>4. /\ Q \in ProcType /\ Q.cred = P.cred /\ Q.known = P.known /\ Q.stopping = P.stopping
      /\ Q.sock = (IF P.sock = s THEN None ELSE P.sock)
      /\ Q.task = (IF P.task = s THEN None ELSE P.task)
      /\ P.sock # s => Q.connected = P.connected
  BY DEF Dropped, ProcType
<1> HIDE DEF Q
<1>5. CredRight(Q)
  BY <1>4 DEF CredRight
<1>6. Q.sock \in {None, proc[p].sock} /\ Q.sock # s
  BY <1>4, FromInv
<1>7. proc[p].sock # s =>
        /\ Q.sock = proc[p].sock
        /\ proc[p].connected => Q.connected
        /\ Q.task = proc[p].task \/ proc[p].task = s \/ Q.connected
  BY <1>4
<1> QED BY <1>1, <1>2, <1>3, <1>4, <1>5, <1>6, <1>7, ClientStepInv

LEMMA FaultMove ==
  ASSUME faults \in Nat, moves \in Nat
  PROVE  (Fault => faults' \in Nat) /\ (Move => moves' \in Nat)
BY DEF Fault, Move

\* The end of a connection as it is, for the client as it is
LEMMA DropOwn ==
  ASSUME SessionInv, NEW s \in Conns, conn[s].mine # "closed",
         Drop(s, conn[s], proc[conn[s].by]),
         broker' = broker, kind' = kind, faults' \in Nat, moves' \in Nat
  PROVE  SessionInv'
<1> DEFINE c == conn[s]
           p == c.by
<1>1. c # Closed /\ p \in Procs /\ ConnRight(c, Inst(c.to))
  BY FromInv DEF ConnRight, Begun, Closed
<1>2. /\ proc[p] \in ProcType /\ CredRight(proc[p])
      /\ ~proc[p].stopping => (p = Pi <=> kind = "pi")
  BY <1>1, FromInv DEF ProcRight
<1> QED BY <1>1, <1>2, DropInv DEF SameConn

LEMMA ConnectOkInv ==
  ASSUME SessionInv, NEW s \in Conns, ConnectOk(s)
  PROVE  SessionInv'
<1> DEFINE c == conn[s]
           p == c.by
           m == IF p = Pi THEN Msg("probe") ELSE Msg("web.hello")
           d == IF p = Pi THEN [c EXCEPT !.its = "open", !.step = "probed", !.up = <<Msg("probe")>>]
                ELSE [c EXCEPT !.its = "open", !.step = "hello", !.up = <<Msg("web.hello")>>]
<1>1. conn' = [conn EXCEPT ![s] = d]
  BY FromInv DEF ConnectOk
<1>2. /\ ConnRight(c, Inst(c.to)) /\ c \in ConnType /\ PiRight(s) /\ BrokerRight(s)
      /\ c.step = "connecting" /\ c.its = "closed" /\ c.mine = "open"
      /\ c.up = <<>> /\ c.down = <<>> /\ c.id = 0 /\ c # Closed /\ p \in Procs
  BY FromInv DEF ConnectOk, ConnRight, Begun, Closed
<1>3. /\ m \in Messages /\ m.type = (IF p = Pi THEN "probe" ELSE "web.hello") /\ m.cred.id = 0
  BY SayMsg DEF Types
<1>4. <<m>> \in Seq(Messages) /\ Under(<<m>>) = {m} /\ LastWord(<<m>>)
  BY <1>3, UnderSingle DEF LastWord
<1>5. /\ d \in ConnType /\ SameConn(d, c) /\ d.its = "open" /\ d.mine = "open" /\ d.up = <<m>>
      /\ d.down = <<>> /\ d.step \in {"probed", "hello"}
  BY <1>2, <1>4 DEF ConnType, SameConn, Steps
<1> HIDE DEF d, m
<1>6. ConnRight(d, Inst(d.to))
  <2>1. Begun(d)
    BY <1>2, <1>5 DEF ConnRight, Begun, SameConn
  <2>2. Spoken(d)
    <3>1. d.by = p /\ (m.type = "probe" => p = Pi) /\ m.type \notin {"join", "hello", "goodbye"}
      BY <1>3, <1>5 DEF SameConn
    <3> QED BY <1>3, <1>4, <1>5, <3>1 DEF Spoken
  <2>3. Told(d) /\ CredsRight(d, Inst(d.to))
    BY <1>3, <1>4, <1>5, UnderSingle DEF Told, CredsRight
  <2> QED BY <1>5, <2>1, <2>2, <2>3 DEF ConnRight
<1>7. Kept(d, c)
  BY <1>2, <1>5 DEF Kept, SameConn
<1>8. /\ proc' = [proc EXCEPT ![p] = proc[p]] /\ proc[p] \in ProcType /\ CredRight(proc[p])
      /\ ProcRight(p)
  BY <1>2, FromInv DEF ConnectOk
<1>9. broker' = broker /\ kind' = kind /\ faults' \in Nat /\ moves' \in Nat
  BY FromInv DEF ConnectOk
<1>10. p = Pi => proc[p].sock = s /\ (proc[p].task = s \/ proc[p].connected)
  BY <1>2 DEF PiRight
<1> QED
  BY <1>1, <1>2, <1>5, <1>6, <1>7, <1>8, <1>9, <1>10, ClientStepInv DEF ProcRight, SameConn

LEMMA ReadyInv ==
  ASSUME SessionInv, NEW s \in Conns, Ready(s)
  PROVE  SessionInv'
<1> DEFINE b == conn[s]
           c == ClientTook(s)
           p == b.by
           P == proc[p]
           m == Head(b.down)
           Q == [P EXCEPT !.known = m.cred, !.cred = IF P.known \in {NoCred, m.cred} THEN @ ELSE NoCred]
<1>1. /\ ConnRight(b, Inst(b.to)) /\ b \in ConnType /\ PiRight(s) /\ b.down # <<>>
      /\ b.mine # "closed" /\ m.type = "ready"
  BY FromInv DEF Ready, ClientReads
<1>2. /\ ConnRight(c, Inst(b.to)) /\ SameConn(c, b) /\ c.mine = b.mine /\ c.its = b.its /\ c # Closed
      /\ c.step = b.step /\ c.up = b.up /\ b.step # "connecting" /\ p \in Procs
      /\ m \in Messages /\ m \in Under(b.down)
  BY <1>1, ClientTookRight DEF ClientTook
<1>3. p = Pi /\ m.cred \in Creds /\ (b.its # "closed" => Of(m.cred, b.to, Inst(b.to)))
  BY <1>1, <1>2 DEF ConnRight, Told, CredsRight, Messages
<1>4. P \in ProcType /\ ProcRight(p) /\ CredRight(P)
  BY <1>2, FromInv
<1>5. /\ Q \in ProcType /\ Q.known = m.cred /\ Q.sock = P.sock /\ Q.task = P.task
      /\ Q.connected = P.connected /\ Q.stopping = P.stopping
      /\ Q.cred = IF P.known \in {NoCred, m.cred} THEN P.cred ELSE NoCred
  BY <1>3, <1>4 DEF ProcType, Creds, NoCred
<1>6. NoCred.id = 0 /\ NoCred.from = None
  BY DEF NoCred
<1>7. CredRight(Q) /\ (Q.cred.id # 0 => Q.cred.from = m.cred.from /\ Q.cred.inst = m.cred.inst)
  <2> SUFFICES ASSUME Q.cred.id # 0
               PROVE  /\ m.cred = Instance(Q.cred) /\ Q.cred.from # None
                      /\ Q.cred.from = m.cred.from /\ Q.cred.inst = m.cred.inst
    BY <1>5 DEF CredRight
  <2>1. Q.cred = P.cred /\ P.known \in {NoCred, m.cred} /\ P.known = Instance(P.cred) /\ P.cred.from # None
    BY <1>4, <1>5, <1>6 DEF CredRight
  <2>2. Q.cred \in Creds /\ Instance(Q.cred).from = Q.cred.from /\ Instance(Q.cred).inst = Q.cred.inst
    BY <1>5 DEF ProcType, Instance, Creds
  <2> QED BY <1>6, <2>1, <2>2
<1> HIDE DEF Q
<1>8. broker' = broker /\ kind' = kind /\ faults' \in Nat /\ moves' \in Nat
  BY FromInv DEF Ready
<1>9. c.by = p /\ ConnRight(c, Inst(c.to))
  BY <1>2 DEF SameConn
<1>10. ~P.stopping => (p = Pi <=> kind = "pi")
  BY <1>4 DEF ProcRight
<1>11. CASE P.expects # 0 /\ P.expects # m.identity
  <2> DEFINE R == [P EXCEPT !.permanent = TRUE]
  <2>1. Drop(s, c, R)
    BY <1>9, <1>11 DEF Ready
  <2>2. /\ R \in ProcType /\ R.cred = P.cred /\ R.known = P.known /\ R.sock = P.sock
        /\ R.task = P.task /\ R.connected = P.connected /\ R.stopping = P.stopping
    BY <1>4 DEF ProcType
  <2> HIDE DEF R
  <2>3. CredRight(R)
    BY <1>4, <2>2 DEF CredRight
  <2> QED BY <1>2, <1>8, <1>9, <1>10, <2>1, <2>2, <2>3, DropInv
<1>12. CASE ~(P.expects # 0 /\ P.expects # m.identity) /\ c.mine = "ended"
  <2>1. Drop(s, c, Q)
    BY <1>9, <1>12 DEF Ready, Q
  <2> QED BY <1>2, <1>4, <1>5, <1>7, <1>8, <1>9, <1>10, <2>1, DropInv
<1>13. CASE ~(P.expects # 0 /\ P.expects # m.identity) /\ c.mine # "ended"
  <2> DEFINE h == MsgWith("hello", Q.cred, 0)
             e == [c EXCEPT !.step = "hello"]
             d == ToBroker(e, <<h>>)
  <2>1. conn' = [conn EXCEPT ![s] = d] /\ proc' = [proc EXCEPT ![p] = Q]
    BY <1>9, <1>13 DEF Ready, Q
  <2>2. b.mine = "open"
    BY <1>1, <1>2, <1>13 DEF ConnType
  <2>3. h.type = "hello" /\ h.cred = Q.cred /\ h \in Messages
    BY <1>5 DEF MsgWith, Messages, Types, ProcType
  <2>4. /\ e \in ConnType /\ SameConn(e, c) /\ e.mine = c.mine /\ e.its = c.its /\ e.up = c.up
        /\ e.down = c.down /\ e.step = "hello"
    BY <1>2 DEF ConnRight, ConnType, SameConn, Steps
  <2>5. e # Closed
    BY <2>4 DEF Closed
  <2>6. ConnRight(e, Inst(b.to))
    BY <1>2, <2>2, <2>4, <2>5 DEF ConnRight, Begun, Spoken, Told, CredsRight, SameConn
  <2>7. Speakable(h, e, Inst(b.to))
    BY <1>2, <1>3, <1>7, <1>9, <2>2, <2>3, <2>4 DEF Speakable, SameConn, Of
  <2> HIDE DEF e, h
  <2>8. /\ ConnRight(d, Inst(b.to)) /\ SameConn(d, e) /\ d.mine = e.mine /\ d.its = e.its
    BY <2>6, <2>7, ToBrokerRight
  <2> HIDE DEF d
  <2>9. SameConn(d, b) /\ d.mine = "open" /\ d.its = b.its
    BY <1>2, <2>2, <2>4, <2>8 DEF SameConn
  <2>10. Kept(d, b) /\ ConnRight(d, Inst(d.to)) /\ d.by = p
    BY <2>2, <2>8, <2>9 DEF Kept, Left, SameConn
  <2>11. P.sock = s /\ (P.task = s \/ P.connected)
    BY <1>1, <1>3, <2>2 DEF PiRight
  <2> QED
    BY <1>2, <1>5, <1>7, <1>8, <1>10, <2>1, <2>9, <2>10, <2>11, ClientStepInv
<1> QED BY <1>11, <1>12, <1>13

\* The connection is the client's as it was, and the client too, but for what it
\* knows of its credentials; it may have said something.
LEMMA SameClientInv ==
  ASSUME SessionInv, NEW s \in Conns, conn[s].by \in Procs, NEW d, ConnRight(d, Inst(d.to)),
         SameConn(d, conn[s]), d.its = conn[s].its, d.mine = conn[s].mine,
         Left(conn[s]) => Left(d),
         NEW Q \in ProcType, CredRight(Q), Q.stopping = proc[conn[s].by].stopping,
         Q.sock = proc[conn[s].by].sock,
         proc[conn[s].by].connected => Q.connected,
         Q.task = proc[conn[s].by].task \/ (proc[conn[s].by].task = s /\ Q.connected),
         conn' = [conn EXCEPT ![s] = d], proc' = [proc EXCEPT ![conn[s].by] = Q],
         broker' = broker, kind' = kind, faults' \in Nat, moves' \in Nat
  PROVE  SessionInv'
<1> DEFINE c == conn[s]
           p == c.by
<1>1. /\ PiRight(s) /\ ProcRight(p) /\ proc[p] \in ProcType
  BY FromInv
<1>2. Kept(d, c) /\ d.by = p
  BY DEF Kept, SameConn
<1>3. ~Q.stopping => (p = Pi <=> kind = "pi")
  BY <1>1 DEF ProcRight
<1>4. Q.sock = s => d.mine # "closed" /\ (p = Pi => d.mine = "open")
  <2>1. s # None
    BY FromInv
  <2> QED BY <1>1, <2>1 DEF ProcRight
<1>5. p = Pi /\ d.mine = "open" => Q.sock = s /\ (Q.task = s \/ Q.connected)
  BY <1>1 DEF PiRight
<1> QED BY <1>2, <1>3, <1>4, <1>5, ClientStepInv

LEMMA WelcomeInv ==
  ASSUME SessionInv, NEW s \in Conns, Welcome(s)
  PROVE  SessionInv'
<1> DEFINE b == conn[s]
           c == ClientTook(s)
           p == b.by
           P == proc[p]
           m == Head(b.down)
           next == [c EXCEPT !.step = IF @ = "hello" THEN "welcomed" ELSE @]
<1>1. /\ ConnRight(b, Inst(b.to)) /\ b \in ConnType /\ b.down # <<>> /\ b.mine # "closed"
  BY FromInv DEF Welcome, ClientReads
<1>2. /\ ConnRight(c, Inst(b.to)) /\ SameConn(c, b) /\ c.mine = b.mine /\ c.its = b.its /\ c # Closed
      /\ c.step = b.step /\ c.up = b.up /\ b.step # "connecting" /\ p \in Procs
      /\ m \in Messages /\ m \in Under(b.down)
  BY <1>1, ClientTookRight DEF ClientTook
<1>3. m.cred \in Creds /\ (m.cred.id # 0 => m.cred.from # None)
  BY <1>1, <1>2 DEF ConnRight, Told, Messages
<1>4. P \in ProcType /\ CredRight(P)
  BY <1>2, FromInv
<1>5. broker' = broker /\ kind' = kind /\ faults' \in Nat /\ moves' \in Nat
  BY FromInv DEF Welcome
<1>6. c.by = p
  BY <1>2 DEF SameConn
<1>7. /\ ConnRight(next, Inst(b.to)) /\ SameConn(next, b) /\ next.its = b.its /\ next.mine = b.mine
      /\ next.up = b.up
  <2>1. /\ next \in ConnType /\ SameConn(next, c) /\ next.its = c.its /\ next.mine = c.mine
        /\ next.up = c.up /\ next.down = c.down
        /\ next.step = IF c.step = "hello" THEN "welcomed" ELSE c.step
    BY <1>2 DEF ConnRight, ConnType, SameConn, Steps
  <2> HIDE DEF next
  <2>2. Begun(next)
    <3>1. next.its = "closed" /\ next.mine = "closed" => FALSE
      BY <1>1, <1>2, <2>1
    <3> QED BY <1>2, <2>1, <3>1 DEF ConnRight, Begun, SameConn
  <2> QED BY <1>2, <2>1, <2>2 DEF ConnRight, Spoken, Told, CredsRight, SameConn
<1>8. CASE p = Pi
  <2> DEFINE Q == [P EXCEPT !.cred = m.cred, !.known = Instance(m.cred)]
  <2>1. conn' = [conn EXCEPT ![s] = next]
    BY <1>6, <1>8 DEF Welcome
  <2>2. proc' = [proc EXCEPT ![p] = Q]
    BY <1>6, <1>8, FromInv DEF Welcome
  <2>3. Instance(m.cred) \in Creds
    BY <1>3 DEF Instance, Creds
  <2>4. /\ Q \in ProcType /\ Q.sock = P.sock /\ Q.task = P.task /\ Q.connected = P.connected
        /\ Q.stopping = P.stopping /\ Q.cred = m.cred /\ Q.known = Instance(m.cred)
    BY <1>3, <1>4, <2>3 DEF ProcType
  <2>5. CredRight(Q)
    BY <1>3, <2>4 DEF CredRight
  <2> HIDE DEF Q, next
  <2>6. ConnRight(next, Inst(next.to)) /\ (Left(b) => Left(next))
    BY <1>7 DEF SameConn, Left
  <2> QED BY <1>2, <1>5, <1>7, <2>1, <2>2, <2>4, <2>5, <2>6, SameClientInv
<1>9. CASE p # Pi
  <2> DEFINE e == ToBroker(next, <<Msg("join")>>)
             d == IF c.step = "hello" /\ c.mine = "open" /\ P.sock = s THEN e ELSE c
  <2>1. conn' = [conn EXCEPT ![s] = d] /\ proc' = [proc EXCEPT ![p] = P]
    BY <1>6, <1>9, FromInv DEF Welcome
  <2>2. p \in Tabs
    BY <1>2, <1>9 DEF Procs
  <2>3. /\ ConnRight(d, Inst(b.to)) /\ SameConn(d, b) /\ d.its = b.its /\ d.mine = b.mine
        /\ b.mine # "open" => d.up = b.up
    <3>1. CASE c.step = "hello" /\ c.mine = "open" /\ P.sock = s
      <4>1. Msg("join") \in Messages /\ Msg("join").type = "join" /\ Msg("join").cred.id = 0
        BY SayMsg DEF Types
      <4> HIDE DEF next
      <4>2. Speakable(Msg("join"), next, Inst(b.to))
        BY <1>2, <1>7, <2>2, <3>1, <4>1 DEF Speakable, SameConn
      <4>3. ConnRight(e, Inst(b.to)) /\ SameConn(e, next) /\ e.its = next.its /\ e.mine = next.mine
        BY <1>7, <4>2, ToBrokerRight
      <4> QED BY <1>2, <1>7, <3>1, <4>3 DEF SameConn
    <3>2. CASE ~(c.step = "hello" /\ c.mine = "open" /\ P.sock = s)
      BY <1>2, <3>2
    <3> QED BY <3>1, <3>2
  <2> HIDE DEF d
  <2>4. ConnRight(d, Inst(d.to)) /\ (Left(b) => Left(d))
    BY <2>3 DEF SameConn, Left
  <2> QED BY <1>2, <1>4, <1>5, <2>1, <2>3, <2>4, SameClientInv
<1> QED BY <1>8, <1>9

LEMMA SnapshotInv ==
  ASSUME SessionInv, NEW s \in Conns, Snapshot(s)
  PROVE  SessionInv'
<1> DEFINE b == conn[s]
           c == ClientTook(s)
           p == b.by
           P == proc[p]
           m == Head(b.down)
           old == p # Pi /\ (P.sock # s \/ c.mine = "ended")
           d == IF old THEN c ELSE [c EXCEPT !.step = "live"]
           Q == IF old THEN P ELSE [P EXCEPT !.connected = TRUE, !.task = IF @ = s THEN None ELSE @]
<1>1. /\ ConnRight(b, Inst(b.to)) /\ b \in ConnType /\ b.down # <<>> /\ b.mine # "closed"
      /\ m.type = "snapshot"
  BY FromInv DEF Snapshot, ClientReads
<1>2. /\ ConnRight(c, Inst(b.to)) /\ SameConn(c, b) /\ c.mine = b.mine /\ c.its = b.its /\ c # Closed
      /\ c.step = b.step /\ c.up = b.up /\ b.step # "connecting" /\ p \in Procs
      /\ m \in Messages /\ m \in Under(b.down)
  BY <1>1, ClientTookRight DEF ClientTook
<1>3. b.id # 0 /\ c.by = p
  BY <1>1, <1>2 DEF ConnRight, Told, SameConn
<1>4. P \in ProcType /\ CredRight(P)
  BY <1>2, FromInv
<1>5. broker' = broker /\ kind' = kind /\ faults' \in Nat /\ moves' \in Nat
  BY FromInv DEF Snapshot
<1>6. conn' = [conn EXCEPT ![s] = d] /\ proc' = [proc EXCEPT ![p] = Q]
  <2>1. old => conn' = [conn EXCEPT ![s] = c] /\ proc' = proc
    BY <1>3 DEF Snapshot
  <2>2. ~old => /\ conn' = [conn EXCEPT ![s] = [c EXCEPT !.step = "live"]]
                /\ proc' = [proc EXCEPT ![p] =
                     [P EXCEPT !.connected = TRUE, !.task = IF @ = s THEN None ELSE @]]
    BY <1>3 DEF Snapshot
  <2>3. proc = [proc EXCEPT ![p] = P]
    BY <1>2, FromInv
  <2> QED BY <2>1, <2>2, <2>3
<1>7. /\ d \in ConnType /\ SameConn(d, b) /\ d.its = b.its /\ d.mine = b.mine /\ d.up = b.up
      /\ d.down = c.down /\ d.step \in {c.step, "live"}
  BY SMTT(30), <1>2 DEF ConnRight, ConnType, SameConn, Steps
<1>8. /\ Q \in ProcType /\ Q.sock = P.sock /\ Q.stopping = P.stopping /\ Q.cred = P.cred
      /\ Q.known = P.known /\ (P.connected => Q.connected)
      /\ Q.task = P.task \/ (P.task = s /\ Q.connected)
  BY <1>4 DEF ProcType
<1> HIDE DEF d, Q
<1>9. ConnRight(d, Inst(d.to)) /\ (Left(b) => Left(d))
  <2>1. ConnRight(d, Inst(b.to))
    BY <1>1, <1>2, <1>3, <1>7 DEF ConnRight, Begun, Spoken, Told, CredsRight, SameConn
  <2> QED BY <1>7, <2>1 DEF SameConn, Left
<1>10. CredRight(Q)
  BY <1>4, <1>8 DEF CredRight
<1> QED BY <1>2, <1>5, <1>6, <1>7, <1>8, <1>9, <1>10, SameClientInv

LEMMA ErrorInv ==
  ASSUME SessionInv, NEW s \in Conns, NEW why, Error(s, why)
  PROVE  SessionInv'
<1> DEFINE b == conn[s]
           c == ClientTook(s)
           p == b.by
           P == proc[p]
<1>1. /\ ConnRight(b, Inst(b.to)) /\ b \in ConnType /\ b.down # <<>> /\ b.mine # "closed"
  BY FromInv DEF Error, ClientReads
<1>2. /\ ConnRight(c, Inst(b.to)) /\ SameConn(c, b) /\ c.mine = b.mine /\ c.its = b.its /\ c # Closed
      /\ c.step = b.step /\ c.up = b.up /\ b.step # "connecting" /\ p \in Procs
  BY <1>1, ClientTookRight DEF ClientTook
<1>3. c.by = p /\ ConnRight(c, Inst(c.to))
  BY <1>2 DEF SameConn
<1>4. P \in ProcType /\ CredRight(P) /\ ProcRight(p)
  BY <1>2, FromInv
<1>5. broker' = broker /\ kind' = kind /\ faults' \in Nat /\ moves' \in Nat
  BY FromInv DEF Error
<1>6. ~P.stopping => (p = Pi <=> kind = "pi")
  BY <1>4 DEF ProcRight
<1>7. CASE p = Pi /\ c.step \notin {"live", "left"}
  <2> DEFINE R == Refused(P, why)
  <2>1. Drop(s, c, R)
    BY <1>3, <1>7 DEF Error
  <2>2. /\ R \in ProcType /\ R.cred \in {P.cred, NoCred} /\ R.known = P.known /\ R.sock = P.sock
        /\ R.task = P.task /\ R.connected = P.connected /\ R.stopping = P.stopping
    BY <1>4 DEF Refused, ProcType, NoCred, Creds
  <2> HIDE DEF R
  <2>3. CredRight(R)
    BY <1>4, <2>2 DEF CredRight, NoCred
  <2> QED BY <1>2, <1>3, <1>5, <1>6, <2>1, <2>2, <2>3, DropInv
<1>8. CASE p \in Tabs /\ P.sock = s /\ c.mine = "open" /\ why \in Final
  <2> DEFINE d == ClientEnd(c)
             Q == [P EXCEPT !.stopping = TRUE, !.connected = FALSE]
  <2>1. p # Pi
    BY <1>8, FromInv
  <2>2. conn' = [conn EXCEPT ![s] = d] /\ proc' = [proc EXCEPT ![p] = Q]
    BY <1>3, <1>8, <2>1 DEF Error
  <2>3. /\ ConnRight(d, Inst(c.to)) /\ SameConn(d, c) /\ d.its = c.its /\ d.mine = "ended"
        /\ OnlyMore(d, c, "fin")
    BY <1>2, <1>3, <1>8, ClientEndRight
  <2>4. /\ Q \in ProcType /\ Q.cred = P.cred /\ Q.known = P.known /\ Q.sock = P.sock
        /\ Q.stopping = TRUE
    BY <1>4 DEF ProcType
  <2>5. CredRight(Q)
    BY <1>4, <2>4 DEF CredRight
  <2> HIDE DEF d, Q
  <2>6. /\ Kept(d, b) /\ ConnRight(d, Inst(d.to)) /\ d.by = p
    <3>1. Left(b) => Left(d)
      BY <1>2, <2>3 DEF Left, OnlyMore
    <3> QED BY <1>2, <2>3, <3>1 DEF Kept, SameConn
  <2> QED BY <1>2, <1>5, <1>8, <2>1, <2>2, <2>3, <2>4, <2>5, <2>6, ClientStepInv
<1>9. CASE ~(p = Pi /\ c.step \notin {"live", "left"}) /\ ~(p \in Tabs /\ P.sock = s /\ c.mine = "open" /\ why \in Final)
  <2>1. conn' = [conn EXCEPT ![s] = c] /\ proc' = [proc EXCEPT ![p] = P]
    BY <1>2, <1>3, <1>9, FromInv DEF Error
  <2>2. Left(b) => Left(c)
    BY <1>2 DEF Left
  <2> QED BY <1>2, <1>3, <1>4, <1>5, <2>1, <2>2, SameClientInv
<1> QED BY <1>7, <1>8, <1>9

LEMMA DropsInv ==
  ASSUME SessionInv, NEW s \in Conns,
         ConnectFails(s) \/ ClientFin(s) \/ ClientSilence(s) \/ SlowHandshake(s)
  PROVE  SessionInv'
<1>1. /\ conn[s].step = "connecting" => conn[s].mine = "open"
      /\ faults \in Nat /\ moves \in Nat
  BY FromInv DEF ConnRight, Begun
<1>2. conn[s].mine # "closed" /\ Drop(s, conn[s], proc[conn[s].by])
  BY <1>1 DEF ConnectFails, ClientFin, ClientSilence, SlowHandshake, ClientReads
<1>3. broker' = broker /\ kind' = kind /\ faults' \in Nat /\ moves' \in Nat
  BY <1>1, FaultMove DEF ConnectFails, ClientFin, ClientSilence, SlowHandshake
<1> QED BY <1>2, <1>3, DropOwn

LEMMA TabOfflineInv ==
  ASSUME SessionInv, NEW t \in Procs, TabOffline(t)
  PROVE  SessionInv'
<1> DEFINE s == proc[t].sock
           c == conn[s]
           P == [proc[t] EXCEPT !.connected = FALSE]
<1>1. /\ t \in Tabs /\ t # Pi /\ proc[t] \in ProcType /\ ProcRight(t) /\ CredRight(proc[t])
      /\ s \in Conns /\ s # None /\ c.mine = "open" /\ c.by = t /\ c # Closed
      /\ c \in ConnType /\ ConnRight(c, Inst(c.to))
  <2>1. t \in Tabs /\ t # Pi /\ proc[t] \in ProcType /\ ProcRight(t) /\ CredRight(proc[t])
    BY FromInv DEF TabOffline
  <2>2. s \in Conns /\ s # None /\ c.mine = "open" /\ c.by = t
    BY <2>1 DEF TabOffline, ProcType, ProcRight
  <2>3. c # Closed
    BY <2>2 DEF Closed
  <2> QED BY <2>1, <2>2, <2>3, FromInv
<1>2. broker' = broker /\ kind' = kind /\ faults' \in Nat /\ moves' \in Nat
  BY FromInv, FaultMove DEF TabOffline
<1>3. /\ P \in ProcType /\ P.sock = s /\ P.cred = proc[t].cred /\ P.known = proc[t].known
      /\ P.stopping = proc[t].stopping
  BY <1>1 DEF ProcType
<1>4. CredRight(P) /\ (~P.stopping => (t = Pi <=> kind = "pi"))
  BY <1>1, <1>3 DEF CredRight, ProcRight
<1>5. CASE c.step = "connecting"
  <2>1. Drop(s, c, P)
    BY <1>5 DEF TabOffline
  <2> HIDE DEF P
  <2> QED BY <1>1, <1>2, <1>3, <1>4, <2>1, DropInv DEF SameConn
<1>6. CASE c.step # "connecting"
  <2> DEFINE d == ClientEnd(c)
  <2>1. conn' = [conn EXCEPT ![s] = d] /\ proc' = [proc EXCEPT ![t] = P]
    BY <1>6 DEF TabOffline
  <2>2. /\ ConnRight(d, Inst(c.to)) /\ SameConn(d, c) /\ d.its = c.its /\ d.mine = "ended"
        /\ OnlyMore(d, c, "fin")
    BY <1>1, <1>6, ClientEndRight
  <2> HIDE DEF d, P
  <2>3. Kept(d, c) /\ ConnRight(d, Inst(d.to)) /\ d.by = t
    <3>1. Left(c) => Left(d)
      BY <2>2 DEF Left, OnlyMore
    <3> QED BY <1>1, <2>2, <3>1 DEF Kept, SameConn
  <2> QED BY <1>1, <1>2, <1>3, <1>4, <2>1, <2>2, <2>3, ClientStepInv
<1> QED BY <1>5, <1>6

LEMMA StopInv ==
  ASSUME SessionInv, Stop
  PROVE  SessionInv'
<1> DEFINE s == proc[Pi].sock
           c == conn[s]
           P == [proc[Pi] EXCEPT !.stopping = TRUE, !.retry = FALSE, !.sock = None,
                                 !.connected = FALSE]
<1>1. /\ Pi \in Procs /\ proc[Pi] \in ProcType /\ ProcRight(Pi) /\ CredRight(proc[Pi])
      /\ None \notin Conns
  BY FromInv
<1>2. broker' = broker /\ kind' = kind /\ faults' \in Nat /\ moves' \in Nat
  BY FromInv, FaultMove DEF Stop
<1>3. /\ P \in ProcType /\ P.sock = None /\ P.cred = proc[Pi].cred /\ P.known = proc[Pi].known
      /\ P.stopping = TRUE
  BY <1>1 DEF ProcType
<1>4. CredRight(P)
  BY <1>1, <1>3 DEF CredRight
<1>5. CASE s = None
  <2>1. proc' = [proc EXCEPT ![Pi] = P] /\ conn' = conn
    BY <1>5 DEF Stop
  <2> HIDE DEF P
  <2>2. /\ proc' \in [Procs -> ProcType] /\ proc'[Pi] = P
        /\ \A r \in Procs : r # Pi => proc'[r] = proc[r]
    BY <1>1, <1>3, <2>1, FromInv
  <2>3. TypeOK'
    BY <1>2, <2>1, <2>2 DEF SessionInv, TypeOK
  <2>4. ASSUME NEW r \in Procs PROVE ProcRight(r)'
    <3>1. CASE r = Pi
      BY <1>2, <1>3, <1>4, <2>2, <3>1 DEF ProcRight, CredRight, Instance
    <3>2. CASE r # Pi
      <4>1. proc'[r] = proc[r] /\ ProcRight(r)
        BY <2>2, <3>2, FromInv
      <4> QED BY <1>2, <2>1, <4>1 DEF ProcRight, Instance
    <3> QED BY <3>1, <3>2
  <2>5. ASSUME NEW t \in Conns PROVE PiRight(t)'
    <3>1. PiRight(t)
      BY FromInv
    <3> QED BY <1>1, <1>5, <2>1, <3>1 DEF PiRight
  <2>6. \A t \in Conns : ConnRight(conn'[t], Inst(conn'[t].to)) /\ Kept(conn'[t], conn[t])
    BY <2>1, FromInv DEF Kept, SameConn
  <2>7. conn' \in [Conns -> ConnType]
    BY <2>1, FromInv
  <2> QED BY <1>2, <2>3, <2>4, <2>5, <2>6, <2>7, ClientChanges DEF SessionInv
<1>6. CASE s # None
  <2>1. /\ s \in Conns /\ c.mine = "open" /\ c.by = Pi /\ c \in ConnType /\ ConnRight(c, Inst(c.to))
        /\ c # Closed
    <3>1. s \in Conns /\ c.mine = "open" /\ c.by = Pi
      BY <1>1, <1>6 DEF ProcType, ProcRight
    <3>2. c # Closed
      BY <3>1 DEF Closed
    <3> QED BY <3>1, <3>2, FromInv
  <2>2. CASE c.step = "connecting"
    <3>1. Drop(s, c, P)
      BY <1>6, <2>2 DEF Stop
    <3> HIDE DEF P
    <3> QED BY <1>1, <1>2, <1>3, <1>4, <2>1, <3>1, DropInv DEF SameConn
  <2>3. CASE c.step # "connecting"
    <3> DEFINE d == [ClientEnd(ToBroker(c, <<Msg("goodbye")>>)) EXCEPT
                       !.step = IF @ = "live" THEN "left" ELSE @]
    <3>1. conn' = [conn EXCEPT ![s] = d] /\ proc' = [proc EXCEPT ![Pi] = P]
      BY <1>6, <2>3 DEF Stop
    <3>2. ConnRight(d, Inst(c.to)) /\ SameConn(d, c) /\ d.its = c.its /\ d.mine = "ended"
      BY <2>1, <2>3, GoodbyeRight
    <3> HIDE DEF d, P
    <3>3. Kept(d, c) /\ ConnRight(d, Inst(d.to)) /\ d.by = Pi
      BY <2>1, <3>2 DEF Kept, SameConn, Left
    <3> QED BY <1>1, <1>2, <1>3, <1>4, <2>1, <3>1, <3>2, <3>3, ClientStepInv
  <2> QED BY <2>2, <2>3
<1> QED BY <1>5, <1>6

\* connect() of p in state P, when some of its connections have just been closed
LEMMA ConnectingInv ==
  ASSUME SessionInv, NEW p \in Procs, NEW P \in ProcType, NEW cs \in [Conns -> ConnType],
         Connecting(p, P, cs), CredRight(P), ~P.stopping => (p = Pi <=> kind = "pi"),
         P.sock # None =>
           P.sock \in Conns /\ cs[P.sock].by = p /\ cs[P.sock].mine # "closed"
             /\ (p = Pi => cs[P.sock].mine = "open"),
         \A t \in Conns : /\ ConnRight(cs[t], Inst(cs[t].to)) /\ Kept(cs[t], conn[t])
                          /\ cs[t] = conn[t] \/ (conn[t].by = p /\ cs[t].mine = "closed")
                          /\ p = Pi /\ cs[t].by = Pi /\ cs[t].mine = "open" =>
                               P.sock = t /\ (P.task = t \/ P.connected),
         broker' = broker, kind' = kind, faults' \in Nat, moves' \in Nat
  PROVE  SessionInv'
<1>1. PICK Q \in ProcType, ds \in [Conns -> ConnType] :
        /\ conn' = ds /\ proc' = [proc EXCEPT ![p] = Q]
        /\ CredRight(Q) /\ Q.stopping = P.stopping
        /\ Q.sock # None => Q.sock \in Conns /\ ds[Q.sock].by = p /\ ds[Q.sock].mine # "closed"
                            /\ (p = Pi => ds[Q.sock].mine = "open")
        /\ \A t \in Conns : /\ ConnRight(ds[t], Inst(ds[t].to)) /\ Kept(ds[t], conn[t])
                            /\ \/ ds[t] = conn[t]
                               \/ conn[t].by = p /\ ds[t].mine = "closed"
                               \/ conn[t].by \in {None, p} /\ ds[t].by = p
                            /\ p = Pi /\ ds[t].by = Pi /\ ds[t].mine = "open" =>
                                 Q.sock = t /\ (Q.task = t \/ Q.connected)
  <2>1. CASE ~CanOpen(P)
    <3>1. conn' = cs /\ proc' = [proc EXCEPT ![p] = P]
      BY <2>1 DEF Connecting
    <3> QED BY <3>1
  <2>2. CASE CanOpen(P)
    <3> DEFINE new(s) == [Closed EXCEPT !.by = p, !.to = P.target, !.mine = "open", !.step = "connecting"]
               Q(s) == [P EXCEPT !.sock = s, !.task = IF p = Pi THEN s ELSE None]
    <3>1. PICK s \in Free(cs) : conn' = [cs EXCEPT ![s] = new(s)] /\ proc' = [proc EXCEPT ![p] = Q(s)]
      BY <2>2 DEF Connecting
    <3> DEFINE ds == [cs EXCEPT ![s] = new(s)]
    <3>2. s \in Conns /\ cs[s] = Closed /\ None \notin Procs /\ None \notin Conns
      BY FromInv DEF Free
    <3>3. /\ new(s) \in ConnType /\ new(s).by = p /\ new(s).to = P.target /\ new(s).mine = "open"
          /\ new(s).its = "closed" /\ new(s).step = "connecting" /\ new(s).up = <<>>
          /\ new(s).down = <<>> /\ new(s).id = 0 /\ P.target \in Brokers
      <4>1. Closed \in ConnType
        BY ClosedRight DEF ConnRight
      <4>2. P.target \in Brokers
        BY DEF ProcType
      <4> QED BY <4>1, <4>2 DEF Closed, ConnType, Steps
    <3>4. /\ Q(s) \in ProcType /\ Q(s).sock = s /\ Q(s).task = (IF p = Pi THEN s ELSE None)
          /\ Q(s).stopping = P.stopping /\ Q(s).cred = P.cred /\ Q(s).known = P.known
      BY <3>2 DEF ProcType
    <3>5. ~P.stopping /\ P.task = None /\ ~(P.connected /\ P.sock # None)
      BY <2>2 DEF CanOpen
    <3> HIDE DEF new, Q
    <3>6. ConnRight(new(s), Inst(new(s).to))
      <4>1. Begun(new(s))
        BY <3>3, <3>5 DEF Begun
      <4>2. Spoken(new(s)) /\ Told(new(s)) /\ CredsRight(new(s), Inst(new(s).to))
        BY <3>3, UnderSingle DEF Spoken, Told, CredsRight, LastWord
      <4> QED BY <3>3, <4>1, <4>2 DEF ConnRight
    <3>7. conn[s].its = "closed"
      <4>1. Kept(cs[s], conn[s])
        BY <3>2
      <4>2. cs[s].its = "closed"
        BY <3>2 DEF Closed
      <4> QED BY <4>1, <4>2 DEF Kept
    <3>8. ds[s] = new(s) /\ ds \in [Conns -> ConnType] /\ \A t \in Conns : t # s => ds[t] = cs[t]
      BY <3>2, <3>3
    <3>9. CredRight(Q(s))
      BY <3>4 DEF CredRight
    <3>10. ASSUME NEW t \in Conns
           PROVE  /\ ConnRight(ds[t], Inst(ds[t].to)) /\ Kept(ds[t], conn[t])
                  /\ \/ ds[t] = conn[t]
                     \/ conn[t].by = p /\ ds[t].mine = "closed"
                     \/ conn[t].by \in {None, p} /\ ds[t].by = p
                  /\ p = Pi /\ ds[t].by = Pi /\ ds[t].mine = "open" =>
                       Q(s).sock = t /\ (Q(s).task = t \/ Q(s).connected)
      <4>1. CASE t = s
        <5>1. conn[s].by \in {None, p}
          <6>1. cs[s] = conn[s] \/ (conn[s].by = p /\ cs[s].mine = "closed")
            BY <3>2
          <6> QED BY <3>2, <6>1 DEF Closed
        <5> QED BY <3>3, <3>4, <3>6, <3>7, <3>8, <4>1, <5>1 DEF Kept
      <4>2. CASE t # s
        <5>1. p = Pi /\ cs[t].by = Pi /\ cs[t].mine = "open" => FALSE
          BY <3>2, <3>5
        <5> QED BY <3>8, <4>2, <5>1
      <4> QED BY <4>1, <4>2
    <3>11. ds[s].by = p /\ ds[s].mine = "open"
      BY <3>3, <3>8
    <3>12. conn' = ds /\ proc' = [proc EXCEPT ![p] = Q(s)]
      BY <3>1
    <3> HIDE DEF ds, Q, new
    <3> Q(s) \in ProcType /\ ds \in [Conns -> ConnType]
      BY <3>4, <3>8 DEF ds
    <3> WITNESS Q(s) \in ProcType, ds \in [Conns -> ConnType]
    <3> QED BY <3>2, <3>4, <3>9, <3>10, <3>11, <3>12
  <2> QED BY <2>1, <2>2
<1>2. /\ proc \in [Procs -> ProcType] /\ proc' \in [Procs -> ProcType] /\ proc'[p] = Q
      /\ \A r \in Procs : r # p => proc'[r] = proc[r]
      /\ None \notin Procs /\ Pi \in Procs
  BY <1>1, FromInv
<1>3. TypeOK'
  BY <1>1, <1>2 DEF SessionInv, TypeOK
<1>4. ASSUME NEW r \in Procs PROVE ProcRight(r)'
  <2>0. ProcRight(r) /\ proc[r] \in ProcType
    BY FromInv
  <2>1. CASE r # p
    <3>1. CASE proc[r].sock = None
      BY <1>2, <2>0, <2>1, <3>1 DEF ProcRight, Instance
    <3>2. CASE proc[r].sock # None
      <4>1. proc[r].sock \in Conns /\ conn[proc[r].sock].by = r
        BY <2>0, <3>2 DEF ProcRight, ProcType
      <4>2. conn'[proc[r].sock] = conn[proc[r].sock]
        BY <1>1, <1>2, <2>1, <4>1
      <4> QED BY <1>2, <2>0, <2>1, <4>2 DEF ProcRight, Instance
    <3> QED BY <3>1, <3>2
  <2>2. CASE r = p
    BY <1>1, <1>2, <2>2 DEF ProcRight, CredRight, Instance
  <2> QED BY <2>1, <2>2
<1>5. ASSUME NEW t \in Conns PROVE PiRight(t)'
  <2>0. PiRight(t)
    BY FromInv
  <2>1. CASE p = Pi
    BY <1>1, <1>2, <2>1 DEF PiRight
  <2>2. CASE p # Pi
    <3>1. conn'[t].by = Pi /\ conn'[t].mine = "open" => conn'[t] = conn[t]
      BY <1>1, <2>2
    <3> QED BY <1>2, <2>0, <2>2, <3>1 DEF PiRight
  <2> QED BY <2>1, <2>2
<1>6. /\ \A b \in Brokers : Held(b)'
      /\ \A t \in Conns : ConnRight(conn[t], broker[conn[t].to].inst)' /\ BrokerRight(t)'
  BY <1>1, ClientChanges
<1> QED BY <1>3, <1>4, <1>5, <1>6 DEF SessionInv

\* connect() when no connection is closed for it
LEMMA ConnectAgainInv ==
  ASSUME SessionInv, NEW p \in Procs, NEW P \in ProcType, Connecting(p, P, conn),
         P.cred = proc[p].cred, P.known = proc[p].known, ~P.stopping => (p = Pi <=> kind = "pi"),
         P.sock \in {None, proc[p].sock},
         p = Pi => P.sock = proc[p].sock /\ P.task = proc[p].task /\ P.connected = proc[p].connected,
         broker' = broker, kind' = kind, faults' \in Nat, moves' \in Nat
  PROVE  SessionInv'
<1>1. /\ conn \in [Conns -> ConnType] /\ proc[p] \in ProcType /\ ProcRight(p) /\ CredRight(proc[p])
  BY FromInv
<1>2. CredRight(P)
  BY <1>1 DEF CredRight
<1>3. P.sock # None =>
        P.sock \in Conns /\ conn[P.sock].by = p /\ conn[P.sock].mine # "closed"
          /\ (p = Pi => conn[P.sock].mine = "open")
  BY <1>1 DEF ProcRight, ProcType
<1>4. ASSUME NEW t \in Conns
      PROVE  /\ ConnRight(conn[t], Inst(conn[t].to)) /\ Kept(conn[t], conn[t])
             /\ conn[t] = conn[t] \/ (conn[t].by = p /\ conn[t].mine = "closed")
             /\ p = Pi /\ conn[t].by = Pi /\ conn[t].mine = "open" =>
                  P.sock = t /\ (P.task = t \/ P.connected)
  <2>1. ConnRight(conn[t], Inst(conn[t].to)) /\ PiRight(t)
    BY FromInv
  <2>2. Kept(conn[t], conn[t])
    BY DEF Kept, SameConn
  <2> QED BY <2>1, <2>2 DEF PiRight
<1> QED BY <1>1, <1>2, <1>3, <1>4, ConnectingInv

LEMMA StartInv ==
  ASSUME SessionInv, NEW p \in Procs, Start(p) \/ Retry(p) \/ TabOnline(p)
  PROVE  SessionInv'
<1>1. /\ proc[p] \in ProcType /\ ProcRight(p) /\ None \notin Conns /\ Pi \notin Tabs
  BY FromInv
<1>2. broker' = broker /\ kind' = kind /\ faults' \in Nat /\ moves' \in Nat
  BY FromInv DEF Start, Retry, TabOnline
<1>3. CASE Start(p)
  <2> DEFINE P == [proc[p] EXCEPT !.stopping = FALSE, !.permanent = FALSE]
  <2>1. Connecting(p, P, conn) /\ (p = Pi <=> kind = "pi")
    BY <1>3 DEF Start, MayStart
  <2>2. /\ P \in ProcType /\ P.cred = proc[p].cred /\ P.known = proc[p].known
        /\ P.sock = proc[p].sock /\ P.task = proc[p].task /\ P.connected = proc[p].connected
    BY <1>1 DEF ProcType
  <2> HIDE DEF P
  <2> QED BY <1>2, <2>1, <2>2, ConnectAgainInv
<1>4. CASE Retry(p)
  <2> DEFINE P == [proc[p] EXCEPT !.retry = FALSE]
  <2>1. Connecting(p, P, conn)
    BY <1>4 DEF Retry
  <2>2. /\ P \in ProcType /\ P.cred = proc[p].cred /\ P.known = proc[p].known
        /\ P.sock = proc[p].sock /\ P.task = proc[p].task /\ P.connected = proc[p].connected
        /\ P.stopping = proc[p].stopping
    BY <1>1 DEF ProcType
  <2>3. ~P.stopping => (p = Pi <=> kind = "pi")
    BY <1>1, <2>2 DEF ProcRight
  <2> HIDE DEF P
  <2> QED BY <1>2, <2>1, <2>2, <2>3, ConnectAgainInv
<1>5. CASE TabOnline(p)
  <2> DEFINE P == [proc[p] EXCEPT !.sock = None, !.connected = FALSE, !.retry = FALSE]
  <2>1. Connecting(p, P, conn) /\ p # Pi
    BY <1>1, <1>5 DEF TabOnline
  <2>2. /\ P \in ProcType /\ P.cred = proc[p].cred /\ P.known = proc[p].known
        /\ P.sock = None /\ P.stopping = proc[p].stopping
    BY <1>1 DEF ProcType
  <2>3. ~P.stopping => (p = Pi <=> kind = "pi")
    BY <1>1, <2>2 DEF ProcRight
  <2> HIDE DEF P
  <2> QED BY <1>2, <2>1, <2>2, <2>3, ConnectAgainInv
<1> QED BY <1>3, <1>4, <1>5

\* A connection that a client closes
LEMMA CloseKept ==
  ASSUME SessionInv, NEW s \in Conns, conn[s].mine # "closed"
  PROVE  LET d == ClientClose(conn[s])
         IN  /\ ConnRight(d, Inst(d.to)) /\ Kept(d, conn[s]) /\ d.mine = "closed" /\ d \in ConnType
<1> DEFINE c == conn[s]
           d == ClientClose(c)
<1>1. ConnRight(c, Inst(c.to)) /\ c # Closed
  BY FromInv DEF Closed
<1>2. /\ ConnRight(d, Inst(c.to)) /\ d.mine = "closed"
      /\ \/ c.its = "closed" /\ d = Closed
         \/ SameConn(d, c) /\ d.its = c.its /\ OnlyMore(d, c, "fin") /\ c.its # "closed"
  BY <1>1, ClientCloseRight
<1> HIDE DEF d
<1>0. d \in ConnType
  BY <1>2 DEF ConnRight
<1>3. ConnRight(d, Inst(d.to)) /\ Kept(d, c)
  <2>1. CASE c.its = "closed" /\ d = Closed
    <3>1. ConnRight(d, Inst(d.to))
      BY <2>1, ClosedRight
    <3>2. d.its = "closed"
      BY <2>1 DEF Closed
    <3> QED BY <2>1, <3>1, <3>2 DEF Kept
  <2>2. CASE SameConn(d, c) /\ d.its = c.its /\ OnlyMore(d, c, "fin") /\ c.its # "closed"
    <3>1. Left(c) => Left(d)
      BY <1>2, <2>2 DEF Left, OnlyMore
    <3>2. ConnRight(d, Inst(d.to))
      BY <1>2, <2>2 DEF SameConn
    <3> QED BY <2>2, <3>1, <3>2 DEF Kept
  <2> QED BY <1>2, <2>1, <2>2
<1> QED BY <1>0, <1>2, <1>3 DEF d

LEMMA SetConnectionInv ==
  ASSUME SessionInv, NEW b \in Brokers, NEW e \in {0, 1}, SetConnection(b, e)
  PROVE  SessionInv'
<1> DEFINE P == proc[Pi]
           Q == Moved(P, b, e)
           cs == IF P.sock = None THEN conn ELSE [conn EXCEPT ![P.sock] = ClientClose(@)]
<1>1. /\ Pi \in Procs /\ P \in ProcType /\ ProcRight(Pi) /\ conn \in [Conns -> ConnType]
      /\ None \notin Conns /\ Connecting(Pi, Q, cs) /\ kind = "pi"
  BY FromInv DEF SetConnection
<1>2. broker' = broker /\ kind' = kind /\ faults' \in Nat /\ moves' \in Nat
  BY FromInv, FaultMove DEF SetConnection
<1>3. NoCred \in Creds /\ NoCred.id = 0
  BY DEF NoCred, Creds
<1>4. Q \in ProcType /\ Q.sock = None /\ Q.cred = NoCred /\ Q.stopping = P.stopping /\ CredRight(Q)
  <2>1. e \in Nat
    OBVIOUS
  <2>2. Q \in ProcType /\ Q.sock = None /\ Q.cred = NoCred /\ Q.stopping = P.stopping
    BY <1>1, <1>3, <2>1 DEF Moved, ProcType
  <2> QED BY <1>3, <2>2 DEF CredRight
<1>5. ASSUME P.sock # None
      PROVE  P.sock \in Conns /\ conn[P.sock].by = Pi /\ conn[P.sock].mine # "closed"
  BY <1>1, <1>5 DEF ProcRight, ProcType
<1>6. cs \in [Conns -> ConnType]
  <2>1. CASE P.sock = None
    BY <1>1, <2>1
  <2>2. CASE P.sock # None
    <3>1. ClientClose(conn[P.sock]) \in ConnType
      BY <1>5, <2>2, CloseKept
    <3> QED BY <1>1, <2>2, <3>1
  <2> QED BY <2>1, <2>2
<1>7. ASSUME NEW t \in Conns
      PROVE  /\ ConnRight(cs[t], Inst(cs[t].to)) /\ Kept(cs[t], conn[t])
             /\ cs[t] = conn[t] \/ (conn[t].by = Pi /\ cs[t].mine = "closed")
             /\ ~(cs[t].by = Pi /\ cs[t].mine = "open")
  <2>1. CASE P.sock = t
    <3>1. P.sock # None /\ cs[t] = ClientClose(conn[t])
      BY <1>1, <2>1
    <3> HIDE DEF cs
    <3>2. conn[t].by = Pi /\ conn[t].mine # "closed"
      BY <1>5, <2>1, <3>1
    <3>3. /\ ConnRight(cs[t], Inst(cs[t].to)) /\ Kept(cs[t], conn[t]) /\ cs[t].mine = "closed"
      BY <3>1, <3>2, CloseKept
    <3> QED BY <3>2, <3>3
  <2>2. CASE P.sock # t
    <3>1. cs[t] = conn[t]
      BY <1>1, <2>2
    <3>2. ConnRight(conn[t], Inst(conn[t].to)) /\ PiRight(t)
      BY FromInv
    <3>3. Kept(conn[t], conn[t])
      BY DEF Kept, SameConn
    <3> HIDE DEF cs
    <3> QED BY <2>2, <3>1, <3>2, <3>3 DEF PiRight
  <2> QED BY <2>1, <2>2
<1> HIDE DEF cs, Q
<1> QED BY <1>1, <1>2, <1>4, <1>6, <1>7, ConnectingInv

LEMMA QuitInv ==
  ASSUME SessionInv, NEW p \in Procs, Quit(p)
  PROVE  SessionInv'
<1>1. /\ proc \in [Procs -> ProcType] /\ None \notin Procs /\ Pi \in Procs
      /\ proc' = [proc EXCEPT ![p] = NewProc]
      /\ conn' = [s \in Conns |-> IF conn[s].by = p /\ conn[s].mine # "closed"
                                  THEN ClientClose(conn[s]) ELSE conn[s]]
  BY FromInv DEF Quit
<1>2. broker' = broker /\ kind' = kind /\ faults' \in Nat /\ moves' \in Nat
  BY FromInv, FaultMove DEF Quit
<1>3. /\ NewProc \in ProcType /\ NewProc.sock = None /\ NewProc.cred.id = 0 /\ NewProc.stopping
  BY ConstantsAssumption DEF NewProc, ProcType, NoCred, Creds
<1>4. ASSUME NEW t \in Conns
      PROVE  /\ ConnRight(conn'[t], Inst(conn'[t].to)) /\ Kept(conn'[t], conn[t]) /\ conn'[t] \in ConnType
             /\ conn'[t] = conn[t] \/ (conn[t].by = p /\ conn'[t].mine = "closed")
             /\ ~(conn'[t].by = p /\ conn'[t].mine # "closed")
  <2>1. CASE conn[t].by = p /\ conn[t].mine # "closed"
    <3>1. conn'[t] = ClientClose(conn[t])
      BY <1>1, <2>1
    <3> QED BY <2>1, <3>1, CloseKept
  <2>2. CASE ~(conn[t].by = p /\ conn[t].mine # "closed")
    <3>1. conn'[t] = conn[t]
      BY <1>1, <2>2
    <3>2. Kept(conn[t], conn[t])
      BY DEF Kept, SameConn
    <3> QED BY <2>2, <3>1, <3>2, FromInv
  <2> QED BY <2>1, <2>2
<1>5. conn' \in [Conns -> ConnType]
  BY <1>1, <1>4
<1>6. /\ proc' \in [Procs -> ProcType] /\ proc'[p] = NewProc
      /\ \A r \in Procs : r # p => proc'[r] = proc[r]
  BY <1>1, <1>3
<1>7. TypeOK'
  BY <1>2, <1>5, <1>6 DEF SessionInv, TypeOK
<1>8. ASSUME NEW r \in Procs PROVE ProcRight(r)'
  <2>0. ProcRight(r) /\ proc[r] \in ProcType
    BY FromInv
  <2>1. CASE r = p
    BY <1>3, <1>6, <2>1 DEF ProcRight
  <2>2. CASE r # p
    <3>1. CASE proc[r].sock = None
      BY <1>2, <1>6, <2>0, <2>2, <3>1 DEF ProcRight, Instance
    <3>2. CASE proc[r].sock # None
      <4>1. proc[r].sock \in Conns /\ conn[proc[r].sock].by = r
        BY <2>0, <3>2 DEF ProcRight, ProcType
      <4>2. conn'[proc[r].sock] = conn[proc[r].sock]
        BY <1>4, <2>2, <4>1
      <4> QED BY <1>2, <1>6, <2>0, <2>2, <4>2 DEF ProcRight, Instance
    <3> QED BY <3>1, <3>2
  <2> QED BY <2>1, <2>2
<1>9. ASSUME NEW t \in Conns PROVE PiRight(t)'
  <2>0. PiRight(t)
    BY FromInv
  <2>1. CASE p = Pi
    BY <1>4, <2>1 DEF PiRight
  <2>2. CASE p # Pi
    <3>1. conn'[t].by = Pi /\ conn'[t].mine = "open" => conn'[t] = conn[t]
      BY <1>4
    <3> QED BY <1>1, <1>6, <2>0, <2>2, <3>1 DEF PiRight
  <2> QED BY <2>1, <2>2
<1>10. /\ \A b \in Brokers : Held(b)'
       /\ \A t \in Conns : ConnRight(conn[t], broker[conn[t].to].inst)' /\ BrokerRight(t)'
  BY <1>2, <1>4, <1>5, ClientChanges
<1> QED BY <1>7, <1>8, <1>9, <1>10 DEF SessionInv

------------------------------------------------------------------------------
(* Steps of brokers *)

\* What a broker may do to a connection as the client sees it
SameMine(d, c) ==
  \/ d.by = c.by /\ d.mine = c.mine
  \/ c.mine = "closed" /\ d = Closed

LEMMA BrokerChanges ==
  ASSUME SessionInv, proc' = proc, kind' = kind, faults' \in Nat, moves' \in Nat,
         broker' \in [Brokers -> BrokerType], conn' \in [Conns -> ConnType],
         \A s \in Conns : /\ ConnRight(conn'[s], broker'[conn'[s].to].inst)
                          /\ SameMine(conn'[s], conn[s])
  PROVE  /\ TypeOK'
         /\ \A s \in Conns : ConnRight(conn[s], broker[conn[s].to].inst)' /\ PiRight(s)'
         /\ \A p \in Procs : ProcRight(p)'
<1>1. TypeOK'
  BY DEF SessionInv, TypeOK
<1>2. ASSUME NEW s \in Conns PROVE ConnRight(conn[s], broker[conn[s].to].inst)'
  <2>1. ConnRight(conn'[s], broker'[conn'[s].to].inst)
    OBVIOUS
  <2> QED BY <2>1 DEF ConnRight, Begun, Spoken, Told, CredsRight
<1>3. ASSUME NEW s \in Conns PROVE PiRight(s)'
  <2>1. PiRight(s) /\ SameMine(conn'[s], conn[s])
    BY FromInv
  <2>2. Closed.mine = "closed"
    BY DEF Closed
  <2> QED BY <2>1, <2>2 DEF PiRight, SameMine
<1>4. ASSUME NEW p \in Procs PROVE ProcRight(p)'
  <2>1. proc[p] \in ProcType /\ ProcRight(p)
    BY FromInv
  <2>2. CASE proc[p].sock = None
    BY <2>1, <2>2 DEF ProcRight, Instance
  <2>3. CASE proc[p].sock # None
    <3> DEFINE t == proc[p].sock
    <3>1. t \in Conns /\ conn[t].mine # "closed"
      BY <2>1, <2>3 DEF ProcRight, ProcType
    <3>2. conn'[t].by = conn[t].by /\ conn'[t].mine = conn[t].mine
      BY <3>1 DEF SameMine
    <3> HIDE DEF t
    <3>3. ~proc[p].stopping => (p = Pi <=> kind' = "pi")
      BY <2>1 DEF ProcRight
    <3> QED BY <2>1, <2>3, <3>1, <3>2, <3>3 DEF ProcRight, Instance, t
  <2> QED BY <2>2, <2>3
<1> QED BY <1>1, <1>2, <1>3, <1>4

\* The broker tells its clients something, or ends connections; it reads.
Quieter(d, c) ==
  /\ SameConn(d, c) /\ d.mine = c.mine
  /\ d.its = c.its \/ (c.its = "open" /\ d.its = "ended")
  /\ Under(d.up) \subseteq Under(c.up)

LEMMA BrokersSayInv ==
  ASSUME SessionInv, broker' = broker, proc' = proc, kind' = kind, faults' \in Nat, moves' \in Nat,
         conn' \in [Conns -> ConnType],
         \A s \in Conns : ConnRight(conn'[s], Inst(conn'[s].to)) /\ Quieter(conn'[s], conn[s])
  PROVE  SessionInv'
<1>1. /\ TypeOK'
      /\ \A s \in Conns : ConnRight(conn[s], broker[conn[s].to].inst)' /\ PiRight(s)'
      /\ \A p \in Procs : ProcRight(p)'
  <2>1. broker' \in [Brokers -> BrokerType]
    BY FromInv
  <2>2. ASSUME NEW s \in Conns
        PROVE  ConnRight(conn'[s], broker'[conn'[s].to].inst) /\ SameMine(conn'[s], conn[s])
    BY DEF Inst, Quieter, SameMine, SameConn
  <2> QED BY <2>1, <2>2, BrokerChanges
<1>2. ASSUME NEW b \in Brokers PROVE Held(b)'
  <2>1. Held(b) /\ broker[b] \in BrokerType
    BY FromInv DEF SessionInv
  <2>2. CASE broker[b].id = 0 \/ broker[b].sock = None
    BY <2>1, <2>2 DEF Held
  <2>3. CASE ~(broker[b].id = 0 \/ broker[b].sock = None)
    <3>1. broker[b].sock \in Conns
      BY <2>1, <2>3 DEF BrokerType
    <3>2. Quieter(conn'[broker[b].sock], conn[broker[b].sock])
      BY <3>1
    <3> QED BY <2>1, <2>3, <3>2 DEF Held, Quieter, SameConn, Entry
  <2> QED BY <2>2, <2>3
<1>3. ASSUME NEW s \in Conns PROVE BrokerRight(s)'
  <2>1. BrokerRight(s) /\ Quieter(conn'[s], conn[s])
    BY FromInv
  <2> QED BY <2>1 DEF BrokerRight, Quieter, SameConn, Left
<1> QED BY <1>1, <1>2, <1>3 DEF SessionInv

LEMMA BrokerSaysInv ==
  ASSUME SessionInv, broker' = broker, proc' = proc, kind' = kind, faults' \in Nat, moves' \in Nat,
         NEW s \in Conns, NEW d, conn' = [conn EXCEPT ![s] = d],
         ConnRight(d, Inst(conn[s].to)), Quieter(d, conn[s])
  PROVE  SessionInv'
<1>1. conn \in [Conns -> ConnType] /\ d \in ConnType
  BY FromInv DEF ConnRight
<1>2. conn' \in [Conns -> ConnType] /\ conn'[s] = d /\ \A t \in Conns : t # s => conn'[t] = conn[t]
  BY <1>1
<1>3. ASSUME NEW t \in Conns PROVE ConnRight(conn'[t], Inst(conn'[t].to)) /\ Quieter(conn'[t], conn[t])
  <2>1. CASE t = s
    <3>1. d.to = conn[s].to
      BY DEF Quieter, SameConn
    <3> QED BY <1>2, <2>1, <3>1
  <2>2. CASE t # s
    <3>1. Quieter(conn[t], conn[t])
      BY DEF Quieter, SameConn
    <3> QED BY <1>2, <2>2, <3>1, FromInv
  <2> QED BY <2>1, <2>2
<1> QED BY <1>2, <1>3, BrokersSayInv

\* The connection when a broker has taken the first message
LEMMA BrokerReadsRight ==
  ASSUME SessionInv, NEW s \in Conns, NEW type, BrokerReads(s, type)
  PROVE  LET c == BrokerTook(s)
         IN  /\ ConnRight(c, Inst(conn[s].to)) /\ Quieter(c, conn[s]) /\ c.its = conn[s].its
             /\ c.its # "closed" /\ c.step # "connecting" /\ c.by \in Procs /\ c.to \in Brokers
             /\ c.by = conn[s].by /\ c.to = conn[s].to /\ c.id = conn[s].id /\ c.mine = conn[s].mine
             /\ Head(conn[s].up) \in Messages /\ Head(conn[s].up) \in Under(conn[s].up)
             /\ Head(conn[s].up).type = type
             /\ type = "goodbye" => \A m \in Under(c.up) : m.type = "fin"
<1>1. ConnRight(conn[s], Inst(conn[s].to)) /\ conn[s].up # <<>>
  BY FromInv DEF BrokerReads
<1>2. Head(conn[s].up).type = type /\ conn[s].its # "closed"
  BY DEF BrokerReads
<1> QED BY <1>1, <1>2, BrokerTookRight DEF BrokerTook, SameConn, Quieter

\* It tells the client something.
LEMMA SaysRight ==
  ASSUME NEW c, NEW old, NEW inst, NEW m, ConnRight(c, inst), c.its # "closed", Quieter(c, old),
         Sayable(m, c, inst)
  PROVE  LET d == ToClient(c, <<m>>)
         IN  /\ ConnRight(d, inst) /\ Quieter(d, old) /\ d.its # "closed"
             /\ ConnRight(BrokerEnd(d), inst) /\ Quieter(BrokerEnd(d), old)
<1> DEFINE d == ToClient(c, <<m>>)
<1>1. <<m>> \in Seq(Messages) /\ Under(<<m>>) = {m}
  BY UnderSingle DEF Sayable
<1>2. /\ ConnRight(d, inst) /\ SameConn(d, c) /\ d.mine = c.mine /\ d.its = c.its /\ d.up = c.up
  BY <1>1, ToClientRight
<1>3. Quieter(d, old)
  BY <1>2 DEF Quieter, SameConn
<1> HIDE DEF d
<1>4. /\ ConnRight(BrokerEnd(d), inst) /\ SameConn(BrokerEnd(d), d)
      /\ BrokerEnd(d).mine = d.mine /\ BrokerEnd(d).up = d.up
      /\ BrokerEnd(d).its = IF d.its = "open" THEN "ended" ELSE d.its
  BY <1>2, BrokerEndRight
<1>5. Quieter(BrokerEnd(d), old)
  BY <1>2, <1>3, <1>4 DEF Quieter, SameConn
<1> QED BY <1>2, <1>3, <1>4, <1>5 DEF d

\* What brokers answer without a change of their books
LEMMA ProbeInv ==
  ASSUME SessionInv, NEW s \in Conns, Probe(s) \/ WebHello(s)
  PROVE  SessionInv'
<1> DEFINE c == BrokerTook(s)
           e == [c EXCEPT !.probed = TRUE]
           m == IF Probe(s) THEN MsgWith("ready", CredOf(c.to, 0), broker[c.to].identity)
                ELSE Msg("welcome")
           t == IF Probe(s) THEN "probe" ELSE "web.hello"
<1>1. /\ ConnRight(c, Inst(conn[s].to)) /\ Quieter(c, conn[s]) /\ c.its # "closed"
      /\ c.to \in Brokers /\ c.to = conn[s].to /\ c.by = conn[s].by
      /\ Head(conn[s].up) \in Under(conn[s].up) /\ Head(conn[s].up).type = t
  <2>1. BrokerReads(s, t)
    BY DEF Probe, WebHello
  <2> QED BY <2>1, BrokerReadsRight
<1>2. conn' = [conn EXCEPT ![s] = ToClient(e, <<m>>)]
  BY DEF Probe, WebHello
<1>3. broker' = broker /\ proc' = proc /\ kind' = kind /\ faults' \in Nat /\ moves' \in Nat
  BY FromInv DEF Probe, WebHello
<1>4. /\ e \in ConnType /\ SameConn(e, c) /\ e.mine = c.mine /\ e.its = c.its /\ e.up = c.up
      /\ e.down = c.down /\ e.step = c.step
  BY <1>1 DEF ConnRight, ConnType, SameConn
<1> HIDE DEF e, c
<1>5. ConnRight(e, Inst(conn[s].to))
  BY <1>1, <1>4, EndRight
<1>6. Quieter(e, conn[s])
  BY <1>1, <1>4 DEF Quieter, SameConn
<1>7. Sayable(m, e, Inst(conn[s].to))
  <2>1. CASE Probe(s)
    <3>1. t = "probe" /\ m = MsgWith("ready", CredOf(c.to, 0), broker[c.to].identity)
      BY <2>1
    <3>2. c.by = Pi
      BY <1>1, <3>1, FromInv DEF ConnRight, Spoken
    <3>3. broker[c.to] \in BrokerType
      BY <1>1, FromInv
    <3>4. /\ m.type = "ready" /\ m.cred \in Creds /\ m.cred.id = 0
          /\ m.cred.from = c.to /\ m.cred.inst = Inst(c.to) /\ m \in Messages
      BY <1>1, <3>1, <3>3 DEF MsgWith, CredOf, Creds, Messages, Types, BrokerType, Inst
    <3> HIDE DEF m
    <3> QED BY <1>1, <1>4, <3>2, <3>4 DEF Sayable, Of, SameConn
  <2>2. CASE ~Probe(s)
    <3>1. m = Msg("welcome") /\ "welcome" \in Types
      BY <2>2 DEF Types
    <3> HIDE DEF m
    <3> QED BY <3>1, SayMsg
  <2> QED BY <2>1, <2>2
<1> HIDE DEF m
<1>8. ConnRight(ToClient(e, <<m>>), Inst(conn[s].to)) /\ Quieter(ToClient(e, <<m>>), conn[s])
  BY <1>1, <1>4, <1>5, <1>6, <1>7, SaysRight
<1> QED BY <1>2, <1>3, <1>8, BrokerSaysInv

\* An error and the end
LEMMA TurnedAway ==
  ASSUME SessionInv, NEW s \in Conns, NEW c, NEW why \in ErrorCodes,
         ConnRight(c, Inst(conn[s].to)), c.its # "closed", Quieter(c, conn[s])
  PROVE  LET d == ToClient(c, <<Msg(why)>>)
         IN  /\ ConnRight(d, Inst(conn[s].to)) /\ Quieter(d, conn[s])
             /\ ConnRight(BrokerEnd(d), Inst(conn[s].to)) /\ Quieter(BrokerEnd(d), conn[s])
<1>1. why \in Types /\ why # "ready" /\ why # "snapshot"
  BY DEF Types, ErrorCodes
<1>2. Sayable(Msg(why), c, Inst(conn[s].to))
  BY <1>1, SayMsg
<1> QED BY <1>2, SaysRight

LEMMA RefusedInv ==
  ASSUME SessionInv, NEW s \in Conns, ProbeRefused(s) \/ JoinRefused(s) \/ SlowHello(s)
  PROVE  SessionInv'
<1>1. broker' = broker /\ proc' = proc /\ kind' = kind /\ faults' \in Nat /\ moves' \in Nat
  BY FromInv, FaultMove DEF ProbeRefused, JoinRefused, SlowHello
<1>2. PICK c \in ConnType, why \in ErrorCodes :
        /\ conn' = [conn EXCEPT ![s] = BrokerEnd(ToClient(c, <<Msg(why)>>))]
        /\ ConnRight(c, Inst(conn[s].to)) /\ c.its # "closed" /\ Quieter(c, conn[s])
  <2>1. CASE ProbeRefused(s) \/ JoinRefused(s)
    <3>1. /\ ConnRight(BrokerTook(s), Inst(conn[s].to)) /\ BrokerTook(s).its # "closed"
          /\ Quieter(BrokerTook(s), conn[s]) /\ BrokerTook(s) \in ConnType
      BY <2>1, BrokerReadsRight DEF ConnRight, ProbeRefused, JoinRefused
    <3>2. conn' = [conn EXCEPT ![s] = BrokerEnd(ToClient(BrokerTook(s), <<Msg("network_unavailable")>>))]
      BY <2>1 DEF ProbeRefused, JoinRefused
    <3>3. "network_unavailable" \in ErrorCodes
      BY DEF ErrorCodes
    <3> QED BY <3>1, <3>2, <3>3
  <2>2. CASE SlowHello(s)
    <3>1. /\ conn' = [conn EXCEPT ![s] = BrokerEnd(ToClient(conn[s], <<Msg("hello_timeout")>>))]
          /\ conn[s].its = "open"
      BY <2>2, FromInv DEF SlowHello
    <3>2. ConnRight(conn[s], Inst(conn[s].to)) /\ Quieter(conn[s], conn[s]) /\ conn[s] \in ConnType
      BY FromInv DEF Quieter, SameConn
    <3>3. "hello_timeout" \in ErrorCodes
      BY DEF ErrorCodes
    <3> QED BY <3>1, <3>2, <3>3
  <2> QED BY <2>1, <2>2
<1>3. /\ ConnRight(BrokerEnd(ToClient(c, <<Msg(why)>>)), Inst(conn[s].to))
      /\ Quieter(BrokerEnd(ToClient(c, <<Msg(why)>>)), conn[s])
  BY <1>2, TurnedAway
<1> QED BY <1>1, <1>2, <1>3, BrokerSaysInv

LEMMA SilenceInv ==
  ASSUME SessionInv, NEW s \in Conns, BrokerSilence(s) \/ Cut(s)
  PROVE  SessionInv'
<1>1. broker' = broker /\ proc' = proc /\ kind' = kind /\ faults' \in Nat /\ moves' \in Nat
  BY FromInv, FaultMove DEF BrokerSilence, Cut
<1>2. ConnRight(conn[s], Inst(conn[s].to)) /\ conn[s] \in ConnType
  BY FromInv
<1>3. CASE BrokerSilence(s)
  <2>1. conn' = [conn EXCEPT ![s] = BrokerEnd(conn[s])]
    BY <1>3, FromInv DEF BrokerSilence
  <2>2. ConnRight(BrokerEnd(conn[s]), Inst(conn[s].to)) /\ Quieter(BrokerEnd(conn[s]), conn[s])
    BY <1>2, BrokerEndRight DEF Quieter
  <2> QED BY <1>1, <2>1, <2>2, BrokerSaysInv
<1>4. CASE Cut(s)
  <2> DEFINE c == conn[s]
             d == [c EXCEPT !.cut = TRUE, !.up = <<>>, !.down = <<>>]
  <2>1. conn' = [conn EXCEPT ![s] = d] /\ c # Closed
    BY <1>4, FromInv DEF Cut
  <2>2. /\ d \in ConnType /\ SameConn(d, c) /\ d.mine = c.mine /\ d.its = c.its /\ d.up = <<>>
        /\ d.down = <<>> /\ d.step = c.step
    BY <1>2, ClosedAgain DEF ConnType, SameConn
  <2> HIDE DEF d
  <2>3. Begun(d)
    BY <1>2, <2>1, <2>2 DEF ConnRight, Begun, SameConn
  <2>4. Spoken(d) /\ CredsRight(d, Inst(c.to))
    BY <2>2, UnderSingle DEF Spoken, CredsRight, LastWord
  <2>5. Told(d)
    BY <1>2, <2>2, UnderSingle DEF ConnRight, Told, SameConn
  <2>6. Quieter(d, c)
    BY <2>2, UnderSingle DEF Quieter
  <2> QED BY <1>1, <2>1, <2>2, <2>3, <2>4, <2>5, <2>6, BrokerSaysInv DEF ConnRight
<1> QED BY <1>3, <1>4

LEMMA RefreshInv ==
  ASSUME SessionInv, NEW b \in Brokers, RefreshNetworkAccess(b)
  PROVE  SessionInv'
<1> DEFINE told == {x.sock : x \in broker[b].clients}
           d(s) == BrokerEnd(ToClient(conn[s], <<Msg("network_unavailable")>>))
<1>1. broker' = broker /\ proc' = proc /\ kind' = kind /\ faults' \in Nat /\ moves' \in Nat
  BY FromInv, FaultMove DEF RefreshNetworkAccess
<1>2. conn' = [s \in Conns |-> IF s \in told THEN d(s) ELSE conn[s]]
  BY DEF RefreshNetworkAccess
<1>3. ASSUME NEW s \in Conns, s \in told PROVE conn[s].its # "closed"
  <2>1. Held(b)
    BY DEF SessionInv
  <2>2. PICK x \in broker[b].clients : s = x.sock
    BY <1>3
  <2>3. broker[b].id # 0 /\ broker[b].sock # None /\ x = Entry(broker[b].id, broker[b].sock)
    BY <2>1, <2>2 DEF Held
  <2>4. s = broker[b].sock
    BY <2>2, <2>3 DEF Entry
  <2> QED BY <2>1, <2>3, <2>4 DEF Held
<1> HIDE DEF told
<1>4. ASSUME NEW s \in Conns
      PROVE  /\ ConnRight(conn'[s], Inst(conn'[s].to)) /\ Quieter(conn'[s], conn[s])
             /\ conn'[s] \in ConnType
  <2>1. ConnRight(conn[s], Inst(conn[s].to)) /\ Quieter(conn[s], conn[s]) /\ conn[s] \in ConnType
    BY FromInv DEF Quieter, SameConn
  <2>2. CASE s \in told
    <3>1. "network_unavailable" \in ErrorCodes
      BY DEF ErrorCodes
    <3>2. ConnRight(d(s), Inst(conn[s].to)) /\ Quieter(d(s), conn[s])
      BY <1>3, <2>1, <2>2, <3>1, TurnedAway
    <3>3. conn'[s] = d(s)
      BY <1>2, <2>2
    <3>4. conn'[s].to = conn[s].to
      BY <3>2, <3>3 DEF Quieter, SameConn
    <3> QED BY <3>2, <3>3, <3>4 DEF ConnRight
  <2>3. CASE s \notin told
    BY <1>2, <2>1, <2>3
  <2> QED BY <2>2, <2>3
<1>5. conn' \in [Conns -> ConnType]
  BY <1>2, <1>4
<1> QED BY <1>1, <1>4, <1>5, BrokersSayInv

\* What a connection s in state c must be to a broker whose session has socket sock
BookedRight(c, s, sock) ==
  /\ c.its = "open" /\ c.id # 0 => sock = s
  /\ c.its = "ended" /\ c.id # 0 /\ c.by = Pi => sock = s \/ Left(c)

\* A broker changes its books, and the connections to it.
LEMMA BooksInv ==
  ASSUME SessionInv, NEW b \in Brokers, NEW B \in BrokerType, broker' = [broker EXCEPT ![b] = B],
         proc' = proc, kind' = kind, faults' \in Nat, moves' \in Nat,
         conn' \in [Conns -> ConnType],
         \A t \in Conns : conn[t].to # b => conn'[t] = conn[t],
         \A t \in Conns : conn[t].to = b =>
           /\ ConnRight(conn'[t], B.inst) /\ SameMine(conn'[t], conn[t])
           /\ conn'[t].to = b \/ conn'[t] = Closed
           /\ BookedRight(conn'[t], t, B.sock),
         IF B.id = 0 \/ B.sock = None
         THEN B.clients = {} /\ B.grace = B.id /\ B.sock = None
         ELSE /\ B.clients = {Entry(B.id, B.sock)} /\ B.grace = 0
              /\ conn'[B.sock].id = B.id /\ conn'[B.sock].to = b /\ conn'[B.sock].its # "closed"
  PROVE  SessionInv'
<1>0. broker \in [Brokers -> BrokerType] /\ None \notin Brokers
  BY FromInv
<1>1. /\ broker' \in [Brokers -> BrokerType] /\ broker'[b] = B
      /\ \A e : e # b => broker'[e] = broker[e]
  <2>1. ASSUME NEW e, e # b PROVE broker'[e] = broker[e]
    BY <1>0, <2>1
  <2> QED BY <1>0, <2>1
<1>2. ASSUME NEW t \in Conns
      PROVE  ConnRight(conn'[t], broker'[conn'[t].to].inst) /\ SameMine(conn'[t], conn[t])
  <2>1. CASE conn[t].to = b
    <3>1. CASE conn'[t].to = b
      BY <1>1, <2>1, <3>1
    <3>2. CASE conn'[t] = Closed
      <4>1. SameMine(conn'[t], conn[t])
        BY <2>1
      <4> QED BY <3>2, <4>1, ClosedRight
    <3> QED BY <2>1, <3>1, <3>2
  <2>2. CASE conn[t].to # b
    <3>1. conn'[t] = conn[t] /\ broker'[conn[t].to] = broker[conn[t].to]
      BY <1>1, <2>2
    <3>2. ConnRight(conn[t], broker[conn[t].to].inst)
      BY DEF SessionInv
    <3> QED BY <3>1, <3>2 DEF SameMine
  <2> QED BY <2>1, <2>2
<1>3. /\ TypeOK'
      /\ \A s \in Conns : ConnRight(conn[s], broker[conn[s].to].inst)' /\ PiRight(s)'
      /\ \A p \in Procs : ProcRight(p)'
  BY <1>1, <1>2, BrokerChanges
<1>4. ASSUME NEW e \in Brokers PROVE Held(e)'
  <2>1. CASE e = b
    BY <1>1, <2>1 DEF Held, Entry
  <2>2. CASE e # b
    <3>1. Held(e) /\ broker[e] \in BrokerType /\ broker'[e] = broker[e]
      BY <1>0, <1>1, <2>2 DEF SessionInv
    <3>2. CASE broker[e].id = 0 \/ broker[e].sock = None
      BY <3>1, <3>2 DEF Held
    <3>3. CASE ~(broker[e].id = 0 \/ broker[e].sock = None)
      <4>1. broker[e].sock \in Conns /\ conn[broker[e].sock].to = e
        BY <3>1, <3>3 DEF Held, BrokerType
      <4>2. conn'[broker[e].sock] = conn[broker[e].sock]
        BY <2>2, <4>1
      <4> QED BY <3>1, <3>3, <4>2 DEF Held, Entry
    <3> QED BY <3>2, <3>3
  <2> QED BY <2>1, <2>2
<1>5. ASSUME NEW t \in Conns PROVE BrokerRight(t)'
  <2>1. CASE conn[t].to = b
    <3>1. CASE conn'[t].to = b
      BY <1>1, <2>1, <3>1 DEF BrokerRight, BookedRight, Left
    <3>2. CASE conn'[t] = Closed
      <4>1. conn'[t].its = "closed"
        BY <3>2 DEF Closed
      <4> QED BY <4>1 DEF BrokerRight
    <3> QED BY <2>1, <3>1, <3>2
  <2>2. CASE conn[t].to # b
    <3>1. conn'[t] = conn[t] /\ broker'[conn[t].to] = broker[conn[t].to] /\ BrokerRight(t)
      BY <1>1, <2>2, FromInv
    <3> QED BY <3>1 DEF BrokerRight, Left
  <2> QED BY <2>1, <2>2
<1> QED BY <1>3, <1>4, <1>5 DEF SessionInv

\* Its session has no connection then.
LEMMA BooksFreeInv ==
  ASSUME SessionInv, NEW b \in Brokers, NEW B \in BrokerType, broker' = [broker EXCEPT ![b] = B],
         proc' = proc, kind' = kind, faults' \in Nat, moves' \in Nat,
         conn' \in [Conns -> ConnType],
         \A t \in Conns : conn[t].to # b => conn'[t] = conn[t],
         \A t \in Conns : conn[t].to = b =>
           /\ ConnRight(conn'[t], B.inst) /\ SameMine(conn'[t], conn[t])
           /\ conn'[t].to = b \/ conn'[t] = Closed
           /\ BookedRight(conn'[t], t, None),
         B.sock = None, B.clients = {}, B.grace = B.id
  PROVE  SessionInv'
<1>1. IF B.id = 0 \/ B.sock = None
      THEN B.clients = {} /\ B.grace = B.id /\ B.sock = None
      ELSE /\ B.clients = {Entry(B.id, B.sock)} /\ B.grace = 0
           /\ conn'[B.sock].id = B.id /\ conn'[B.sock].to = b /\ conn'[B.sock].its # "closed"
  OBVIOUS
<1>2. \A t \in Conns : conn[t].to = b =>
           /\ ConnRight(conn'[t], B.inst) /\ SameMine(conn'[t], conn[t])
           /\ conn'[t].to = b \/ conn'[t] = Closed
           /\ BookedRight(conn'[t], t, B.sock)
  OBVIOUS
<1> QED BY <1>1, <1>2, BooksInv

\* The connections to a broker that it leaves alone
LEMMA LeftAlone ==
  ASSUME SessionInv, NEW t \in Conns
  PROVE  /\ ConnRight(conn[t], broker[conn[t].to].inst) /\ SameMine(conn[t], conn[t])
         /\ BookedRight(conn[t], t, broker[conn[t].to].sock)
<1>1. BrokerRight(t) /\ ConnRight(conn[t], broker[conn[t].to].inst)
  BY DEF SessionInv
<1> QED BY <1>1 DEF BrokerRight, BookedRight, SameMine

LEMMA GraceEndsInv ==
  ASSUME SessionInv, NEW b \in Brokers, GraceEnds(b)
  PROVE  SessionInv'
<1> DEFINE B == broker[b]
           C == [B EXCEPT !.id = 0, !.sock = None, !.grace = 0]
<1>1. /\ B \in BrokerType /\ Held(b) /\ B.grace # 0 /\ conn \in [Conns -> ConnType]
      /\ broker \in [Brokers -> BrokerType]
  BY FromInv DEF SessionInv, GraceEnds
<1>2. B.sock = None /\ B.clients = {}
  BY <1>1 DEF Held
<1>3. broker' = [broker EXCEPT ![b] = C]
  <2>1. B.grace \notin IdsOf(B.clients)
    BY <1>2 DEF IdsOf
  <2> QED BY <2>1 DEF GraceEnds
<1>4. /\ C \in BrokerType /\ C.id = 0 /\ C.sock = None /\ C.grace = 0 /\ C.clients = B.clients
      /\ C.inst = B.inst
  BY <1>1 DEF BrokerType
<1>5. conn' = conn /\ proc' = proc /\ kind' = kind /\ faults' \in Nat /\ moves' \in Nat
  BY FromInv DEF GraceEnds
<1> HIDE DEF C
<1>6. ASSUME NEW t \in Conns, conn[t].to = b
      PROVE  /\ ConnRight(conn'[t], C.inst) /\ SameMine(conn'[t], conn[t])
             /\ conn'[t].to = b \/ conn'[t] = Closed
             /\ BookedRight(conn'[t], t, None)
  <2>1. /\ ConnRight(conn[t], B.inst) /\ SameMine(conn[t], conn[t])
        /\ BookedRight(conn[t], t, B.sock)
    BY <1>6, LeftAlone
  <2> QED BY <1>2, <1>4, <1>5, <1>6, <2>1
<1> QED BY <1>1, <1>2, <1>3, <1>4, <1>5, <1>6, BooksFreeInv

LEMMA LoseInv ==
  ASSUME SessionInv, NEW s \in Conns, BrokerFin(s) \/ BrokerGivesUp(s) \/ BrokerClosed(s)
  PROVE  SessionInv'
<1> DEFINE c == conn[s]
           b == c.to
           B == broker[b]
           C == Lost(B, s, c.id)
<1>1. /\ c.its # "closed" /\ c \in ConnType /\ ConnRight(c, Inst(b)) /\ conn \in [Conns -> ConnType]
      /\ broker \in [Brokers -> BrokerType] /\ None \notin Conns
  BY FromInv DEF BrokerFin, BrokerGivesUp, BrokerClosed, BrokerReads
<1>2. /\ conn' = [conn EXCEPT ![s] = BrokerClose(c)] /\ broker' = [broker EXCEPT ![b] = C]
      /\ proc' = proc /\ kind' = kind /\ faults' \in Nat /\ moves' \in Nat
  BY FromInv DEF BrokerFin, BrokerGivesUp, BrokerClosed, Lose
<1>3. b \in Brokers /\ B \in BrokerType /\ Held(b)
  <2>1. b \in Brokers
    BY <1>1, InUse DEF ConnRight
  <2> QED BY <1>1, <2>1 DEF SessionInv
<1>4. /\ ConnRight(BrokerClose(c), Inst(b)) /\ BrokerClose(c).its = "closed"
      /\ SameMine(BrokerClose(c), c)
      /\ BrokerClose(c).to = b \/ BrokerClose(c) = Closed
  <2>1. /\ ConnRight(BrokerClose(c), Inst(b))
        /\ BrokerClose(c).its = "closed"
        /\ \/ SameConn(BrokerClose(c), c) /\ BrokerClose(c).mine = c.mine
           \/ c.mine = "closed" /\ BrokerClose(c) = Closed
    BY <1>1, BrokerCloseRight
  <2> QED BY <2>1 DEF SameConn, SameMine
<1>5. /\ conn'[s] = BrokerClose(c) /\ \A t \in Conns : t # s => conn'[t] = conn[t]
      /\ conn' \in [Conns -> ConnType]
  BY <1>1, <1>2, <1>4 DEF ConnRight
<1>6. CASE Entry(c.id, s) \notin B.clients
  <2>1. C = B
    BY <1>6 DEF Lost
  <2>2. B.sock # s
    <3> SUFFICES ASSUME B.sock = s PROVE FALSE
      OBVIOUS
    <3>1. B.id # 0 /\ B.clients = {Entry(B.id, s)} /\ c.id = B.id
      BY <1>1, <1>3 DEF Held
    <3> QED BY <1>6, <3>1
  <2>3. ASSUME NEW t \in Conns, conn[t].to = b
        PROVE  /\ ConnRight(conn'[t], B.inst) /\ SameMine(conn'[t], conn[t])
               /\ conn'[t].to = b \/ conn'[t] = Closed
               /\ BookedRight(conn'[t], t, B.sock)
    <3>1. CASE t = s
      BY <1>4, <1>5, <3>1 DEF BookedRight, Inst
    <3>2. CASE t # s
      <4>1. /\ ConnRight(conn[t], B.inst) /\ SameMine(conn[t], conn[t])
            /\ BookedRight(conn[t], t, B.sock)
        BY <2>3, LeftAlone
      <4> QED BY <1>5, <2>3, <3>2, <4>1
    <3> QED BY <3>1, <3>2
  <2>4. B.sock # None => conn'[B.sock] = conn[B.sock]
    BY <1>3, <1>5, <2>2 DEF BrokerType
  <2>5. IF B.id = 0 \/ B.sock = None
        THEN B.clients = {} /\ B.grace = B.id /\ B.sock = None
        ELSE /\ B.clients = {Entry(B.id, B.sock)} /\ B.grace = 0
             /\ conn'[B.sock].id = B.id /\ conn'[B.sock].to = b /\ conn'[B.sock].its # "closed"
    BY <1>3, <2>4 DEF Held
  <2>6. \A t \in Conns : conn[t].to # b => conn'[t] = conn[t]
    BY <1>5
  <2> HIDE DEF C
  <2> QED BY <1>2, <1>3, <1>5, <2>1, <2>3, <2>5, <2>6, BooksInv
<1>7. CASE Entry(c.id, s) \in B.clients
  <2>1. B.id # 0 /\ B.clients = {Entry(B.id, B.sock)} /\ B.grace = 0
    BY <1>3, <1>7 DEF Held
  <2>2. Entry(c.id, s).id = c.id /\ Entry(c.id, s).sock = s /\ Entry(B.id, B.sock).id = B.id
        /\ Entry(B.id, B.sock).sock = B.sock
    BY DEF Entry
  <2>3. c.id = B.id /\ B.sock = s
    BY <1>7, <2>1, <2>2
  <2>4. {x \in B.clients : x.id # c.id} = {}
    BY <2>1, <2>2, <2>3
  <2>5. C = [B EXCEPT !.clients = {}, !.sock = None, !.grace = c.id]
    BY <1>7, <2>1, <2>3, <2>4 DEF Lost
  <2>6. /\ C \in BrokerType /\ C.id = B.id /\ C.sock = None /\ C.grace = B.id /\ C.clients = {}
        /\ C.inst = B.inst
    BY <1>1, <1>3, <2>3, <2>5 DEF BrokerType, ConnType
  <2> HIDE DEF C
  <2>7. ASSUME NEW t \in Conns, conn[t].to = b
        PROVE  /\ ConnRight(conn'[t], C.inst) /\ SameMine(conn'[t], conn[t])
               /\ conn'[t].to = b \/ conn'[t] = Closed
               /\ BookedRight(conn'[t], t, None)
    <3>1. CASE t = s
      BY <1>4, <1>5, <2>6, <3>1 DEF BookedRight, Inst
    <3>2. CASE t # s
      <4>1. /\ ConnRight(conn[t], B.inst) /\ SameMine(conn[t], conn[t])
            /\ BookedRight(conn[t], t, s)
        BY <2>3, <2>7, LeftAlone
      <4> QED BY <1>5, <2>6, <2>7, <3>2, <4>1 DEF BookedRight
    <3> QED BY <3>1, <3>2
  <2>8. \A t \in Conns : conn[t].to # b => conn'[t] = conn[t]
    BY <1>5
  <2>9. C.grace = C.id
    BY <2>6
  <2> HIDE DEF c, b, B
  <2> QED BY <1>2, <1>3, <1>5, <2>6, <2>7, <2>8, <2>9, BooksFreeInv
<1> QED BY <1>6, <1>7

LEMMA GoodbyeInv ==
  ASSUME SessionInv, NEW s \in Conns, Goodbye(s)
  PROVE  SessionInv'
<1> DEFINE old == conn[s]
           c == BrokerTook(s)
           b == c.to
           B == broker[b]
           C == [B EXCEPT !.id = 0, !.sock = None, !.grace = 0, !.clients = @ \ {Entry(c.id, s)}]
<1>1. /\ ConnRight(c, Inst(old.to)) /\ Quieter(c, old) /\ c.its = old.its
      /\ c.its # "closed" /\ c.step # "connecting" /\ c.by \in Procs /\ c.to \in Brokers
      /\ c.by = old.by /\ c.to = old.to /\ c.id = old.id /\ c.mine = old.mine
      /\ Head(old.up) \in Messages /\ Head(old.up) \in Under(old.up)
      /\ Head(old.up).type = "goodbye"
      /\ \A m \in Under(c.up) : m.type = "fin"
  BY BrokerReadsRight DEF Goodbye
<1>2. /\ old \in ConnType /\ ConnRight(old, Inst(old.to)) /\ BrokerRight(s)
      /\ conn \in [Conns -> ConnType] /\ broker \in [Brokers -> BrokerType] /\ None \notin Conns
  BY FromInv
<1>3. proc' = proc /\ kind' = kind /\ faults' \in Nat /\ moves' \in Nat
  BY FromInv DEF Goodbye
<1>4. CASE c.id = 0
  <2> DEFINE d == ToClient(c, <<Msg("invalid_payload")>>)
  <2>1. conn' = [conn EXCEPT ![s] = d] /\ broker' = broker
    BY <1>4 DEF Goodbye
  <2>2. "invalid_payload" \in ErrorCodes
    BY DEF ErrorCodes
  <2> HIDE DEF c
  <2>3. ConnRight(d, Inst(old.to)) /\ Quieter(d, old)
    BY <1>1, <2>2, TurnedAway
  <2> HIDE DEF d
  <2> QED BY <1>3, <2>1, <2>3, BrokerSaysInv
<1>5. CASE c.id # 0
  <2> DEFINE d == BrokerEnd(c)
  <2>1. conn' = [conn EXCEPT ![s] = d] /\ broker' = [broker EXCEPT ![b] = C]
    BY <1>5 DEF Goodbye
  <2>2. old.by = Pi /\ old.mine # "open" /\ ~Left(old)
    BY <1>1, <1>2 DEF ConnRight, Spoken, Left
  <2>3. old.its \in {"open", "ended"}
    BY DEF Goodbye, BrokerReads
  <2> HIDE DEF c, C
  <2>4. B.sock = s /\ Held(b) /\ B \in BrokerType
    BY <1>1, <1>2, <1>5, <2>2, <2>3 DEF BrokerRight, SessionInv
  <2>5. B.clients = {Entry(B.id, s)} /\ old.id = B.id
    BY <1>2, <2>4 DEF Held
  <2>6. /\ C \in BrokerType /\ C.id = 0 /\ C.sock = None /\ C.grace = 0 /\ C.clients = {}
        /\ C.inst = B.inst
    BY <1>1, <2>4, <2>5 DEF BrokerType, C
  <2>7. /\ ConnRight(d, Inst(old.to)) /\ SameConn(d, c) /\ d.mine = c.mine /\ d.up = c.up
        /\ d.its # "open"
    BY <1>1, BrokerEndRight
  <2> HIDE DEF d
  <2>8. /\ conn'[s] = d /\ \A t \in Conns : t # s => conn'[t] = conn[t]
        /\ conn' \in [Conns -> ConnType]
    BY <1>2, <2>1, <2>7 DEF ConnRight
  <2>9. ASSUME NEW t \in Conns, conn[t].to = b
        PROVE  /\ ConnRight(conn'[t], C.inst) /\ SameMine(conn'[t], conn[t])
               /\ conn'[t].to = b \/ conn'[t] = Closed
               /\ BookedRight(conn'[t], t, None)
    <3>1. CASE t = s
      <4>1. Left(d)
        BY <1>1, <2>2, <2>7 DEF Left
      <4> QED BY <1>1, <2>6, <2>7, <2>8, <3>1, <4>1 DEF BookedRight, Inst, SameMine, SameConn
    <3>2. CASE t # s
      <4>1. /\ ConnRight(conn[t], B.inst) /\ SameMine(conn[t], conn[t])
            /\ BookedRight(conn[t], t, s)
        BY <2>4, <2>9, LeftAlone
      <4> QED BY <2>6, <2>8, <2>9, <3>2, <4>1 DEF BookedRight
    <3> QED BY <3>1, <3>2
  <2>10. \A t \in Conns : conn[t].to # b => conn'[t] = conn[t]
    BY <1>1, <2>8
  <2>11. C.grace = C.id /\ b \in Brokers
    BY <1>1, <2>6
  <2> HIDE DEF b, old
  <2> QED BY <1>3, <2>1, <2>6, <2>8, <2>9, <2>10, <2>11, BooksFreeInv
<1> QED BY <1>4, <1>5

LEMMA RestartInv ==
  ASSUME SessionInv, NEW b \in Brokers, Restart(b)
  PROVE  SessionInv'
<1>0. broker[b].identity \in Nat /\ broker[b].inst \in Nat
  BY FromInv DEF BrokerType
<1>1. PICK n \in {broker[b].identity, broker[b].identity + 1} :
        broker' = [broker EXCEPT ![b] = [NewBroker EXCEPT !.inst = broker[b].inst + 1, !.identity = n]]
  BY DEF Restart
<1> DEFINE B == [NewBroker EXCEPT !.inst = broker[b].inst + 1, !.identity = n]
<1>2. /\ B \in BrokerType /\ B.id = 0 /\ B.sock = None /\ B.grace = 0 /\ B.clients = {}
  <2>1. n \in Nat /\ broker[b].inst + 1 \in Nat
    BY <1>0
  <2>2. /\ NewBroker \in BrokerType /\ NewBroker.id = 0 /\ NewBroker.sock = None
        /\ NewBroker.grace = 0 /\ NewBroker.clients = {}
    BY DEF BrokerType, NewBroker
  <2> HIDE DEF B
  <2>3. B \in BrokerType
    BY <2>1, <2>2 DEF BrokerType, B
  <2>4. B.id = 0 /\ B.sock = None /\ B.grace = 0 /\ B.clients = {}
    BY <2>2 DEF BrokerType, B
  <2> QED BY <2>3, <2>4
<1> HIDE DEF B
<1>3. /\ conn' = [s \in Conns |-> IF conn[s].to = b /\ conn[s].its # "closed" THEN BrokerClose(conn[s])
                                  ELSE conn[s]]
      /\ proc' = proc /\ kind' = kind /\ faults' \in Nat /\ moves' \in Nat
  BY FromInv, FaultMove DEF Restart
<1>4. ASSUME NEW t \in Conns, conn[t].to = b
      PROVE  /\ ConnRight(conn'[t], B.inst) /\ SameMine(conn'[t], conn[t])
             /\ conn'[t].to = b \/ conn'[t] = Closed
             /\ BookedRight(conn'[t], t, None)
  <2>0. ConnRight(conn[t], Inst(conn[t].to))
    BY FromInv
  <2>1. CASE conn[t].its # "closed"
    <3>1. conn'[t] = BrokerClose(conn[t])
      BY <1>3, <1>4, <2>1
    <3>2. /\ ConnRight(conn'[t], B.inst)
          /\ conn'[t].its = "closed"
          /\ \/ SameConn(conn'[t], conn[t]) /\ conn'[t].mine = conn[t].mine
             \/ conn[t].mine = "closed" /\ conn'[t] = Closed
      BY <2>0, <3>1, BrokerCloseRight
    <3> QED BY <1>4, <3>2 DEF SameMine, SameConn, BookedRight
  <2>2. CASE conn[t].its = "closed"
    <3>1. conn'[t] = conn[t]
      BY <1>3, <2>2
    <3>2. ConnRight(conn[t], B.inst)
      BY <2>0, <2>2 DEF ConnRight, CredsRight
    <3> QED BY <1>4, <2>2, <3>1, <3>2 DEF SameMine, BookedRight
  <2> QED BY <2>1, <2>2
<1>5. \A t \in Conns : conn[t].to # b => conn'[t] = conn[t]
  BY <1>3
<1>6. conn' \in [Conns -> ConnType]
  <2>1. ASSUME NEW t \in Conns PROVE conn'[t] \in ConnType
    <3>1. CASE conn[t].to = b
      BY <1>4, <3>1 DEF ConnRight
    <3>2. CASE conn[t].to # b
      BY <1>5, <3>2, FromInv
    <3> QED BY <3>1, <3>2
  <2> QED BY <1>3, <2>1
<1>7. broker' = [broker EXCEPT ![b] = B] /\ B.grace = B.id
  BY <1>1, <1>2 DEF B
<1> QED BY <1>2, <1>3, <1>4, <1>5, <1>6, <1>7, BooksFreeInv

\* A connection that is given a client id, and told so
LEMMA WelcomedRight ==
  ASSUME SessionInv, NEW c, NEW b \in Brokers, c.to = b, ConnRight(c, Inst(b)), c.its # "closed",
         NEW id \in Nat, id # 0
  PROVE  LET d == ToClient([c EXCEPT !.id = id],
                    <<MsgWith("welcome", CredOf(b, id), 0), Msg("snapshot")>>)
         IN  /\ ConnRight(d, Inst(b)) /\ d.by = c.by /\ d.to = b /\ d.id = id /\ d.mine = c.mine
             /\ d.its = c.its
<1> DEFINE e == [c EXCEPT !.id = id]
           w == MsgWith("welcome", CredOf(b, id), 0)
           n == Msg("snapshot")
           q == <<w, n>>
           d == ToClient(e, q)
<1>1. c \in ConnType /\ c # Closed /\ c.step # "connecting"
  BY InUse DEF ConnRight
<1>2. /\ e \in ConnType /\ e.by = c.by /\ e.to = b /\ e.id = id /\ e.mine = c.mine /\ e.its = c.its
      /\ e.up = c.up /\ e.down = c.down /\ e.step = c.step
  BY <1>1 DEF ConnType
<1> HIDE DEF e
<1>3. ConnRight(e, Inst(b))
  BY <1>1, <1>2 DEF ConnRight, Begun, Spoken, Told, CredsRight
<1>4. b # None /\ broker[b].inst \in Nat
  BY FromInv DEF BrokerType
<1>5. /\ w \in Messages /\ w.type = "welcome" /\ w.cred.from = b /\ w.cred.inst = Inst(b)
  BY <1>4 DEF MsgWith, CredOf, Messages, Creds, Types, Inst
<1>6. n \in Messages /\ n.type = "snapshot" /\ n.cred.id = 0
  BY DEF Msg, Messages, Creds, Types, NoCred
<1> HIDE DEF w, n
<1>7. q \in Seq(Messages) /\ Under(q) = {w, n}
  BY <1>5, <1>6, UnderSingle
<1> HIDE DEF q
<1>8. \A m \in Under(q) : Sayable(m, e, Inst(b))
  BY <1>2, <1>4, <1>5, <1>6, <1>7 DEF Sayable, Of
<1>9. /\ ConnRight(d, Inst(b)) /\ SameConn(d, e) /\ d.mine = e.mine /\ d.its = e.its
  BY <1>2, <1>3, <1>7, <1>8, ToClientRight
<1> QED BY <1>2, <1>9 DEF SameConn, e, w, n, q

\* The connection that a takeover ends
LEMMA ReplacedRight ==
  ASSUME SessionInv, NEW o \in Conns, conn[o].its # "closed"
  PROVE  LET d == BrokerDestroy(conn[o])
             e == BrokerEnd(ToClient(conn[o], <<Msg("session_in_use")>>))
         IN  /\ ConnRight(d, Inst(conn[o].to)) /\ SameConn(d, conn[o]) /\ d.mine = conn[o].mine
             /\ d.its = "destroyed"
             /\ ConnRight(e, Inst(conn[o].to)) /\ SameConn(e, conn[o]) /\ e.mine = conn[o].mine
             /\ e.its # "open"
<1>1. ConnRight(conn[o], Inst(conn[o].to))
  BY FromInv
<1> DEFINE d == BrokerDestroy(conn[o])
           f == ToClient(conn[o], <<Msg("session_in_use")>>)
           e == BrokerEnd(f)
<1>2. /\ ConnRight(d, Inst(conn[o].to)) /\ SameConn(d, conn[o]) /\ d.mine = conn[o].mine
      /\ d.its = "destroyed"
  BY <1>1, BrokerDestroyRight
<1>3. "session_in_use" \in ErrorCodes /\ Quieter(conn[o], conn[o])
  BY DEF ErrorCodes, Quieter, SameConn
<1>4. ConnRight(f, Inst(conn[o].to)) /\ Quieter(f, conn[o])
  BY <1>1, <1>3, TurnedAway
<1> HIDE DEF f
<1>5. /\ ConnRight(e, Inst(conn[o].to)) /\ SameConn(e, f) /\ e.mine = f.mine
      /\ e.its = IF f.its = "open" THEN "ended" ELSE f.its
  BY <1>4, BrokerEndRight
<1>6. SameConn(e, conn[o]) /\ e.mine = conn[o].mine /\ e.its # "open"
  BY <1>4, <1>5 DEF Quieter, SameConn
<1> QED BY <1>2, <1>5, <1>6 DEF f

LEMMA RegisteredInv ==
  ASSUME SessionInv, NEW s \in Conns, NEW c, ConnRight(c, Inst(conn[s].to)), SameConn(c, conn[s]),
         c.mine = conn[s].mine, c.its = conn[s].its, c.its # "closed", Registered(s, c),
         proc' = proc, kind' = kind, faults' \in Nat, moves' \in Nat
  PROVE  SessionInv'
<1> DEFINE b == c.to
           B == broker[b]
           id == IF B.id = 0 THEN FreshId ELSE B.id
           d == ToClient([c EXCEPT !.id = id],
                  <<MsgWith("welcome", CredOf(b, id), 0), Msg("snapshot")>>)
           told == [conn EXCEPT ![s] = d]
           o == B.sock
           out == IF c.by = Pi THEN BrokerDestroy(told[o])
                  ELSE BrokerEnd(ToClient(told[o], <<Msg("session_in_use")>>))
           C == [B EXCEPT !.id = id, !.sock = s, !.grace = 0,
                          !.clients = {x \in @ : x.id # id} \cup {Entry(id, s)}]
<1>1. /\ conn \in [Conns -> ConnType] /\ broker \in [Brokers -> BrokerType] /\ None \notin Conns
      /\ b \in Brokers /\ B \in BrokerType /\ Held(b) /\ c \in ConnType /\ b = conn[s].to
      /\ c.by = conn[s].by /\ (c.by = Pi <=> kind = "pi")
  <2>1. b \in Brokers /\ c # Closed
    BY InUse DEF ConnRight
  <2> QED BY <2>1, FromInv DEF SessionInv, SameConn, ConnRight, Begun
<1>2. /\ B.id = 0 => Ids \ UsedIds # {}
      /\ conn' = IF o \in {None, s} THEN told ELSE [told EXCEPT ![o] = out]
      /\ broker' = [broker EXCEPT ![b] = C]
  BY DEF Registered
<1>3. id \in Nat /\ id # 0
  <2>1. CASE B.id = 0
    <3>1. FreshId \in Ids
      BY <1>2, <2>1 DEF FreshId
    <3> QED BY <2>1, <3>1 DEF Ids
  <2>2. CASE B.id # 0
    BY <1>1, <2>2 DEF BrokerType
  <2> QED BY <2>1, <2>2
<1>4. {x \in B.clients : x.id # id} = {}
  <2>1. B.clients = {} \/ (B.id # 0 /\ B.clients = {Entry(B.id, B.sock)})
    BY <1>1 DEF Held
  <2> QED BY <2>1 DEF Entry
<1>5. /\ C \in BrokerType /\ C.id = id /\ C.sock = s /\ C.grace = 0 /\ C.inst = B.inst
      /\ C.clients = {Entry(id, s)}
  <2>1. C = [B EXCEPT !.id = id, !.sock = s, !.grace = 0, !.clients = {Entry(id, s)}]
    BY <1>4
  <2> HIDE DEF C, id, B
  <2>2. Entry(id, s) \in [id : Nat, sock : Conns]
    BY <1>3 DEF Entry
  <2> QED BY <1>1, <1>3, <2>1, <2>2 DEF BrokerType
<1> HIDE DEF C, id
<1>6. /\ ConnRight(d, Inst(b)) /\ d.by = c.by /\ d.to = b /\ d.id = id /\ d.mine = c.mine
      /\ d.its = c.its
  BY <1>1, <1>3, WelcomedRight
<1> HIDE DEF d
<1>7. d \in ConnType
  BY <1>6 DEF ConnRight
<1>8. told[s] = d /\ told \in [Conns -> ConnType] /\ \A t \in Conns : t # s => told[t] = conn[t]
  BY <1>1, <1>7
<1> HIDE DEF told
<1>9. ASSUME o \notin {None, s}
      PROVE  /\ o \in Conns /\ conn[o].to = b /\ ConnRight(out, Inst(b)) /\ SameConn(out, conn[o])
             /\ out.mine = conn[o].mine /\ out.its # "open" /\ out \in ConnType
             /\ out.by = Pi => out.its = "destroyed"
  <2>1. /\ o \in Conns /\ conn[o].to = b /\ conn[o].its # "closed" /\ told[o] = conn[o]
    BY <1>1, <1>8, <1>9 DEF Held, BrokerType
  <2>2. conn[o].by = Pi <=> kind = "pi"
    <3>1. ConnRight(conn[o], Inst(conn[o].to)) /\ conn[o] \in ConnType
      BY <2>1, FromInv
    <3>2. conn[o] # Closed
      BY <2>1 DEF Closed
    <3> QED BY <3>1, <3>2 DEF ConnRight, Begun
  <2>3. CASE c.by = Pi
    <3>1. out = BrokerDestroy(conn[o])
      BY <2>1, <2>3
    <3> HIDE DEF out, o
    <3> QED BY <2>1, <3>1, ReplacedRight DEF ConnRight
  <2>4. CASE c.by # Pi
    <3>1. out = BrokerEnd(ToClient(conn[o], <<Msg("session_in_use")>>))
      BY <2>1, <2>4
    <3>2. conn[o].by # Pi
      BY <1>1, <2>2, <2>4
    <3> HIDE DEF out, o
    <3>3. /\ ConnRight(out, Inst(conn[o].to)) /\ SameConn(out, conn[o]) /\ out.mine = conn[o].mine
          /\ out.its # "open"
      BY <2>1, <3>1, ReplacedRight
    <3> QED BY <2>1, <3>2, <3>3 DEF ConnRight, SameConn
  <2> QED BY <2>3, <2>4
<1> HIDE DEF out, o
<1>10. /\ conn' \in [Conns -> ConnType] /\ conn'[s] = d
       /\ \A t \in Conns : t # s => conn'[t] = IF o \in {None, s} \/ t # o THEN conn[t] ELSE out
  <2>1. CASE o \in {None, s}
    BY <1>2, <1>8, <2>1
  <2>2. CASE o \notin {None, s}
    BY <1>2, <1>8, <1>9, <2>2
  <2> QED BY <2>1, <2>2
<1>11. ASSUME NEW t \in Conns, conn[t].to # b PROVE conn'[t] = conn[t]
  <2>1. t # s
    BY <1>1, <1>11
  <2>2. o \in {None, s} \/ t # o
    BY <1>9, <1>11
  <2> QED BY <1>10, <2>1, <2>2
<1>12. ASSUME NEW t \in Conns, conn[t].to = b
       PROVE  /\ ConnRight(conn'[t], C.inst) /\ SameMine(conn'[t], conn[t])
              /\ conn'[t].to = b \/ conn'[t] = Closed
              /\ BookedRight(conn'[t], t, C.sock)
  <2>1. CASE t = s
    BY <1>1, <1>5, <1>6, <1>10, <2>1 DEF BookedRight, SameMine, Inst
  <2>2. CASE t # s /\ (o \in {None, s} \/ t # o)
    <3>1. conn'[t] = conn[t]
      BY <1>10, <2>2
    <3>2. /\ ConnRight(conn[t], B.inst) /\ SameMine(conn[t], conn[t]) /\ BookedRight(conn[t], t, o)
      BY <1>12, LeftAlone DEF o
    <3>3. o # t
      BY <1>1, <2>2
    <3> QED BY <1>5, <1>12, <3>1, <3>2, <3>3 DEF BookedRight
  <2>3. CASE t # s /\ ~(o \in {None, s} \/ t # o)
    <3>1. conn'[t] = out /\ t = o
      BY <1>10, <2>3
    <3>2. /\ ConnRight(out, Inst(b)) /\ SameConn(out, conn[t]) /\ out.mine = conn[t].mine
          /\ out.its # "open" /\ (out.by = Pi => out.its = "destroyed")
      BY <1>9, <2>3, <3>1
    <3> QED BY <1>5, <1>12, <3>1, <3>2 DEF BookedRight, SameMine, SameConn, Inst
  <2> QED BY <2>1, <2>2, <2>3
<1>13. IF C.id = 0 \/ C.sock = None
       THEN C.clients = {} /\ C.grace = C.id /\ C.sock = None
       ELSE /\ C.clients = {Entry(C.id, C.sock)} /\ C.grace = 0
            /\ conn'[C.sock].id = C.id /\ conn'[C.sock].to = b /\ conn'[C.sock].its # "closed"
  BY <1>1, <1>3, <1>5, <1>6, <1>10
<1> HIDE DEF b, B
<1> QED BY ZenonT(60), <1>1, <1>2, <1>5, <1>10, <1>11, <1>12, <1>13, BooksInv

LEMMA HelloInv ==
  ASSUME SessionInv, NEW s \in Conns, Hello(s) \/ WebJoin(s)
  PROVE  SessionInv'
<1> DEFINE c == BrokerTook(s)
           t == IF Hello(s) THEN "hello" ELSE "join"
<1>1. /\ ConnRight(c, Inst(conn[s].to)) /\ Quieter(c, conn[s]) /\ c.its = conn[s].its
      /\ c.its # "closed" /\ SameConn(c, conn[s]) /\ c.mine = conn[s].mine
  <2>1. BrokerReads(s, t)
    BY DEF Hello, WebJoin
  <2> QED BY <2>1, BrokerReadsRight DEF SameConn
<1>2. proc' = proc /\ kind' = kind /\ faults' \in Nat /\ moves' \in Nat
  BY FromInv DEF Hello, WebJoin
<1>3. \/ Registered(s, c)
      \/ Rejected(s, c, "session_in_use")
      \/ Rejected(s, c, "resume_rejected")
  BY DEF Hello, WebJoin
<1> HIDE DEF c, t
<1>4. CASE Registered(s, c)
  BY <1>1, <1>2, <1>4, RegisteredInv
<1>5. ASSUME NEW why \in {"session_in_use", "resume_rejected"}, Rejected(s, c, why)
      PROVE  SessionInv'
  <2> DEFINE d == BrokerEnd(ToClient(c, <<Msg(why)>>))
  <2>1. conn' = [conn EXCEPT ![s] = d] /\ broker' = broker
    BY <1>5 DEF Rejected
  <2>2. why \in ErrorCodes
    BY DEF ErrorCodes
  <2>3. ConnRight(d, Inst(conn[s].to)) /\ Quieter(d, conn[s])
    BY <1>1, <2>2, TurnedAway
  <2> HIDE DEF d
  <2> QED BY <1>2, <2>1, <2>3, BrokerSaysInv
<1> QED BY <1>3, <1>4, <1>5

------------------------------------------------------------------------------
(* All steps *)

LEMMA InitInv == Init => SessionInv
<1> SUFFICES ASSUME Init PROVE SessionInv
  OBVIOUS
<1>1. /\ conn = [s \in Conns |-> Closed] /\ proc = [p \in Procs |-> NewProc]
      /\ broker = [b \in Brokers |-> NewBroker]
  BY DEF Init
<1>2. Closed \in ConnType /\ Closed.mine = "closed" /\ Closed.its = "closed"
  BY ClosedRight DEF ConnRight, Closed
<1>3. /\ NewProc \in ProcType /\ NewProc.sock = None /\ NewProc.cred.id = 0 /\ NewProc.stopping
  BY ConstantsAssumption DEF NewProc, ProcType, NoCred, Creds
<1>4. /\ NewBroker \in BrokerType /\ NewBroker.id = 0 /\ NewBroker.sock = None
      /\ NewBroker.grace = 0 /\ NewBroker.clients = {}
  BY DEF BrokerType, NewBroker
<1>5. TypeOK
  BY <1>1, <1>2, <1>3, <1>4 DEF TypeOK, Init
<1>6. ASSUME NEW b \in Brokers PROVE Held(b)
  BY <1>1, <1>4 DEF Held
<1>7. ASSUME NEW s \in Conns
      PROVE  ConnRight(conn[s], broker[conn[s].to].inst) /\ PiRight(s) /\ BrokerRight(s)
  BY <1>1, <1>2, ClosedRight DEF PiRight, BrokerRight
<1>8. ASSUME NEW p \in Procs PROVE ProcRight(p)
  BY <1>1, <1>3 DEF ProcRight
<1> QED BY <1>5, <1>6, <1>7, <1>8 DEF SessionInv

LEMMA StutterInv == SessionInv /\ UNCHANGED vars => SessionInv'
<1> SUFFICES ASSUME SessionInv, UNCHANGED vars PROVE SessionInv'
  OBVIOUS
<1>1. /\ broker' = broker /\ proc' = proc /\ kind' = kind /\ conn' = conn
      /\ faults' \in Nat /\ moves' \in Nat
  BY FromInv DEF vars
<1>2. \A s \in Conns : ConnRight(conn'[s], Inst(conn'[s].to)) /\ Quieter(conn'[s], conn[s])
  BY <1>1, FromInv DEF Quieter, SameConn
<1>3. conn' \in [Conns -> ConnType]
  BY <1>1, FromInv
<1> QED BY <1>1, <1>2, <1>3, BrokersSayInv

LEMMA NextInv == SessionInv /\ [Next]_vars => SessionInv'
<1> SUFFICES ASSUME SessionInv, Next PROVE SessionInv'
  BY StutterInv
<1>1. ASSUME NEW p \in Procs,
             Start(p) \/ Retry(p) \/ TabOffline(p) \/ TabOnline(p) \/ Quit(p)
      PROVE  SessionInv'
  BY <1>1, StartInv, TabOfflineInv, QuitInv
<1>2. CASE Stop
  BY <1>2, StopInv
<1>3. ASSUME NEW b \in Brokers, NEW e \in {0, 1}, SetConnection(b, e) PROVE SessionInv'
  BY <1>3, SetConnectionInv
<1>4. ASSUME NEW s \in Conns, ClientStep(s) PROVE SessionInv'
  BY <1>4, ConnectOkInv, ReadyInv, WelcomeInv, SnapshotInv, DropsInv, ErrorInv DEF ClientStep
<1>5. ASSUME NEW s \in Conns, BrokerStep(s) PROVE SessionInv'
  BY <1>5, ProbeInv, HelloInv, GoodbyeInv, LoseInv, SilenceInv DEF BrokerStep
<1>6. ASSUME NEW s \in Conns,
             \/ ConnectFails(s) \/ SlowHandshake(s) \/ Cut(s) \/ ProbeRefused(s) \/ JoinRefused(s)
             \/ SlowHello(s)
      PROVE  SessionInv'
  BY <1>6, DropsInv, SilenceInv, RefusedInv
<1>7. ASSUME NEW b \in Brokers, GraceEnds(b) \/ Restart(b) \/ RefreshNetworkAccess(b)
      PROVE  SessionInv'
  BY <1>7, GraceEndsInv, RestartInv, RefreshInv
<1> QED BY <1>1, <1>2, <1>3, <1>4, <1>5, <1>6, <1>7 DEF Next

\* All that SessionInv says of connections, clients and brokers holds at every
\* moment, whatever is cut, refused or restarted and however often the user moves.
THEOREM SessionsInv == Spec => []SessionInv
<1>1. Init => SessionInv
  BY InitInv
<1>2. SessionInv /\ [Next]_vars => SessionInv'
  BY NextInv
<1> QED BY <1>1, <1>2, PTL DEF Spec

\* Connections, clients and the books of the brokers keep their types.
THEOREM TypeCorrect == Spec => []TypeOK
<1>1. SessionInv => TypeOK
  BY DEF SessionInv
<1> QED BY <1>1, SessionsInv, PTL

\* A broker keeps a session either by a connection that is not closed and that
\* `clients` names, or by a timer that ends it.
THEOREM SessionsHeld == Spec => []SessionHeld
<1>1. SessionInv => SessionHeld
  BY DEF SessionInv, Held, SessionHeld
<1> QED BY <1>1, SessionsInv, PTL

\* Whoever uses a sound connection is in `clients` of its broker: no late close,
\* takeover or timer takes the entry away.
THEOREM EstablishedIsRegistered == Spec => []ConnectedIsRegistered
<1>1. SessionInv => ConnectedIsRegistered
  <2> SUFFICES ASSUME SessionInv, NEW p \in Procs, proc[p].sock # None,
                      conn[proc[p].sock].step = "live", conn[proc[p].sock].its = "open"
               PROVE  Entry(conn[proc[p].sock].id, proc[p].sock)
                        \in broker[conn[proc[p].sock].to].clients
    BY DEF ConnectedIsRegistered
  <2> DEFINE s == proc[p].sock
             b == conn[s].to
  <2>1. s \in Conns /\ s # None
    BY FromInv DEF ProcType
  <2>2. ConnRight(conn[s], Inst(b)) /\ BrokerRight(s)
    BY <2>1, FromInv
  <2> HIDE DEF s
  <2>3. conn[s].id # 0 /\ conn[s].step = "live" /\ conn[s].its = "open"
    BY <2>2 DEF ConnRight, Told, s
  <2>4. b \in Brokers
    BY <2>2, <2>3, InUse DEF ConnRight
  <2>5. broker[b].sock = s /\ Held(b)
    BY <2>2, <2>3, <2>4 DEF BrokerRight, SessionInv
  <2>6. Entry(conn[s].id, s) \in broker[b].clients
    BY <2>1, <2>5 DEF Held
  <2> QED BY <2>6 DEF s
<1> QED BY <1>1, SessionsInv, PTL

\* clientId and resumeToken reach only the instance of the broker that gave them.
THEOREM CredentialsStayHome == Spec => []CredentialsGoHome
<1>1. SessionInv => CredentialsGoHome
  <2> SUFFICES ASSUME SessionInv, NEW s \in Conns, conn[s].its # "closed",
                      NEW i \in DOMAIN conn[s].up, conn[s].up[i].cred.id # 0
               PROVE  LET cred == conn[s].up[i].cred
                      IN  cred.from = conn[s].to /\ cred.inst = broker[cred.from].inst
    BY DEF CredentialsGoHome
  <2>1. ConnRight(conn[s], Inst(conn[s].to)) /\ conn[s].up[i] \in Under(conn[s].up)
    BY FromInv DEF Under
  <2> QED BY <2>1 DEF ConnRight, CredsRight, Of, Inst
<1> QED BY <1>1, SessionsInv, PTL

\* One Pi has one connection that it has not left.
THEOREM PiHasOneConnection == Spec => []OneConnection
<1>1. SessionInv => OneConnection
  BY FromInv DEF OneConnection, PiRight
<1> QED BY <1>1, SessionsInv, PTL

------------------------------------------------------------------------------
(* The promise of SessionPromise                                             *)

\* A record with the fields of a connection
Fields == {"by", "to", "cut", "mine", "its", "step", "probed", "id", "up", "down"}
Shaped(c) == c = [f \in Fields |-> c[f]]

\* What is done to a connection that leaves the broker's end as it is, and what
\* the broker does to end it
As(d, c) == Shaped(d) /\ d.its = c.its
Ended(d) == Shaped(d) /\ d.its # "open"

LEMMA ShapedConn ==
  /\ \A c \in ConnType : Shaped(c)
  /\ Shaped(Closed) /\ Closed.its = "closed"
BY DEF ConnType, Shaped, Closed, Fields

LEMMA FieldSet ==
  ASSUME NEW c, Shaped(c), NEW e
  PROVE  /\ As([c EXCEPT !.up = e], c) /\ As([c EXCEPT !.down = e], c)
         /\ As([c EXCEPT !.mine = e], c) /\ As([c EXCEPT !.step = e], c)
         /\ As([c EXCEPT !.probed = e], c) /\ As([c EXCEPT !.id = e], c)
         /\ As([c EXCEPT !.cut = e], c)
BY DEF As, Shaped, Fields

LEMMA AsChain == \A c, d, e : As(d, c) /\ As(e, d) => As(e, c)
  BY DEF As

LEMMA EndsKept ==
  ASSUME NEW c, Shaped(c)
  PROVE  /\ \A q : As(ToBroker(c, q), c) /\ As(ToClient(c, q), c)
         /\ As(ClientEnd(c), c) /\ As(ClientClose(c), c)
         /\ Ended(BrokerEnd(c)) /\ Ended(BrokerDestroy(c)) /\ Ended(BrokerClose(c))
<1>0. As(c, c)
  BY DEF As
<1>1. ASSUME NEW q PROVE As(ToBroker(c, q), c) /\ As(ToClient(c, q), c)
  BY <1>0, FieldSet DEF ToBroker, ToClient
<1>2. As(ClientEnd(c), c)
  <2> DEFINE d == ToBroker(c, <<Fin>>)
  <2>1. As(d, c) /\ Shaped(d)
    BY <1>1 DEF As
  <2>2. ClientEnd(c) = c \/ ClientEnd(c) = [d EXCEPT !.mine = "ended"]
    BY DEF ClientEnd
  <2> HIDE DEF d
  <2>3. As([d EXCEPT !.mine = "ended"], d)
    BY <2>1, FieldSet
  <2> QED BY <1>0, <2>1, <2>2, <2>3, AsChain
<1>3. Ended(BrokerEnd(c))
  <2> DEFINE d == ToClient(c, <<Fin>>)
  <2>1. As(d, c) /\ Shaped(d)
    BY <1>1 DEF As
  <2>2. \/ c.its # "open" /\ BrokerEnd(c) = c
        \/ BrokerEnd(c) = [d EXCEPT !.its = "ended"]
    BY DEF BrokerEnd
  <2> HIDE DEF d
  <2> QED BY <2>1, <2>2 DEF As, Ended, Shaped, Fields
<1>4. Ended(BrokerDestroy(c))
  <2> DEFINE d == IF c.its = "open" THEN ToClient(c, <<Fin>>) ELSE c
  <2>1. Shaped(d)
    BY <1>1 DEF As
  <2>2. \/ c.its = "closed" /\ BrokerDestroy(c) = c
        \/ BrokerDestroy(c) = [d EXCEPT !.its = "destroyed", !.up = <<>>]
    BY DEF BrokerDestroy
  <2> HIDE DEF d
  <2> QED BY <2>1, <2>2 DEF Ended, Shaped, Fields
<1>5. As(ClientClose(c), c)
  <2> DEFINE d == ClientEnd(c)
             e == [d EXCEPT !.mine = "closed", !.down = <<>>]
  <2>1. As(d, c) /\ Shaped(d)
    BY <1>2 DEF As
  <2> HIDE DEF d
  <2>2. As(e, d)
    BY <2>1 DEF As, Shaped, Fields
  <2>3. ClientClose(c) = e \/ (e.its = "closed" /\ ClientClose(c) = Closed)
    BY DEF ClientClose, Gone, d
  <2> HIDE DEF e
  <2> QED BY <2>1, <2>2, <2>3, AsChain, ShapedConn DEF As
<1>6. Ended(BrokerClose(c))
  <2> DEFINE d == BrokerEnd(c)
             e == [d EXCEPT !.its = "closed", !.up = <<>>]
  <2>1. Shaped(d)
    BY <1>3 DEF Ended
  <2> HIDE DEF d
  <2>2. Ended(e)
    BY <2>1 DEF Ended, Shaped, Fields
  <2>3. BrokerClose(c) = e \/ BrokerClose(c) = Closed
    BY DEF BrokerClose, Gone, d
  <2> HIDE DEF e
  <2> QED BY <2>2, <2>3, ShapedConn DEF Ended
<1> QED BY <1>1, <1>2, <1>3, <1>4, <1>5, <1>6

PromisedStep == [Promised!Next]_(Promised!vars)

\* The connections that brokers have not ended
OpenEnds == {s \in Conns : conn[s].its = "open"}
SameEnds == \A s \in Conns : conn'[s].its = "open" <=> conn[s].its = "open"

LEMMA SameEndsStep ==
  ASSUME broker' = broker, SameEnds
  PROVE  PromisedStep
BY DEF PromisedStep, Promised!vars, SameEnds

\* Where every connection has been changed without ending the broker's end
LEMMA AsStep ==
  ASSUME broker' = broker, \A s \in Conns : As(conn'[s], conn[s])
  PROVE  PromisedStep
BY SameEndsStep DEF SameEnds, As

LEMMA OneStep ==
  ASSUME SessionInv, broker' = broker, NEW s \in Conns, NEW d, As(d, conn[s]),
         conn' = [conn EXCEPT ![s] = d]
  PROVE  PromisedStep
<1>1. /\ conn \in [Conns -> ConnType] /\ \A t \in Conns : conn[t] \in ConnType
  BY FromInv
<1>2. \A t \in Conns : As(conn[t], conn[t])
  BY <1>1, ShapedConn DEF As
<1>3. conn'[s] = d /\ \A t \in Conns : t # s => conn'[t] = conn[t]
  BY <1>1
<1> QED BY <1>2, <1>3, AsStep

\* The broker ends one connection.
LEMMA EndStep ==
  ASSUME SessionInv, broker' = broker, NEW s \in Conns, NEW d, Ended(d),
         conn' = [conn EXCEPT ![s] = d]
  PROVE  PromisedStep
<1>1. conn'[s] = d /\ \A t \in Conns : t # s => conn'[t] = conn[t]
  BY FromInv
<1>2. OpenEnds' = OpenEnds \ {s}
  BY <1>1 DEF OpenEnds, Ended
<1>3. Promised!End(s)
  BY <1>2 DEF Promised!End, OpenEnds
<1> QED BY <1>3 DEF PromisedStep, Promised!Next

LEMMA SameStep ==
  ASSUME broker' = broker, conn' = conn
  PROVE  PromisedStep
BY SameEndsStep DEF SameEnds

\* A connection as it is, and when its client or its broker took a message
LEMMA TookAs ==
  ASSUME SessionInv, NEW s \in Conns
  PROVE  /\ Shaped(conn[s]) /\ As(conn[s], conn[s])
         /\ As(ClientTook(s), conn[s]) /\ As(BrokerTook(s), conn[s])
         /\ Shaped(ClientTook(s)) /\ Shaped(BrokerTook(s))
<1>1. Shaped(conn[s])
  BY FromInv, ShapedConn
<1> QED BY <1>1, FieldSet DEF As, ClientTook, BrokerTook

LEMMA DropStep ==
  ASSUME SessionInv, NEW s \in Conns, NEW c, NEW P, As(c, conn[s]), Drop(s, c, P), broker' = broker
  PROVE  PromisedStep
<1>1. Shaped(c) /\ As(ClientClose(c), c)
  BY EndsKept DEF As
<1>2. As(ClientClose(c), conn[s])
  BY <1>1, AsChain
<1> QED BY <1>2, OneStep DEF Drop

LEMMA ConnectingStep ==
  ASSUME SessionInv, NEW p, NEW P, NEW cs, DOMAIN cs = Conns, cs = [s \in Conns |-> cs[s]],
         Connecting(p, P, cs),
         \A s \in Conns : As(cs[s], conn[s]), broker' = broker
  PROVE  PromisedStep
<1>1. CASE conn' = cs
  BY <1>1, AsStep
<1>2. ASSUME NEW s \in Free(cs),
             conn' = [cs EXCEPT ![s] = [Closed EXCEPT !.by = p, !.to = P.target, !.mine = "open",
                                                       !.step = "connecting"]]
      PROVE  PromisedStep
  <2> DEFINE d == [Closed EXCEPT !.by = p, !.to = P.target, !.mine = "open", !.step = "connecting"]
  <2>1. As(d, Closed)
    BY DEF As, Shaped, Closed, Fields
  <2>2. conn' = [cs EXCEPT ![s] = d]
    BY <1>2
  <2> HIDE DEF d
  <2>3. s \in Conns /\ cs[s] = Closed
    BY DEF Free
  <2>4. conn'[s] = d /\ \A t \in Conns : t # s => conn'[t] = cs[t]
    BY <2>2, <2>3
  <2>5. As(d, conn[s])
    BY <2>1, <2>3, AsChain
  <2> QED BY <2>4, <2>5, AsStep
<1> QED BY <1>1, <1>2 DEF Connecting

\* Clients read, begin again, leave and are lost: no broker's end closes or opens.
LEMMA ReadingStep ==
  ASSUME SessionInv, NEW s \in Conns,
         \/ Ready(s) \/ Welcome(s) \/ Snapshot(s) \/ \E why \in ErrorCodes : Error(s, why)
  PROVE  PromisedStep
<1> DEFINE c == ClientTook(s)
<1>0. Shaped(c) /\ As(c, conn[s])
  BY TookAs
<1> HIDE DEF c
<1>1. ASSUME NEW e PROVE As([c EXCEPT !.step = e], conn[s]) /\ Shaped([c EXCEPT !.step = e])
  BY <1>0, FieldSet, AsChain DEF As
<1>2. ASSUME NEW e, Shaped(e), As(e, conn[s]), NEW q PROVE As(ToBroker(e, q), conn[s])
  BY <1>2, EndsKept, AsChain
<1>3. As(ClientEnd(c), conn[s])
  BY <1>0, EndsKept, AsChain
<1>4. CASE Ready(s)
  <2>1. broker' = broker
    BY <1>4 DEF Ready
  <2>2. ASSUME NEW P, Drop(s, c, P) PROVE PromisedStep
    BY <1>0, <2>1, <2>2, DropStep
  <2>3. ASSUME NEW q, conn' = [conn EXCEPT ![s] = ToBroker([c EXCEPT !.step = "hello"], q)]
        PROVE  PromisedStep
    <3>1. As(ToBroker([c EXCEPT !.step = "hello"], q), conn[s])
      BY <1>1, <1>2
    <3> QED BY <2>1, <2>3, <3>1, OneStep
  <2>4. \/ \E P : Drop(s, c, P)
        \/ \E q : conn' = [conn EXCEPT ![s] = ToBroker([c EXCEPT !.step = "hello"], q)]
    BY <1>4 DEF Ready, c
  <2> QED BY <2>2, <2>3, <2>4
<1>5. CASE Welcome(s)
  <2> DEFINE next == [c EXCEPT !.step = IF @ = "hello" THEN "welcomed" ELSE @]
  <2>1. As(next, conn[s]) /\ Shaped(next)
    BY <1>1
  <2>2. \/ conn' = [conn EXCEPT ![s] = next]
        \/ \E q : conn' = [conn EXCEPT ![s] = ToBroker(next, q)]
        \/ conn' = [conn EXCEPT ![s] = c]
    BY <1>5 DEF Welcome, c
  <2> HIDE DEF next
  <2>3. broker' = broker
    BY <1>5 DEF Welcome
  <2>4. ASSUME NEW q, conn' = [conn EXCEPT ![s] = ToBroker(next, q)] PROVE PromisedStep
    <3>1. As(ToBroker(next, q), conn[s])
      BY <1>2, <2>1
    <3> QED BY <2>3, <2>4, <3>1, OneStep
  <2> QED BY <1>0, <2>1, <2>2, <2>3, <2>4, OneStep
<1>6. CASE Snapshot(s)
  <2>1. \/ conn' = [conn EXCEPT ![s] = c]
        \/ conn' = [conn EXCEPT ![s] = [c EXCEPT !.step = "live"]]
    BY <1>6 DEF Snapshot, c
  <2>2. broker' = broker
    BY <1>6 DEF Snapshot
  <2> QED BY <1>0, <1>1, <2>1, <2>2, OneStep
<1>7. ASSUME NEW why \in ErrorCodes, Error(s, why) PROVE PromisedStep
  <2>1. \/ \E P : Drop(s, c, P)
        \/ conn' = [conn EXCEPT ![s] = ClientEnd(c)]
        \/ conn' = [conn EXCEPT ![s] = c]
    BY <1>7 DEF Error, c
  <2>2. broker' = broker
    BY <1>7 DEF Error
  <2>3. ASSUME NEW P, Drop(s, c, P) PROVE PromisedStep
    BY <1>0, <2>2, <2>3, DropStep
  <2> QED BY <1>0, <1>3, <2>1, <2>2, <2>3, OneStep
<1> QED BY <1>4, <1>5, <1>6, <1>7

LEMMA DropsStep ==
  ASSUME SessionInv, NEW s \in Conns,
         \/ ClientFin(s) \/ ClientSilence(s) \/ ConnectFails(s) \/ SlowHandshake(s)
  PROVE  PromisedStep
<1>1. \E P : Drop(s, conn[s], P)
  BY DEF ClientFin, ClientSilence, ConnectFails, SlowHandshake
<1>2. broker' = broker
  BY DEF ClientFin, ClientSilence, ConnectFails, SlowHandshake
<1> QED BY <1>1, <1>2, TookAs, DropStep

LEMMA OpeningStep ==
  ASSUME SessionInv, NEW p \in Procs, Start(p) \/ Retry(p) \/ TabOnline(p)
  PROVE  PromisedStep
<1>1. \E q, P : Connecting(q, P, conn)
  BY DEF Start, Retry, TabOnline
<1>2. broker' = broker
  BY DEF Start, Retry, TabOnline
<1>3. DOMAIN conn = Conns /\ conn = [s \in Conns |-> conn[s]] /\ \A s \in Conns : As(conn[s], conn[s])
  BY FromInv, TookAs
<1> QED BY <1>1, <1>2, <1>3, ConnectingStep

LEMMA MovingStep ==
  ASSUME SessionInv, NEW b \in Brokers, NEW e, SetConnection(b, e)
  PROVE  PromisedStep
<1> DEFINE s == proc[Pi].sock
           cs == IF s = None THEN conn ELSE [conn EXCEPT ![s] = ClientClose(@)]
<1>1. Connecting(Pi, Moved(proc[Pi], b, e), cs) /\ broker' = broker
  BY DEF SetConnection
<1>2. conn \in [Conns -> ConnType] /\ \A t \in Conns : Shaped(conn[t]) /\ As(conn[t], conn[t])
  BY FromInv, TookAs
<1>3. DOMAIN cs = Conns /\ cs = [t \in Conns |-> cs[t]]
  BY <1>2
<1>4. ASSUME NEW t \in Conns PROVE As(cs[t], conn[t])
  <2>1. cs[t] = conn[t] \/ cs[t] = ClientClose(conn[t])
    BY <1>2
  <2>2. As(ClientClose(conn[t]), conn[t])
    BY <1>2, EndsKept
  <2> QED BY <1>2, <2>1, <2>2
<1> HIDE DEF cs
<1> QED BY <1>1, <1>3, <1>4, ConnectingStep

LEMMA LeavingStep ==
  ASSUME SessionInv, Stop \/ (\E t \in Procs : TabOffline(t)) \/ (\E p \in Procs : Quit(p))
  PROVE  PromisedStep
<1>0. conn \in [Conns -> ConnType] /\ \A t \in Conns : Shaped(conn[t]) /\ As(conn[t], conn[t])
  BY FromInv, TookAs
<1>1. CASE Stop
  <2> DEFINE s == proc[Pi].sock
             d == ToBroker(conn[s], <<Msg("goodbye")>>)
             e == ClientEnd(d)
             f == [e EXCEPT !.step = IF @ = "live" THEN "left" ELSE @]
  <2>1. broker' = broker
    BY <1>1 DEF Stop
  <2>2. \/ conn' = conn
        \/ s # None /\ \E P : Drop(s, conn[s], P)
        \/ s # None /\ conn' = [conn EXCEPT ![s] = f]
    BY <1>1 DEF Stop
  <2>3. s # None => s \in Conns
    BY FromInv DEF ProcType
  <2>4. s \in Conns => As(f, conn[s])
    <3> SUFFICES ASSUME s \in Conns PROVE As(f, conn[s])
      OBVIOUS
    <3>1. As(d, conn[s]) /\ Shaped(d)
      BY <1>0, EndsKept DEF As
    <3> HIDE DEF d
    <3>2. As(e, d) /\ Shaped(e)
      BY <3>1, EndsKept DEF As
    <3> HIDE DEF e
    <3>3. As(f, e)
      BY <3>2, FieldSet
    <3> QED BY <3>1, <3>2, <3>3, AsChain
  <2> HIDE DEF f, s
  <2> QED BY <1>0, <2>1, <2>2, <2>3, <2>4, SameStep, DropStep, OneStep
<1>2. ASSUME NEW t \in Procs, TabOffline(t) PROVE PromisedStep
  <2> DEFINE s == proc[t].sock
  <2>1. broker' = broker /\ s \in Conns
    BY <1>2, FromInv DEF TabOffline, ProcType
  <2>2. (\E P : Drop(s, conn[s], P)) \/ conn' = [conn EXCEPT ![s] = ClientEnd(conn[s])]
    BY <1>2 DEF TabOffline
  <2> HIDE DEF s
  <2>3. As(ClientEnd(conn[s]), conn[s])
    BY <1>0, <2>1, EndsKept
  <2> QED BY <1>0, <2>1, <2>2, <2>3, DropStep, OneStep
<1>3. ASSUME NEW p \in Procs, Quit(p) PROVE PromisedStep
  <2>1. /\ broker' = broker
        /\ \A s \in Conns : conn'[s] = ClientClose(conn[s]) \/ conn'[s] = conn[s]
    BY <1>3 DEF Quit
  <2>2. \A s \in Conns : As(ClientClose(conn[s]), conn[s])
    BY <1>0, EndsKept
  <2> QED BY <1>0, <2>1, <2>2, AsStep
<1> QED BY <1>1, <1>2, <1>3

\* Brokers answer and refuse.
LEMMA AnsweringStep ==
  ASSUME SessionInv, NEW s \in Conns,
         \/ Probe(s) \/ WebHello(s) \/ ProbeRefused(s) \/ JoinRefused(s) \/ SlowHello(s)
         \/ BrokerSilence(s) \/ Cut(s)
  PROVE  PromisedStep
<1> DEFINE c == BrokerTook(s)
<1>0. Shaped(c) /\ As(c, conn[s]) /\ Shaped(conn[s]) /\ As(conn[s], conn[s])
  BY TookAs
<1>1. broker' = broker
  BY DEF Probe, WebHello, ProbeRefused, JoinRefused, SlowHello, BrokerSilence, Cut
<1>2. /\ As([c EXCEPT !.probed = TRUE], conn[s]) /\ Shaped([c EXCEPT !.probed = TRUE])
      /\ As([[conn[s] EXCEPT !.cut = TRUE, !.up = <<>>] EXCEPT !.down = <<>>], conn[s])
  <2> HIDE DEF c
  <2>1. As([c EXCEPT !.probed = TRUE], conn[s]) /\ Shaped([c EXCEPT !.probed = TRUE])
    BY <1>0, FieldSet, AsChain DEF As
  <2>2. As([[conn[s] EXCEPT !.cut = TRUE, !.up = <<>>] EXCEPT !.down = <<>>], conn[s])
    BY <1>0 DEF As, Shaped, Fields
  <2> QED BY <2>1, <2>2
<1>3. ASSUME NEW e, Shaped(e), As(e, conn[s]), NEW q
      PROVE  As(ToClient(e, q), conn[s]) /\ Ended(BrokerEnd(ToClient(e, q)))
  <2>1. As(ToClient(e, q), e) /\ Shaped(ToClient(e, q))
    BY <1>3, EndsKept DEF As
  <2>2. Ended(BrokerEnd(ToClient(e, q)))
    BY <2>1, EndsKept
  <2> QED BY <1>3, <2>1, <2>2, AsChain
<1>4. Ended(BrokerEnd(conn[s]))
  BY <1>0, EndsKept
<1>5. CASE Probe(s)
  <2>1. \E q : conn' = [conn EXCEPT ![s] = ToClient([c EXCEPT !.probed = TRUE], q)]
    BY <1>5 DEF Probe
  <2> HIDE DEF c
  <2> QED BY <1>1, <1>2, <1>3, <2>1, OneStep
<1>6. CASE WebHello(s)
  <2>1. \E q : conn' = [conn EXCEPT ![s] = ToClient([c EXCEPT !.probed = TRUE], q)]
    BY <1>6 DEF WebHello
  <2> HIDE DEF c
  <2> QED BY <1>1, <1>2, <1>3, <2>1, OneStep
<1>7. CASE ProbeRefused(s) \/ JoinRefused(s)
  <2>1. \E q : conn' = [conn EXCEPT ![s] = BrokerEnd(ToClient(c, q))]
    BY <1>7 DEF ProbeRefused, JoinRefused
  <2> HIDE DEF c
  <2> QED BY <1>0, <1>1, <1>3, <2>1, EndStep
<1>8. CASE SlowHello(s)
  <2>1. \E q : conn' = [conn EXCEPT ![s] = BrokerEnd(ToClient(conn[s], q))]
    BY <1>8 DEF SlowHello
  <2> QED BY <1>0, <1>1, <1>3, <2>1, EndStep
<1>9. CASE BrokerSilence(s)
  BY <1>1, <1>4, <1>9, EndStep DEF BrokerSilence
<1>10. CASE Cut(s)
  <2>1. conn' = [conn EXCEPT ![s] = [[conn[s] EXCEPT !.cut = TRUE, !.up = <<>>] EXCEPT !.down = <<>>]]
    BY <1>10 DEF Cut
  <2> QED BY <1>1, <1>2, <2>1, OneStep
<1> QED BY <1>5, <1>6, <1>7, <1>8, <1>9, <1>10

\* Nobody else holds the connection of a session.
LEMMA HeldOnce ==
  ASSUME SessionInv, NEW b \in Brokers, broker[b].sock # None
  PROVE  /\ broker[b].id # 0 /\ broker[b].clients = {Entry(broker[b].id, broker[b].sock)}
         /\ broker[b].sock \in Conns /\ broker[b].grace = 0
         /\ conn[broker[b].sock].id = broker[b].id
         /\ conn[broker[b].sock].to = b /\ conn[broker[b].sock].its # "closed"
BY FromInv DEF SessionInv, Held, BrokerType

LEMMA RefreshStep ==
  ASSUME SessionInv, NEW b \in Brokers, RefreshNetworkAccess(b)
  PROVE  PromisedStep
<1> DEFINE S == {x.sock : x \in broker[b].clients}
           out(s) == BrokerEnd(ToClient(conn[s], <<Msg("network_unavailable")>>))
<1>1. broker' = broker /\ conn' = [s \in Conns |-> IF s \in S THEN out(s) ELSE conn[s]]
  BY DEF RefreshNetworkAccess
<1>2. ASSUME NEW s \in Conns PROVE Ended(out(s))
  <2>1. Shaped(ToClient(conn[s], <<Msg("network_unavailable")>>))
    BY TookAs, EndsKept DEF As
  <2> QED BY <2>1, EndsKept
<1> HIDE DEF out
<1>3. S \subseteq {broker[b].sock} /\ (S # {} => broker[b].sock \in Conns)
  <2>1. CASE broker[b].sock = None
    <3>1. broker[b].clients = {}
      BY <2>1 DEF SessionInv, Held
    <3> QED BY <3>1
  <2>2. CASE broker[b].sock # None
    <3>1. broker[b].clients = {Entry(broker[b].id, broker[b].sock)} /\ broker[b].sock \in Conns
      BY <2>2, HeldOnce
    <3> QED BY <3>1 DEF Entry
  <2> QED BY <2>1, <2>2
<1>4. CASE S = {}
  <2>1. \A s \in Conns : conn'[s] = conn[s]
    BY <1>1, <1>4
  <2> QED BY <1>1, <2>1, SameEndsStep DEF SameEnds
<1>5. CASE S # {}
  <2>1. PICK s \in Conns : S = {s}
    BY <1>3, <1>5
  <2>2. conn' = [conn EXCEPT ![s] = out(s)]
    BY <1>1, <2>1, FromInv
  <2> QED BY <1>1, <1>2, <2>2, EndStep
<1> QED BY <1>4, <1>5

\* One broker changes its books.
LEMMA BookChange ==
  ASSUME SessionInv, NEW b \in Brokers, NEW C, broker' = [broker EXCEPT ![b] = C]
  PROVE  /\ [x \in Brokers |-> broker[x].sock]' = [[x \in Brokers |-> broker[x].sock] EXCEPT ![b] = C.sock]
         /\ [x \in Brokers |-> broker[x].id]' = [[x \in Brokers |-> broker[x].id] EXCEPT ![b] = C.id]
         /\ [x \in Brokers |-> broker[x].inst]' = [[x \in Brokers |-> broker[x].inst] EXCEPT ![b] = C.inst]
         /\ broker'[b] = C /\ \A x \in Brokers : x # b => broker'[x] = broker[x]
<1>1. broker'[b] = C /\ \A x \in Brokers : x # b => broker'[x] = broker[x]
  BY FromInv
<1>2. [x \in Brokers |-> broker[x].sock]' = [[x \in Brokers |-> broker[x].sock] EXCEPT ![b] = C.sock]
  <2>1. \A x \in Brokers : broker'[x].sock = IF x = b THEN C.sock ELSE broker[x].sock
    BY <1>1
  <2>2. [x \in Brokers |-> broker'[x].sock] = [x \in Brokers |-> IF x = b THEN C.sock ELSE broker[x].sock]
    BY <2>1
  <2> QED BY <2>2
<1>3. [x \in Brokers |-> broker[x].id]' = [[x \in Brokers |-> broker[x].id] EXCEPT ![b] = C.id]
  <2>1. \A x \in Brokers : broker'[x].id = IF x = b THEN C.id ELSE broker[x].id
    BY <1>1
  <2>2. [x \in Brokers |-> broker'[x].id] = [x \in Brokers |-> IF x = b THEN C.id ELSE broker[x].id]
    BY <2>1
  <2> QED BY <2>2
<1>4. [x \in Brokers |-> broker[x].inst]' = [[x \in Brokers |-> broker[x].inst] EXCEPT ![b] = C.inst]
  <2>1. \A x \in Brokers : broker'[x].inst = IF x = b THEN C.inst ELSE broker[x].inst
    BY <1>1
  <2>2. [x \in Brokers |-> broker'[x].inst] = [x \in Brokers |-> IF x = b THEN C.inst ELSE broker[x].inst]
    BY <2>1
  <2> QED BY <2>2
<1> QED BY <1>1, <1>2, <1>3, <1>4

\* The broker's end of a connection opens.
LEMMA ConnectOkStep ==
  ASSUME SessionInv, NEW s \in Conns, ConnectOk(s)
  PROVE  PromisedStep
<1>1. conn[s].its = "closed" /\ conn \in [Conns -> ConnType] /\ Shaped(conn[s])
  BY FromInv, TookAs DEF ConnectOk, ConnRight, Begun
<1>2. conn'[s].its = "open" /\ \A t \in Conns : t # s => conn'[t] = conn[t]
  BY <1>1 DEF ConnectOk, Shaped, Fields
<1>3. OpenEnds' = OpenEnds \cup {s} /\ s \notin OpenEnds
  BY <1>1, <1>2 DEF OpenEnds
<1>4. broker' = broker
  BY DEF ConnectOk
<1>5. Promised!Accept(s)
  BY <1>3, <1>4 DEF Promised!Accept, OpenEnds
<1> QED BY <1>5 DEF PromisedStep, Promised!Next

\* Whoever had the session loses its connection only.
LEMMA RegisteredStep ==
  ASSUME SessionInv, NEW s \in Conns, NEW c, As(c, conn[s]), c.its # "closed", c.to = conn[s].to,
         c.to \in Brokers, Registered(s, c)
  PROVE  PromisedStep
<1> DEFINE b == c.to
           B == broker[b]
           id == IF B.id = 0 THEN FreshId ELSE B.id
           d == ToClient([c EXCEPT !.id = id],
                  <<MsgWith("welcome", CredOf(b, id), 0), Msg("snapshot")>>)
           o == B.sock
           C == [B EXCEPT !.id = id, !.sock = s, !.grace = 0,
                          !.clients = {x \in @ : x.id # id} \cup {Entry(id, s)}]
<1>0. /\ conn \in [Conns -> ConnType] /\ \A t \in Conns : Shaped(conn[t]) /\ As(conn[t], conn[t])
      /\ broker \in [Brokers -> BrokerType] /\ B \in BrokerType /\ None \notin Conns
  BY FromInv, TookAs
<1>1. id # 0
  <2>1. CASE B.id = 0
    <3>1. FreshId \in Ids
      BY <2>1 DEF FreshId, Registered
    <3> QED BY <2>1, <3>1 DEF Ids
  <2>2. CASE B.id # 0
    BY <2>2
  <2> QED BY <2>1, <2>2
<1>2. C.id = id /\ C.sock = s /\ C.inst = B.inst
  BY <1>0 DEF BrokerType
<1>3. broker' = [broker EXCEPT ![b] = C]
  BY DEF Registered
<1>4. As(d, conn[s])
  <2>0. \A x : As([c EXCEPT !.id = x], c) /\ Shaped([c EXCEPT !.id = x])
    BY FieldSet DEF As
  <2> HIDE DEF id
  <2>1. As([c EXCEPT !.id = id], c) /\ Shaped([c EXCEPT !.id = id])
    BY <2>0
  <2>2. As(d, [c EXCEPT !.id = id])
    BY <2>1, EndsKept
  <2> HIDE DEF d
  <2> QED BY <2>1, <2>2, AsChain
<1>5. OpenEnds' \ {s} = OpenEnds \ {s, o} /\ (s \in OpenEnds => s \in OpenEnds')
  <2> DEFINE told == [conn EXCEPT ![s] = d]
             out == IF c.by = Pi THEN BrokerDestroy(told[o])
                    ELSE BrokerEnd(ToClient(told[o], <<Msg("session_in_use")>>))
  <2>1. conn' = IF o \in {None, s} THEN told ELSE [told EXCEPT ![o] = out]
    BY DEF Registered
  <2> HIDE DEF d, C, id
  <2>2. told[s] = d /\ (\A t \in Conns : t # s => told[t] = conn[t]) /\ DOMAIN told = Conns
    BY <1>0
  <2>3. \A t \in Conns : As(told[t], conn[t])
    BY <1>0, <1>4, <2>2
  <2>4. CASE o \in {None, s}
    <3>1. \A t \in Conns : conn'[t].its = conn[t].its
      BY <2>1, <2>3, <2>4 DEF As
    <3> QED BY <1>0, <2>4, <3>1 DEF OpenEnds
  <2>5. CASE o \notin {None, s}
    <3>1. o \in Conns
      BY <2>5, <1>0 DEF BrokerType
    <3>2. Ended(out)
      <4> HIDE DEF o, told
      <4>1. Shaped(told[o])
        BY <2>3, <3>1 DEF As
      <4>2. Shaped(ToClient(told[o], <<Msg("session_in_use")>>))
        BY <4>1, EndsKept DEF As
      <4> QED BY <4>1, <4>2, EndsKept
    <3> HIDE DEF out, told
    <3>3. \A t \in Conns : conn'[t] = IF t = o THEN out ELSE told[t]
      BY <2>1, <2>2, <2>5, <3>1
    <3>4. conn'[o].its # "open" /\ \A t \in Conns : t # o => conn'[t].its = conn[t].its
      BY <2>3, <3>1, <3>2, <3>3 DEF As, Ended
    <3> QED BY <2>5, <3>1, <3>4 DEF OpenEnds
  <2> QED BY <2>4, <2>5
<1>8. \A y \in Brokers : broker[y].sock = s => y = b
  BY <1>0, HeldOnce
<1> HIDE DEF C, id, d
<1>9. /\ [x \in Brokers |-> broker[x].sock]' = [[x \in Brokers |-> broker[x].sock] EXCEPT ![b] = s]
      /\ [x \in Brokers |-> broker[x].id]' = [[x \in Brokers |-> broker[x].id] EXCEPT ![b] = id]
      /\ [x \in Brokers |-> broker[x].inst]' = [x \in Brokers |-> broker[x].inst]
      /\ broker'[b].id = id
  <2>1. /\ [x \in Brokers |-> broker[x].sock]' = [[x \in Brokers |-> broker[x].sock] EXCEPT ![b] = C.sock]
        /\ [x \in Brokers |-> broker[x].id]' = [[x \in Brokers |-> broker[x].id] EXCEPT ![b] = C.id]
        /\ [x \in Brokers |-> broker[x].inst]' = [[x \in Brokers |-> broker[x].inst] EXCEPT ![b] = C.inst]
        /\ broker'[b] = C
    BY <1>3, BookChange
  <2> QED BY <1>2, <2>1
<1>10. B.id # 0 => id = B.id
  BY DEF id
<1>11. Promised!Take(b, s)
  BY <1>1, <1>5, <1>8, <1>9, <1>10 DEF Promised!Take, OpenEnds
<1> QED BY <1>11 DEF PromisedStep, Promised!Next

LEMMA HelloStep ==
  ASSUME SessionInv, NEW s \in Conns, Hello(s) \/ WebJoin(s)
  PROVE  PromisedStep
<1> DEFINE c == BrokerTook(s)
           t == IF Hello(s) THEN "hello" ELSE "join"
<1>1. /\ c.its # "closed" /\ c.to \in Brokers /\ c.to = conn[s].to
  <2>1. BrokerReads(s, t)
    BY DEF Hello, WebJoin
  <2> QED BY <2>1, BrokerReadsRight
<1>2. \/ Registered(s, c)
      \/ \E why : Rejected(s, c, why)
  BY DEF Hello, WebJoin
<1>3. As(c, conn[s])
  BY TookAs
<1> HIDE DEF c, t
<1>4. CASE Registered(s, c)
  BY <1>1, <1>3, <1>4, RegisteredStep
<1>5. ASSUME NEW why, Rejected(s, c, why) PROVE PromisedStep
  <2> DEFINE d == ToClient(c, <<Msg(why)>>)
  <2>1. conn' = [conn EXCEPT ![s] = BrokerEnd(d)] /\ broker' = broker
    BY <1>5 DEF Rejected
  <2>2. As(d, c) /\ Shaped(d)
    BY <1>3, EndsKept DEF As
  <2> HIDE DEF d
  <2>3. Ended(BrokerEnd(d))
    BY <2>2, EndsKept
  <2> QED BY <2>1, <2>3, EndStep
<1> QED BY <1>2, <1>4, <1>5

\* Only the session's own connection says goodbye for it.
LEMMA GoodbyeStep ==
  ASSUME SessionInv, NEW s \in Conns, Goodbye(s)
  PROVE  PromisedStep
<1> DEFINE old == conn[s]
           c == BrokerTook(s)
           b == c.to
           B == broker[b]
           C == [B EXCEPT !.id = 0, !.sock = None, !.grace = 0, !.clients = @ \ {Entry(c.id, s)}]
<1>1. /\ ConnRight(c, Inst(old.to)) /\ c.its = old.its
      /\ c.its # "closed" /\ c.to \in Brokers
      /\ c.by = old.by /\ c.to = old.to /\ c.id = old.id /\ c.mine = old.mine
      /\ Head(old.up) \in Messages /\ Head(old.up) \in Under(old.up)
      /\ Head(old.up).type = "goodbye"
  BY BrokerReadsRight DEF Goodbye
<1>2. /\ ConnRight(old, Inst(old.to)) /\ BrokerRight(s) /\ B \in BrokerType
      /\ As(c, old) /\ Shaped(c) /\ None \notin Conns
  BY <1>1, FromInv, TookAs
<1>3. CASE c.id = 0
  <2> DEFINE d == ToClient(c, <<Msg("invalid_payload")>>)
  <2>1. conn' = [conn EXCEPT ![s] = d] /\ broker' = broker
    BY <1>3 DEF Goodbye
  <2> HIDE DEF c
  <2>2. As(d, c)
    BY <1>2, EndsKept
  <2> HIDE DEF d, old
  <2>3. As(d, conn[s])
    BY <1>2, <2>2, AsChain DEF old
  <2> QED BY <2>1, <2>3, OneStep
<1>4. CASE c.id # 0
  <2> DEFINE d == BrokerEnd(c)
  <2>1. conn' = [conn EXCEPT ![s] = d] /\ broker' = [broker EXCEPT ![b] = C]
    BY <1>4 DEF Goodbye
  <2>2. old.by = Pi /\ old.mine # "open" /\ ~Left(old)
    BY <1>1, <1>2 DEF ConnRight, Spoken, Left
  <2>3. old.its \in {"open", "ended"}
    BY DEF Goodbye, BrokerReads
  <2> HIDE DEF c
  <2>4. B.sock = s
    BY <1>1, <1>2, <1>4, <2>2, <2>3 DEF BrokerRight
  <2>5. C.id = 0 /\ C.sock = None /\ C.inst = B.inst
    BY <1>2 DEF BrokerType
  <2>7. Ended(d)
    BY <1>2, EndsKept
  <2>8. conn \in [Conns -> ConnType] /\ conn'[s] = d /\ \A t \in Conns : t # s => conn'[t] = conn[t]
    BY <2>1, FromInv
  <2>9. OpenEnds' = OpenEnds \ {s}
    BY <2>7, <2>8 DEF OpenEnds, Ended
  <2> HIDE DEF C
  <2>10. /\ [x \in Brokers |-> broker[x].sock]' = [[x \in Brokers |-> broker[x].sock] EXCEPT ![b] = C.sock]
         /\ [x \in Brokers |-> broker[x].id]' = [[x \in Brokers |-> broker[x].id] EXCEPT ![b] = C.id]
         /\ [x \in Brokers |-> broker[x].inst]' = [[x \in Brokers |-> broker[x].inst] EXCEPT ![b] = C.inst]
    BY <1>1, <2>1, BookChange
  <2>11. [x \in Brokers |-> broker[x].inst]' = [x \in Brokers |-> broker[x].inst]
    BY <2>5, <2>10
  <2>12. broker[b].sock # None /\ b \in Brokers
    BY <1>1, <1>2, <2>4
  <2> HIDE DEF b
  <2>13. /\ [x \in Brokers |-> broker[x].sock]' = [[x \in Brokers |-> broker[x].sock] EXCEPT ![b] = None]
         /\ [x \in Brokers |-> broker[x].id]' = [[x \in Brokers |-> broker[x].id] EXCEPT ![b] = 0]
    BY <2>5, <2>10
  <2>14. [x \in Brokers |-> broker[x].sock][b] # None
    BY <2>12
  <2>15. OpenEnds' = OpenEnds \ {[x \in Brokers |-> broker[x].sock][b]}
    BY <2>4, <2>9, <2>12
  <2>16. PICK y \in Brokers : y = b
    BY <2>12
  <2>17. Promised!Leave(y)
    BY <2>11, <2>13, <2>14, <2>15, <2>16 DEF Promised!Leave, OpenEnds
  <2> QED BY <2>17 DEF PromisedStep, Promised!Next
<1> QED BY <1>3, <1>4

\* A connection closes: the session that it holds has lost it, no other one.
LEMMA LoseStep ==
  ASSUME SessionInv, NEW s \in Conns, BrokerFin(s) \/ BrokerGivesUp(s) \/ BrokerClosed(s)
  PROVE  PromisedStep
<1> DEFINE c == conn[s]
           b == c.to
           B == broker[b]
           C == Lost(B, s, c.id)
<1>1. /\ c.its # "closed" /\ ConnRight(c, Inst(b)) /\ conn \in [Conns -> ConnType]
      /\ None \notin Conns /\ Shaped(c)
  BY FromInv, TookAs DEF BrokerFin, BrokerGivesUp, BrokerClosed, BrokerReads
<1>2. conn' = [conn EXCEPT ![s] = BrokerClose(c)] /\ broker' = [broker EXCEPT ![b] = C]
  BY DEF BrokerFin, BrokerGivesUp, BrokerClosed, Lose
<1>3. b \in Brokers /\ B \in BrokerType
  <2>1. b \in Brokers
    BY <1>1, InUse DEF ConnRight
  <2> QED BY <2>1, FromInv
<1>4. C.id = B.id /\ C.inst = B.inst /\ C.sock = IF B.sock = s THEN None ELSE B.sock
  <2>1. B.sock = s => Entry(c.id, s) \in B.clients
    <3> SUFFICES ASSUME B.sock = s PROVE Entry(c.id, s) \in B.clients
      OBVIOUS
    <3>1. B.clients = {Entry(B.id, s)} /\ c.id = B.id
      BY <1>1, <1>3, HeldOnce
    <3> QED BY <3>1
  <2>2. CASE Entry(c.id, s) \notin B.clients
    BY <2>1, <2>2 DEF Lost
  <2>3. CASE Entry(c.id, s) \in B.clients
    BY <1>3, <2>3 DEF Lost, BrokerType
  <2> QED BY <2>2, <2>3
<1>5. OpenEnds' = OpenEnds \ {s}
  <2>1. Ended(BrokerClose(c))
    BY <1>1, EndsKept
  <2>2. conn'[s] = BrokerClose(c) /\ \A t \in Conns : t # s => conn'[t] = conn[t]
    BY <1>1, <1>2
  <2> QED BY <2>1, <2>2 DEF OpenEnds, Ended
<1>6. \A x \in Brokers : broker[x].sock = s => x = b
  BY <1>1, HeldOnce
<1> HIDE DEF C
<1>7. /\ [x \in Brokers |-> broker[x].sock]' = [[x \in Brokers |-> broker[x].sock] EXCEPT ![b] = C.sock]
      /\ [x \in Brokers |-> broker[x].id]' = [[x \in Brokers |-> broker[x].id] EXCEPT ![b] = C.id]
      /\ [x \in Brokers |-> broker[x].inst]' = [[x \in Brokers |-> broker[x].inst] EXCEPT ![b] = C.inst]
      /\ broker'[b] = C /\ \A x \in Brokers : x # b => broker'[x] = broker[x]
  BY <1>2, <1>3, BookChange
<1>8. /\ [x \in Brokers |-> broker[x].id]' = [x \in Brokers |-> broker[x].id]
      /\ [x \in Brokers |-> broker[x].inst]' = [x \in Brokers |-> broker[x].inst]
  BY <1>4, <1>7
<1>9. [x \in Brokers |-> broker[x].sock]'
        = [x \in Brokers |-> IF broker[x].sock = s THEN None ELSE broker[x].sock]
  BY <1>4, <1>6, <1>7
<1>10. Promised!Close(s)
  BY <1>5, <1>8, <1>9 DEF Promised!Close, OpenEnds
<1> QED BY <1>10 DEF PromisedStep, Promised!Next

\* Writing the value that a function has changes nothing.
LEMMA SameValue ==
  ASSUME NEW S, NEW f, f = [x \in S |-> f[x]], NEW b \in S, NEW v, v = f[b]
  PROVE  [f EXCEPT ![b] = v] = f
  OBVIOUS

\* The timer ends a session that nobody holds.
LEMMA GraceEndsStep ==
  ASSUME SessionInv, NEW b \in Brokers, GraceEnds(b)
  PROVE  PromisedStep
<1> DEFINE B == broker[b]
           C == [B EXCEPT !.id = 0, !.sock = None, !.grace = 0]
<1>1. /\ B \in BrokerType /\ Held(b) /\ B.grace # 0
  BY FromInv DEF SessionInv, GraceEnds
<1>2. B.sock = None /\ B.clients = {} /\ B.id # 0
  BY <1>1 DEF Held
<1>3. broker' = [broker EXCEPT ![b] = C] /\ conn' = conn
  <2>1. B.grace \notin IdsOf(B.clients)
    BY <1>2 DEF IdsOf
  <2> QED BY <2>1 DEF GraceEnds
<1>4. C.id = 0 /\ C.sock = None /\ C.inst = B.inst
  BY <1>1 DEF BrokerType
<1> HIDE DEF C
<1>5. /\ [x \in Brokers |-> broker[x].sock]' = [[x \in Brokers |-> broker[x].sock] EXCEPT ![b] = C.sock]
      /\ [x \in Brokers |-> broker[x].id]' = [[x \in Brokers |-> broker[x].id] EXCEPT ![b] = C.id]
      /\ [x \in Brokers |-> broker[x].inst]' = [[x \in Brokers |-> broker[x].inst] EXCEPT ![b] = C.inst]
  BY <1>3, BookChange
<1>6. /\ [x \in Brokers |-> broker[x].sock]' = [x \in Brokers |-> broker[x].sock]
      /\ [x \in Brokers |-> broker[x].inst]' = [x \in Brokers |-> broker[x].inst]
  <2> DEFINE F == [x \in Brokers |-> broker[x].sock]
             G == [x \in Brokers |-> broker[x].inst]
  <2>1. /\ F = [x \in Brokers |-> F[x]] /\ C.sock = F[b]
        /\ G = [x \in Brokers |-> G[x]] /\ C.inst = G[b]
    BY <1>2, <1>4
  <2>2. F' = [F EXCEPT ![b] = C.sock] /\ G' = [G EXCEPT ![b] = C.inst]
    BY <1>5
  <2> HIDE DEF F, G
  <2>3. [F EXCEPT ![b] = C.sock] = F
    BY <2>1, SameValue
  <2>4. [G EXCEPT ![b] = C.inst] = G
    BY <2>1, SameValue
  <2>5. F' = F /\ G' = G
    BY <2>2, <2>3, <2>4
  <2> QED BY <2>5 DEF F, G
<1>7. Promised!Expire(b)
  BY <1>2, <1>3, <1>4, <1>5, <1>6 DEF Promised!Expire
<1> QED BY <1>7 DEF PromisedStep, Promised!Next

LEMMA RestartStep ==
  ASSUME SessionInv, NEW b \in Brokers, Restart(b)
  PROVE  PromisedStep
<1>1. PICK n : broker' = [broker EXCEPT ![b] = [NewBroker EXCEPT !.inst = broker[b].inst + 1, !.identity = n]]
  BY DEF Restart
<1> DEFINE C == [NewBroker EXCEPT !.inst = broker[b].inst + 1, !.identity = n]
<1>2. C.id = 0 /\ C.sock = None /\ C.inst = broker[b].inst + 1
  BY DEF NewBroker
<1> HIDE DEF C
<1>3. /\ [x \in Brokers |-> broker[x].sock]' = [[x \in Brokers |-> broker[x].sock] EXCEPT ![b] = C.sock]
      /\ [x \in Brokers |-> broker[x].id]' = [[x \in Brokers |-> broker[x].id] EXCEPT ![b] = C.id]
      /\ [x \in Brokers |-> broker[x].inst]' = [[x \in Brokers |-> broker[x].inst] EXCEPT ![b] = C.inst]
  BY <1>1, BookChange DEF C
<1>4. conn' = [s \in Conns |-> IF conn[s].to = b /\ conn[s].its # "closed" THEN BrokerClose(conn[s])
                               ELSE conn[s]]
  BY DEF Restart
<1>5. ASSUME NEW s \in Conns
      PROVE  /\ conn'[s].its = "open" => conn[s].its = "open"
             /\ conn[s].to # b => conn'[s] = conn[s]
  <2>1. Ended(BrokerClose(conn[s]))
    BY TookAs, EndsKept
  <2> QED BY <1>4, <2>1 DEF Ended
<1>6. OpenEnds' \subseteq OpenEnds
  BY <1>5 DEF OpenEnds
<1>7. ASSUME NEW x \in Brokers \ {b}, broker[x].sock \in OpenEnds PROVE broker[x].sock \in OpenEnds'
  <2>1. broker[x].sock # None
    BY <1>7, FromInv DEF OpenEnds
  <2>2. broker[x].sock \in Conns /\ conn[broker[x].sock].to = x
    BY <2>1, HeldOnce
  <2> QED BY <1>5, <1>7, <2>2 DEF OpenEnds
<1>8. Promised!Restart({b})
  BY <1>2, <1>3, <1>6, <1>7 DEF Promised!Restart, OpenEnds
<1>9. {b} \in SUBSET Brokers
  OBVIOUS
<1> QED BY <1>8, <1>9 DEF PromisedStep, Promised!Next

LEMMA NextStep == SessionInv /\ [Next]_vars => PromisedStep
<1> SUFFICES ASSUME SessionInv, [Next]_vars PROVE PromisedStep
  OBVIOUS
<1>1. ASSUME NEW p \in Procs,
             Start(p) \/ Retry(p) \/ TabOffline(p) \/ TabOnline(p) \/ Quit(p)
      PROVE  PromisedStep
  BY <1>1, OpeningStep, LeavingStep
<1>2. CASE Stop
  BY <1>2, LeavingStep
<1>3. ASSUME NEW b \in Brokers, NEW e \in {0, 1}, SetConnection(b, e) PROVE PromisedStep
  BY <1>3, MovingStep
<1>4. ASSUME NEW s \in Conns, ClientStep(s) PROVE PromisedStep
  BY <1>4, ConnectOkStep, ReadingStep, DropsStep DEF ClientStep
<1>5. ASSUME NEW s \in Conns, BrokerStep(s) PROVE PromisedStep
  BY <1>5, AnsweringStep, HelloStep, GoodbyeStep, LoseStep DEF BrokerStep
<1>6. ASSUME NEW s \in Conns,
             \/ ConnectFails(s) \/ SlowHandshake(s) \/ Cut(s) \/ ProbeRefused(s) \/ JoinRefused(s)
             \/ SlowHello(s)
      PROVE  PromisedStep
  BY <1>6, DropsStep, AnsweringStep
<1>7. ASSUME NEW b \in Brokers, GraceEnds(b) \/ Restart(b) \/ RefreshNetworkAccess(b)
      PROVE  PromisedStep
  BY <1>7, GraceEndsStep, RestartStep, RefreshStep
<1>8. CASE UNCHANGED vars
  BY <1>8, SameStep DEF vars
<1> QED BY <1>1, <1>2, <1>3, <1>4, <1>5, <1>6, <1>7, <1>8 DEF Next

\* However connections are made, cut, replaced and closed, each broker keeps
\* SessionPromise: a session has at most one connection that counts, keeps its
\* client id when that one is replaced or lost, and ends only by its goodbye,
\* by the timer while nobody holds it, or with the broker.
THEOREM KeepsSessions == Spec => SessionSpec
<1>1. Init => Promised!Init
  <2> SUFFICES ASSUME Init PROVE Promised!Init
    OBVIOUS
  <2>1. /\ \A b \in Brokers : broker[b].id = 0 /\ broker[b].sock = None /\ broker[b].inst = 1
        /\ \A s \in Conns : conn[s].its = "closed"
    BY ShapedConn DEF Init, NewBroker
  <2> QED BY <2>1 DEF Promised!Init
<1>2. SessionInv /\ [Next]_vars => [Promised!Next]_(Promised!vars)
  BY NextStep DEF PromisedStep
<1> QED BY <1>1, <1>2, SessionsInv, PTL DEF Spec, SessionSpec, Promised!Spec

=============================================================================
