----------------------- MODULE GroupMembership_proofs -----------------------
(***************************************************************************)
(* Theorems of GroupMembership for any sessions, names and bounds: types,  *)
(* what database and memory agree on, and what a saved credential opens.   *)
(***************************************************************************)
EXTENDS GroupMembership, TLAPS

------------------------------------------------------------------------------
(* The values of the variables *)

Numbers == 0..MaxIssued
Group == [phase : {"unborn", "open", "gone"}, owner : Sessions \cup {Nobody},
          key : Numbers, near : BOOLEAN, code : BOOLEAN]
Row == [status : Statuses, name : Names \cup {NoName}, cred : Numbers]
Member == [in : BOOLEAN, name : Names \cup {NoName}, owner : BOOLEAN]
SavedRecord == [cred : Numbers, key : Numbers]

CreateAsk == [op : {"create"}, name : Names, near : BOOLEAN, code : BOOLEAN]
CredAsk == [op : {"return", "recover"}, cred : Numbers]
EnrollAsk == [op : {"enroll"}, name : Names, code : BOOLEAN]
PlainAsk == [op : {"leave", "goodbye"}]
NearAsk == [op : {"near"}, near : BOOLEAN, key : Numbers]
MemberAsk == [op : {"allow", "remove"}, who : Sessions, key : Numbers]
DeleteAsk == [op : {"delete"}, key : Numbers]

\* What a session sends
Ask == CreateAsk \cup CredAsk \cup EnrollAsk \cup PlainAsk \cup NearAsk \cup MemberAsk \cup DeleteAsk

SnapshotAnswer ==
  {m \in [kind : {"snapshot"}, in : BOOLEAN, owner : BOOLEAN, listed : BOOLEAN] :
     m.owner \/ m.listed => m.in}
WelcomeAnswer == [kind : {"welcome"}, cred : Numbers, key : Numbers]
KeyAnswer == [kind : {"ownerkey"}, key : Numbers]
ForgetAnswer == [kind : {"forget"}]

\* What the broker tells
Answer == SnapshotAnswer \cup WelcomeAnswer \cup KeyAnswer \cup ForgetAnswer

UpTypes(u) == \A s \in Sessions : u[s] \in Seq(Ask) /\ Len(u[s]) <= MaxOnWay
DownTypes(d) == \A s \in Sessions : d[s] \in Seq(Answer)

DatabaseType == group \in Group /\ row \in [Sessions -> Row] /\ tomb \subseteq Sessions
MemoryType ==
  /\ live \in [Sessions -> Member] /\ conn \in [Sessions -> {"off", "on", "grace"}]
  /\ issued \in Numbers
SessionType ==
  /\ link \in [Sessions -> {"down", "hello", "up"}] /\ token \in [Sessions -> BOOLEAN]
  /\ here \in [Sessions -> {"out", "member", "owner"}] /\ astray \subseteq Sessions
SavedType == saved \in [Sessions -> SavedRecord] /\ want \in [Sessions -> NotWanted..MaxIssued]
UpType == DOMAIN up = Sessions /\ up = [s \in Sessions |-> up[s]] /\ UpTypes(up)
DownType ==
  /\ DOMAIN down = Sessions /\ down = [s \in Sessions |-> down[s]]
  /\ DownTypes(down) /\ Room(down)
EpochType ==
  /\ faults \in 0..MaxFaults /\ commands \in 0..MaxCommands
  /\ epoch \in 1..(faults + 1) /\ inst \in [Sessions -> 0..epoch]

\* The types by part, with those of the messages on their way
Types ==
  /\ DatabaseType /\ MemoryType /\ SessionType /\ SavedType
  /\ UpType /\ DownType /\ EpochType

LEMMA Constants ==
  /\ MaxIssued \in Nat /\ MaxCommands \in Nat /\ MaxFaults \in Nat
  /\ MaxOnWay \in Nat /\ MaxOnWay >= 1
  /\ Local \subseteq Sessions /\ NoName \notin Names /\ Nobody \notin Sessions
  /\ \A s \in Sessions : NameOf[s] \subseteq Names
  BY ConstantsAssumption

LEMMA Values ==
  /\ NoRow \in Row /\ Out \in Member /\ Unborn \in Group /\ Gone \in Group
  /\ NothingSaved \in SavedRecord
  /\ NoRow.status = "none" /\ NoRow.cred = 0
  /\ Out.in = FALSE /\ Out.owner = FALSE
  /\ Unborn.phase = "unborn" /\ Gone.phase = "gone"
  /\ NothingSaved.cred = 0
<1>1. MaxIssued \in Nat
  BY Constants
<1>2. NoRow \in Row /\ NoRow.status = "none" /\ NoRow.cred = 0
  BY <1>1 DEF NoRow, Row, Statuses, Numbers
<1>3. Out \in Member /\ Out.in = FALSE /\ Out.owner = FALSE
  BY DEF Out, Member
<1>4. Unborn \in Group /\ Unborn.phase = "unborn"
  BY <1>1 DEF Unborn, Group, Numbers
<1>5. \A g \in Group : [g EXCEPT !.phase = "gone"] \in Group /\ [g EXCEPT !.phase = "gone"].phase = "gone"
  BY DEF Group
<1>6. Gone \in Group /\ Gone.phase = "gone"
  BY <1>4, <1>5 DEF Gone
<1>7. NothingSaved \in SavedRecord /\ NothingSaved.cred = 0
  BY <1>1 DEF NothingSaved, SavedRecord, Numbers
<1> QED BY <1>2, <1>3, <1>4, <1>6, <1>7

LEMMA InsideType ==
  ASSUME NEW n \in Names \cup {NoName}, NEW o \in BOOLEAN
  PROVE  /\ Inside(n, o) \in Member
         /\ Inside(n, o).in = TRUE /\ Inside(n, o).name = n /\ Inside(n, o).owner = o
  BY DEF Inside, Member

\* What a message of each kind holds
LEMMA AskFields ==
  ASSUME NEW m \in Ask
  PROVE  /\ m.op = "create" => m.name \in Names /\ m.near \in BOOLEAN /\ m.code \in BOOLEAN
         /\ m.op \in {"return", "recover"} => m.cred \in Numbers
         /\ m.op = "enroll" => m.name \in Names /\ m.code \in BOOLEAN
         /\ m.op = "near" => m.near \in BOOLEAN /\ m.key \in Numbers
         /\ m.op \in {"allow", "remove"} => m.who \in Sessions /\ m.key \in Numbers
         /\ m.op = "delete" => m.key \in Numbers
  BY DEF Ask, CreateAsk, CredAsk, EnrollAsk, PlainAsk, NearAsk, MemberAsk, DeleteAsk

LEMMA AnswerFields ==
  ASSUME NEW m \in Answer
  PROVE  /\ m.kind = "snapshot" => /\ m.in \in BOOLEAN /\ m.owner \in BOOLEAN /\ m.listed \in BOOLEAN
                                   /\ m.owner \/ m.listed => m.in
         /\ m.kind = "welcome" => m.cred \in Numbers /\ m.key \in Numbers
         /\ m.kind = "ownerkey" => m.key \in Numbers
         /\ m.kind \in {"snapshot", "welcome", "ownerkey", "forget"}
  BY DEF Answer, SnapshotAnswer, WelcomeAnswer, KeyAnswer, ForgetAnswer

------------------------------------------------------------------------------
(* Channels *)

LEMMA AppendFacts ==
  ASSUME NEW S, NEW q \in Seq(S), NEW x \in S
  PROVE  /\ Append(q, x) \in Seq(S) /\ Len(Append(q, x)) = Len(q) + 1 /\ Len(q) \in Nat
         /\ \A i \in 1..Len(q) : Append(q, x)[i] = q[i]
         /\ Append(q, x)[Len(q) + 1] = x
  OBVIOUS

LEMMA TailFacts ==
  ASSUME NEW S, NEW q \in Seq(S), q # <<>>
  PROVE  /\ Tail(q) \in Seq(S) /\ Len(Tail(q)) = Len(q) - 1 /\ Len(q) \in Nat \ {0}
         /\ \A i \in 1..(Len(q) - 1) : Tail(q)[i] = q[i + 1]
         /\ Head(q) = q[1] /\ Head(q) \in S
  OBVIOUS

\* What a session asked first: a message of its kind, and the rest of the channel
LEMMA ReadFacts ==
  ASSUME Types, NEW s \in Sessions, NEW op, Reads(s, op)
  PROVE  /\ Head(up[s]) \in Ask /\ Head(up[s]).op = op /\ Head(up[s]) = up[s][1]
         /\ up[s] \in Seq(Ask) /\ up[s] # <<>> /\ Len(up[s]) >= 1 /\ conn[s] = "on"
         /\ Tail(up[s]) \in Seq(Ask) /\ Len(Tail(up[s])) <= MaxOnWay
<1>1. /\ up[s] \in Seq(Ask) /\ Len(up[s]) <= MaxOnWay /\ up[s] # <<>>
      /\ Head(up[s]).op = op /\ conn[s] = "on"
  BY DEF Types, UpType, UpTypes, Reads
<1>2. MaxOnWay \in Nat
  BY Constants
<1> QED BY <1>1, <1>2, TailFacts

LEMMA UpChanged ==
  ASSUME UpType, NEW s \in Sessions, NEW q \in Seq(Ask), Len(q) <= MaxOnWay,
         up' = [up EXCEPT ![s] = q]
  PROVE  UpType'
  BY DEF UpType, UpTypes

LEMMA ReadType ==
  ASSUME Types, NEW s \in Sessions, NEW op, Reads(s, op), Read(s)
  PROVE  UpType'
  BY ReadFacts, UpChanged DEF Read, Types

LEMMA SentType ==
  ASSUME Types, NEW s \in Sessions, NEW m \in Ask, Len(up[s]) < MaxOnWay, Sent(s, m)
  PROVE  UpType'
<1>1. up[s] \in Seq(Ask) /\ UpType /\ MaxOnWay \in Nat
  BY Constants DEF Types, UpType, UpTypes
<1>2. Append(up[s], m) \in Seq(Ask) /\ Len(Append(up[s], m)) <= MaxOnWay
  BY <1>1, AppendFacts
<1> QED BY <1>1, <1>2, UpChanged DEF Sent

News == {"welcome", "forget"}

\* q2 holds q and then nothing that changes what a session saved, but a new key.
Quiet(q, q2) ==
  /\ q2 \in Seq(Answer) /\ Len(q) <= Len(q2)
  /\ \A i \in 1..Len(q) : q2[i] = q[i]
  /\ \A i \in (Len(q) + 1)..Len(q2) : q2[i].kind \notin News

LEMMA QuietSame ==
  ASSUME NEW q \in Seq(Answer)
  PROVE  Quiet(q, q)
  BY DEF Quiet

LEMMA QuietAppend ==
  ASSUME NEW q \in Seq(Answer), NEW m \in Answer, m.kind \notin News
  PROVE  Quiet(q, Append(q, m))
<1> DEFINE a == Append(q, m)
<1>1. /\ a \in Seq(Answer) /\ Len(a) = Len(q) + 1 /\ Len(q) \in Nat
      /\ \A i \in 1..Len(q) : a[i] = q[i]
      /\ a[Len(q) + 1] = m
  BY AppendFacts
<1> HIDE DEF a
<1>2. \A i \in (Len(q) + 1)..Len(a) : i = Len(q) + 1
  BY <1>1
<1>3. Quiet(q, a)
  BY <1>1, <1>2 DEF Quiet
<1> QED BY <1>3 DEF a

LEMMA QuietTold ==
  ASSUME NEW q \in Seq(Answer), NEW m \in Answer, m.kind \notin News
  PROVE  Quiet(q, Told(q, m)) /\ Told(q, m) \in Seq(Answer)
  BY QuietSame, QuietAppend DEF Told, Quiet

LEMMA QuietTwice ==
  ASSUME NEW q \in Seq(Answer), NEW q1, NEW q2, Quiet(q, q1), Quiet(q1, q2)
  PROVE  Quiet(q, q2)
<1>1. Len(q) \in Nat /\ Len(q1) \in Nat /\ Len(q2) \in Nat /\ Len(q) <= Len(q1) /\ Len(q1) <= Len(q2)
  BY DEF Quiet
<1>2. ASSUME NEW i \in 1..Len(q) PROVE q2[i] = q[i]
  <2>1. i \in 1..Len(q1)
    BY <1>1
  <2> QED BY <2>1 DEF Quiet
<1>3. ASSUME NEW i \in (Len(q) + 1)..Len(q2) PROVE q2[i].kind \notin News
  <2>1. i \in (Len(q) + 1)..Len(q1) \/ i \in (Len(q1) + 1)..Len(q2)
    BY <1>1
  <2>2. CASE i \in (Len(q) + 1)..Len(q1)
    <3>1. i \in 1..Len(q1)
      BY <1>1, <2>2
    <3> QED BY <2>2, <3>1 DEF Quiet
  <2>3. CASE i \in (Len(q1) + 1)..Len(q2)
    BY <2>3 DEF Quiet
  <2> QED BY <2>1, <2>2, <2>3
<1> QED BY <1>1, <1>2, <1>3 DEF Quiet

LEMMA SnapshotFacts ==
  ASSUME NEW g \in Group, NEW r \in [Sessions -> Row], NEW l \in [Sessions -> Member],
         NEW s \in Sessions
  PROVE  /\ Snapshot(s, g, r, l) \in Answer
         /\ Snapshot(s, g, r, l).kind = "snapshot"
         /\ Snapshot(s, g, r, l).kind \notin News
<1>1. l[s].in \in BOOLEAN
  BY DEF Member
<1>2. Snapshot(s, g, r, l) \in SnapshotAnswer
  BY <1>1 DEF Snapshot, SnapshotAnswer
<1> QED BY <1>2 DEF Answer, SnapshotAnswer, News

\* Telling: the channel of s alone gets longer.
LEMMA TellingOne ==
  ASSUME NEW d, DOMAIN d = Sessions, d = [t \in Sessions |-> d[t]], DownTypes(d),
         NEW s \in Sessions, NEW m \in Answer
  PROVE  LET e == Telling(d, s, <<m>>) IN
         /\ DOMAIN e = Sessions /\ e = [t \in Sessions |-> e[t]] /\ DownTypes(e)
         /\ \A t \in Sessions \ {s} : e[t] = d[t]
         /\ ~Reached(s) => e[s] = d[s]
         /\ Reached(s) => e[s] = Told(d[s], m)
         /\ m.kind \notin News => Quiet(d[s], e[s])
<1> DEFINE e == Telling(d, s, <<m>>)
<1>1. Len(<<m>>) = 1 /\ <<m>>[1] = m /\ d[s] \in Seq(Answer)
  BY DEF DownTypes
<1>2. Told(d[s], m) \in Seq(Answer)
  BY <1>1, AppendFacts DEF Told
<1>3. CASE ~Reached(s)
  <2>1. e = d
    BY <1>3 DEF Telling
  <2> QED BY <2>1, <1>1, <1>3, QuietSame
<1>4. CASE Reached(s)
  <2>1. e = [d EXCEPT ![s] = Told(d[s], m)]
    BY <1>1, <1>4 DEF Telling
  <2>2. e[s] = Told(d[s], m) /\ \A t \in Sessions \ {s} : e[t] = d[t]
    BY <2>1
  <2>3. DOMAIN e = Sessions /\ e = [t \in Sessions |-> e[t]]
    BY <2>1
  <2>4. DownTypes(e)
    BY <1>2, <2>2 DEF DownTypes
  <2>5. m.kind \notin News => Quiet(d[s], e[s])
    BY <1>1, <2>2, QuietTold
  <2> HIDE DEF e
  <2>6. QED BY <1>4, <2>2, <2>3, <2>4, <2>5 DEF e
<1> QED BY <1>3, <1>4

LEMMA TellingTwo ==
  ASSUME NEW d, DOMAIN d = Sessions, d = [t \in Sessions |-> d[t]], DownTypes(d),
         NEW s \in Sessions, NEW m \in Answer, NEW n \in Answer
  PROVE  LET e == Telling(d, s, <<m, n>>) IN
         /\ DOMAIN e = Sessions /\ e = [t \in Sessions |-> e[t]] /\ DownTypes(e)
         /\ \A t \in Sessions \ {s} : e[t] = d[t]
         /\ ~Reached(s) => e[s] = d[s]
         /\ Reached(s) => e[s] = Told(Told(d[s], m), n)
<1> DEFINE e == Telling(d, s, <<m, n>>)
<1>1. Len(<<m, n>>) = 2 /\ <<m, n>>[1] = m /\ <<m, n>>[2] = n /\ d[s] \in Seq(Answer)
  BY DEF DownTypes
<1>2. Told(d[s], m) \in Seq(Answer)
  BY <1>1, AppendFacts DEF Told
<1>3. Told(Told(d[s], m), n) \in Seq(Answer)
  BY <1>2, AppendFacts DEF Told
<1>4. CASE ~Reached(s)
  <2>1. e = d
    BY <1>4 DEF Telling
  <2> QED BY <2>1, <1>1, <1>4
<1>5. CASE Reached(s)
  <2>1. e = [d EXCEPT ![s] = Told(Told(d[s], m), n)]
    BY <1>1, <1>5 DEF Telling
  <2>2. e[s] = Told(Told(d[s], m), n) /\ \A t \in Sessions \ {s} : e[t] = d[t]
    BY <2>1
  <2>3. DOMAIN e = Sessions /\ e = [t \in Sessions |-> e[t]]
    BY <2>1
  <2>4. DownTypes(e)
    BY <1>3, <2>2 DEF DownTypes
  <2> HIDE DEF e
  <2>5. QED BY <1>5, <2>2, <2>3, <2>4 DEF e
<1> QED BY <1>4, <1>5

\* TellingGroup: snapshots alone are added.
LEMMA TellingGroupFacts ==
  ASSUME NEW d, DownTypes(d), NEW g \in Group, NEW r \in [Sessions -> Row],
         NEW l \in [Sessions -> Member]
  PROVE  LET e == TellingGroup(d, g, r, l) IN
         /\ DOMAIN e = Sessions /\ e = [t \in Sessions |-> e[t]] /\ DownTypes(e)
         /\ \A t \in Sessions : Quiet(d[t], e[t])
         /\ \A t \in Sessions : ~Reached(t) => e[t] = d[t]
<1> DEFINE e == TellingGroup(d, g, r, l)
<1>1. DOMAIN e = Sessions /\ e = [t \in Sessions |-> e[t]]
  BY DEF TellingGroup
<1>2. ASSUME NEW t \in Sessions
      PROVE  Quiet(d[t], e[t]) /\ e[t] \in Seq(Answer) /\ (~Reached(t) => e[t] = d[t])
  <2> DEFINE m == Snapshot(t, g, r, l)
  <2>1. m \in Answer /\ m.kind \notin News /\ d[t] \in Seq(Answer)
    BY SnapshotFacts DEF DownTypes
  <2>2. (e[t] = d[t]) \/ (e[t] = Told(d[t], m) /\ Reached(t))
    BY DEF TellingGroup
  <2> HIDE DEF e, m
  <2>3. CASE e[t] = d[t]
    BY <2>1, <2>3, QuietSame
  <2>4. CASE e[t] = Told(d[t], m) /\ Reached(t)
    BY <2>1, <2>4, QuietTold
  <2> QED BY <2>2, <2>3, <2>4
<1>3. DownTypes(e)
  BY <1>2 DEF DownTypes
<1> HIDE DEF e
<1>4. QED BY <1>1, <1>2, <1>3 DEF e

LEMMA DownChanged ==
  ASSUME DownType, NEW s \in Sessions, NEW q \in Seq(Answer), Len(q) <= MaxOnWay,
         down' = [down EXCEPT ![s] = q]
  PROVE  DownType'
  BY DEF DownType, DownTypes, Room

LEMMA ToldType ==
  ASSUME NEW d, DOMAIN d = Sessions, d = [t \in Sessions |-> d[t]], DownTypes(d), Told1(d)
  PROVE  DownType'
  BY DEF DownType, DownTypes, Told1, Room

LEMMA EmptyChannels ==
  /\ <<>> \in Seq(Ask) /\ <<>> \in Seq(Answer) /\ Len(<<>>) = 0 /\ 0 <= MaxOnWay
  BY Constants

------------------------------------------------------------------------------
(* Types: sessions and connections *)

LEMMA InitTypes == Init => Types
<1> SUFFICES ASSUME Init PROVE Types
  OBVIOUS
<1> USE Constants, Values, EmptyChannels
<1>1. DatabaseType /\ MemoryType
  BY DEF Init, DatabaseType, MemoryType, Numbers
<1>2. SessionType /\ SavedType
  BY DEF Init, SessionType, SavedType, SavedRecord, NotWanted
<1>3. UpType
  BY DEF Init, UpType, UpTypes
<1>4. DownType
  BY DEF Init, DownType, DownTypes, Room
<1>5. EpochType
  BY DEF Init, EpochType
<1> QED BY <1>1, <1>2, <1>3, <1>4, <1>5 DEF Types

LEMMA ConnectType ==
  ASSUME Types, NEW s \in Sessions, Connect(s)
  PROVE  Types'
<1> USE DEF Types
<1>1. DatabaseType' /\ SavedType' /\ EpochType'
  BY DEF Connect, database, bounds, DatabaseType, SavedType, EpochType
<1>2. MemoryType' /\ SessionType'
  BY DEF Connect, MemoryType, SessionType
<1>3. CASE UNCHANGED <<up, down>>
  BY <1>1, <1>2, <1>3 DEF UpType, UpTypes, DownType, DownTypes, Room
<1>4. CASE /\ up' = [up EXCEPT ![s] = <<>>]
           /\ down' = [down EXCEPT ![s] = <<Snapshot(s, group, row, live)>>]
  <2>1. Snapshot(s, group, row, live) \in Answer
    BY SnapshotFacts DEF DatabaseType, MemoryType
  <2>2. /\ <<Snapshot(s, group, row, live)>> \in Seq(Answer)
        /\ Len(<<Snapshot(s, group, row, live)>>) <= MaxOnWay
    BY <2>1, Constants
  <2>3. DownType'
    BY <1>4, <2>2, DownChanged
  <2>4. UpType'
    BY <1>4, EmptyChannels, UpChanged
  <2> QED BY <1>1, <1>2, <2>3, <2>4
<1> QED BY <1>3, <1>4 DEF Connect

LEMMA FaultType ==
  ASSUME Types, Fault
  PROVE  /\ faults' \in 0..MaxFaults /\ faults' = faults + 1
         /\ commands \in 0..MaxCommands
  BY Constants DEF Types, EpochType, Fault

LEMMA CutType ==
  ASSUME Types, NEW s \in Sessions, Cut(s)
  PROVE  Types'
<1> USE DEF Types
<1>1. DatabaseType' /\ MemoryType' /\ SavedType' /\ UpType'
  BY DEF Cut, database, memory, DatabaseType, MemoryType, SavedType, UpType, UpTypes
<1>2. SessionType'
  BY DEF Cut, SessionType
<1>3. DownType'
  BY EmptyChannels, DownChanged DEF Cut
<1>4. EpochType'
  BY FaultType DEF Cut, EpochType, memory
<1> QED BY <1>1, <1>2, <1>3, <1>4

LEMMA DisconnectedType ==
  ASSUME Types, NEW s \in Sessions, Disconnected(s)
  PROVE  Types'
<1> USE DEF Types
<1>1. DatabaseType' /\ SavedType' /\ EpochType' /\ DownType'
  BY DEF Disconnected, database, extension, bounds, DatabaseType, SavedType, EpochType,
         DownType, DownTypes, Room
<1>2. MemoryType' /\ SessionType'
  BY DEF Disconnected, extension, MemoryType, SessionType
<1>3. UpType'
  BY EmptyChannels, UpChanged DEF Disconnected
<1> QED BY <1>1, <1>2, <1>3

LEMMA GraceEndsType ==
  ASSUME Types, NEW s \in Sessions, GraceEnds(s)
  PROVE  Types'
<1> USE DEF Types
<1>1. DatabaseType' /\ SavedType' /\ EpochType' /\ DownType' /\ UpType'
  BY DEF GraceEnds, database, extension, bounds, DatabaseType, SavedType, EpochType,
         DownType, DownTypes, Room, UpType, UpTypes
<1>2. MemoryType' /\ SessionType'
  BY Values DEF GraceEnds, extension, MemoryType, SessionType
<1> QED BY <1>1, <1>2

LEMMA BrokerRestartType ==
  ASSUME Types, BrokerRestart
  PROVE  Types'
<1> USE DEF Types
<1>1. DatabaseType' /\ SavedType'
  BY DEF BrokerRestart, database, DatabaseType, SavedType
<1>2. MemoryType' /\ SessionType'
  BY Values DEF BrokerRestart, MemoryType, SessionType
<1>3. UpType'
  BY EmptyChannels DEF BrokerRestart, UpType, UpTypes
<1>4. DownType'
  BY EmptyChannels DEF BrokerRestart, DownType, DownTypes, Room
<1>5. EpochType'
  <2>1. epoch \in 1..(faults + 1) /\ inst \in [Sessions -> 0..epoch] /\ faults \in Nat
    BY DEF EpochType
  <2>2. epoch' = epoch + 1 /\ inst' = inst
    BY DEF BrokerRestart
  <2>3. epoch' \in 1..(faults' + 1)
    BY <2>1, <2>2, FaultType DEF BrokerRestart
  <2>4. inst' \in [Sessions -> 0..epoch']
    BY <2>1, <2>2
  <2> QED BY <2>3, <2>4, FaultType DEF BrokerRestart, EpochType
<1> QED BY <1>1, <1>2, <1>3, <1>4, <1>5

LEMMA ReopenType ==
  ASSUME Types, NEW s \in Sessions, Reopen(s)
  PROVE  Types'
<1> USE DEF Types
<1>1. DatabaseType' /\ MemoryType'
  BY DEF Reopen, database, memory, DatabaseType, MemoryType
<1>2. SessionType'
  BY DEF Reopen, SessionType
<1>3. SavedType'
  <2>1. saved[s].cred \in Numbers
    BY DEF SavedType, SavedRecord
  <2>2. Started(saved[s]) \in NotWanted..MaxIssued
    BY <2>1, Constants DEF Started, NotWanted, Numbers
  <2> QED BY <2>2 DEF Reopen, SavedType
<1>4. UpType'
  <2>1. CASE up' = up
    BY <2>1 DEF UpType, UpTypes
  <2>2. CASE Len(up[s]) < MaxOnWay /\ Sent(s, [op |-> "goodbye"])
    <3>1. [op |-> "goodbye"] \in Ask
      BY DEF Ask, PlainAsk
    <3> QED BY <2>2, <3>1, SentType
  <2> QED BY <2>1, <2>2 DEF Reopen, Sent
<1>5. DownType'
  BY EmptyChannels, DownChanged DEF Reopen
<1>6. EpochType'
  BY FaultType DEF Reopen, EpochType, memory
<1> QED BY <1>1, <1>2, <1>3, <1>4, <1>5, <1>6

------------------------------------------------------------------------------
(* Types: what the extension sends and hears *)

LEMMA SavedFacts ==
  ASSUME Types, NEW s \in Sessions
  PROVE  /\ saved[s] \in SavedRecord /\ saved[s].cred \in Numbers /\ saved[s].key \in Numbers
         /\ saved[s].cred \in NotWanted..MaxIssued /\ want[s] \in NotWanted..MaxIssued
         /\ NotWanted \in NotWanted..MaxIssued /\ 0 \in NotWanted..MaxIssued
  BY Constants DEF Types, SavedType, SavedRecord, Numbers, NotWanted

LEMMA SendCreateType ==
  ASSUME Types, NEW s \in Sessions, SendCreate(s)
  PROVE  Types'
<1> USE DEF Types
<1>1. DatabaseType' /\ MemoryType' /\ SessionType' /\ DownType' /\ EpochType'
  BY DEF SendCreate, database, memory, bounds, DatabaseType, MemoryType, SessionType,
         DownType, DownTypes, Room, EpochType
<1>2. SavedType'
  BY SavedFacts DEF SendCreate, SavedType
<1>3. PICK n \in NameOf[s], near \in BOOLEAN :
        Sent(s, [op |-> "create", name |-> n, near |-> near, code |-> near])
  BY DEF SendCreate
<1>4. [op |-> "create", name |-> n, near |-> near, code |-> near] \in Ask
  BY Constants DEF Ask, CreateAsk
<1>5. UpType'
  BY <1>3, <1>4, SentType DEF SendCreate, CanSend
<1> QED BY <1>1, <1>2, <1>5

LEMMA SendJoinType ==
  ASSUME Types, NEW s \in Sessions, SendJoin(s)
  PROVE  Types'
<1> USE DEF Types
<1>1. DatabaseType' /\ MemoryType' /\ SessionType' /\ DownType' /\ EpochType'
  BY DEF SendJoin, database, memory, bounds, DatabaseType, MemoryType, SessionType,
         DownType, DownTypes, Room, EpochType
<1>2. SavedType'
  BY SavedFacts DEF SendJoin, SavedType
<1>3. PICK m \in Ask : Sent(s, m)
  <2>1. CASE Sent(s, [op |-> "return", cred |-> saved[s].cred])
    <3>1. [op |-> "return", cred |-> saved[s].cred] \in Ask
      BY SavedFacts DEF Ask, CredAsk
    <3> QED BY <2>1, <3>1
  <2>2. CASE \E n \in NameOf[s], code \in BOOLEAN :
               Sent(s, [op |-> "enroll", name |-> n, code |-> code])
    <3>1. PICK n \in NameOf[s], code \in BOOLEAN :
               Sent(s, [op |-> "enroll", name |-> n, code |-> code])
      BY <2>2
    <3>2. [op |-> "enroll", name |-> n, code |-> code] \in Ask
      BY Constants DEF Ask, EnrollAsk
    <3> QED BY <3>1, <3>2
  <2> QED BY <2>1, <2>2 DEF SendJoin
<1>4. UpType'
  BY <1>3, SentType DEF SendJoin, CanSend
<1> QED BY <1>1, <1>2, <1>4

LEMMA SendLeaveType ==
  ASSUME Types, NEW s \in Sessions, SendLeave(s)
  PROVE  Types'
<1> USE DEF Types
<1>1. DatabaseType' /\ MemoryType' /\ SessionType' /\ DownType' /\ EpochType'
  BY DEF SendLeave, database, memory, bounds, DatabaseType, MemoryType, SessionType,
         DownType, DownTypes, Room, EpochType
<1>2. SavedType'
  BY SavedFacts, Values DEF SendLeave, SavedType
<1>3. [op |-> "leave"] \in Ask
  BY DEF Ask, PlainAsk
<1>4. UpType'
  BY <1>3, SentType DEF SendLeave, CanSend
<1> QED BY <1>1, <1>2, <1>4

\* What an owner or one who may become the owner sends
LEMMA CommandSent ==
  ASSUME Types, NEW s \in Sessions, SendCommand(s)
  PROVE  \E m \in Ask :
           /\ Sent(s, m)
           /\ m.op \in {"recover", "near", "allow", "remove", "delete"}
           /\ m.op = "recover" => s \in Local /\ m.cred = saved[s].cred /\ saved[s].cred # 0
           /\ m.op \in {"allow", "remove"} => m.who # s
<1>1. CASE /\ s \in Local /\ saved[s].cred # 0
           /\ Sent(s, [op |-> "recover", cred |-> saved[s].cred])
  <2>1. [op |-> "recover", cred |-> saved[s].cred] \in Ask
    BY SavedFacts DEF Ask, CredAsk
  <2> QED BY <1>1, <2>1
<1>2. CASE \E near \in BOOLEAN : Sent(s, [op |-> "near", near |-> near, key |-> saved[s].key])
  <2>1. PICK near \in BOOLEAN : Sent(s, [op |-> "near", near |-> near, key |-> saved[s].key])
    BY <1>2
  <2>2. [op |-> "near", near |-> near, key |-> saved[s].key] \in Ask
    BY SavedFacts DEF Ask, NearAsk
  <2> QED BY <2>1, <2>2
<1>3. CASE \E t \in Sessions \ {s} :
             Sent(s, [op |-> IF row[t].status = "removed" THEN "allow" ELSE "remove",
                      who |-> t, key |-> saved[s].key])
  <2>1. PICK t \in Sessions \ {s} :
             Sent(s, [op |-> IF row[t].status = "removed" THEN "allow" ELSE "remove",
                      who |-> t, key |-> saved[s].key])
    BY <1>3
  <2> DEFINE kind == IF row[t].status = "removed" THEN "allow" ELSE "remove"
  <2>2. kind \in {"allow", "remove"}
    OBVIOUS
  <2>3. Sent(s, [op |-> kind, who |-> t, key |-> saved[s].key])
    BY <2>1
  <2> HIDE DEF kind
  <2>4. [op |-> kind, who |-> t, key |-> saved[s].key] \in Ask
    BY <2>2, SavedFacts DEF Ask, MemberAsk
  <2> QED BY <2>2, <2>3, <2>4
<1>4. CASE Sent(s, [op |-> "delete", key |-> saved[s].key])
  <2>1. [op |-> "delete", key |-> saved[s].key] \in Ask
    BY SavedFacts DEF Ask, DeleteAsk
  <2> QED BY <1>4, <2>1
<1> QED BY <1>1, <1>2, <1>3, <1>4 DEF SendCommand

LEMMA SendCommandType ==
  ASSUME Types, NEW s \in Sessions, SendCommand(s)
  PROVE  Types'
<1> USE DEF Types
<1>1. DatabaseType' /\ MemoryType' /\ SessionType' /\ SavedType' /\ DownType'
  BY DEF SendCommand, database, memory, extension, DatabaseType, MemoryType, SessionType,
         DownType, DownTypes, Room, SavedType
<1>2. EpochType'
  <2>1. commands \in Nat /\ faults \in Nat /\ commands' = commands + 1
        /\ commands' + faults <= MaxCommands /\ MaxCommands \in Nat
    BY Constants DEF SendCommand, EpochType
  <2>2. commands' \in 0..MaxCommands
    BY <2>1
  <2> QED BY <2>2 DEF SendCommand, memory, extension, EpochType
<1>3. UpType'
  BY CommandSent, SentType DEF SendCommand, CanSend
<1> QED BY <1>1, <1>2, <1>3

\* What a session hears: a message of its kind, and the rest of the channel
LEMMA HearsFacts ==
  ASSUME Types, NEW s \in Sessions, NEW kind, Hears(s, kind)
  PROVE  /\ Head(down[s]) \in Answer /\ Head(down[s]).kind = kind /\ Head(down[s]) = down[s][1]
         /\ down[s] \in Seq(Answer) /\ down[s] # <<>> /\ Len(down[s]) >= 1
         /\ Tail(down[s]) \in Seq(Answer) /\ Len(Tail(down[s])) <= MaxOnWay
<1>1. down[s] \in Seq(Answer) /\ Len(down[s]) <= MaxOnWay /\ down[s] # <<>>
      /\ Head(down[s]).kind = kind
  BY DEF Types, DownType, DownTypes, Room, Hears
<1>2. MaxOnWay \in Nat
  BY Constants
<1> QED BY <1>1, <1>2, TailFacts

LEMMA HeardType ==
  ASSUME Types, NEW s \in Sessions, NEW kind, Hears(s, kind), Heard(s)
  PROVE  DownType'
  BY HearsFacts, DownChanged DEF Heard, Types

LEMMA HearSnapshotType ==
  ASSUME Types, NEW s \in Sessions, HearSnapshot(s)
  PROVE  Types'
<1> USE DEF Types
<1> DEFINE m == Head(down[s])
           wanted == WantAfter(s, m, inst[s] \notin {0, epoch})
<1>1. DownType'
  BY HeardType DEF HearSnapshot
<1>2. DatabaseType' /\ MemoryType'
  BY DEF HearSnapshot, database, memory, DatabaseType, MemoryType
<1>3. EpochType'
  BY DEF HearSnapshot, memory, bounds, EpochType
<1>4. SessionType'
  <2>1. /\ link' = [link EXCEPT ![s] = "up"] /\ token' = [token EXCEPT ![s] = TRUE]
        /\ here' = [here EXCEPT ![s] = here'[s]] /\ astray' = astray
        /\ here'[s] \in {"out", "member", "owner"}
    BY DEF HearSnapshot, SessionType
  <2> QED BY <2>1 DEF SessionType
<1>5. wanted \in NotWanted..MaxIssued
  BY SavedFacts DEF WantAfter
<1>6. SavedType'
  BY <1>5, SavedFacts DEF HearSnapshot, SavedType, SavedAfter
<1>7. UpType'
  <2>1. CASE up' = up
    BY <2>1 DEF UpType, UpTypes
  <2>2. CASE wanted > 0 /\ Len(up[s]) < MaxOnWay /\ Sent(s, [op |-> "return", cred |-> wanted])
    <3>1. wanted \in Numbers
      BY <1>5, <2>2, Constants DEF Numbers, NotWanted
    <3> HIDE DEF wanted
    <3>2. [op |-> "return", cred |-> wanted] \in Ask
      BY <3>1 DEF Ask, CredAsk
    <3> QED BY <2>2, <3>2, SentType
  <2> QED BY <2>1, <2>2 DEF HearSnapshot
<1> QED BY <1>1, <1>2, <1>3, <1>4, <1>6, <1>7

LEMMA HearWelcomeType ==
  ASSUME Types, NEW s \in Sessions, HearWelcome(s)
  PROVE  Types'
<1> USE DEF Types
<1>1. DownType'
  BY HeardType DEF HearWelcome
<1>2. DatabaseType' /\ MemoryType' /\ EpochType' /\ UpType'
  BY DEF HearWelcome, database, memory, bounds, DatabaseType, MemoryType, EpochType, UpType, UpTypes
<1>3. SessionType'
  BY DEF HearWelcome, SessionType
<1>4. SavedType'
  <2>1. Head(down[s]).cred \in Numbers /\ Head(down[s]).key \in Numbers
    BY HearsFacts, AnswerFields DEF HearWelcome
  <2>2. Head(down[s]).cred \in NotWanted..MaxIssued
    BY <2>1, Constants DEF Numbers, NotWanted
  <2>3. [cred |-> Head(down[s]).cred, key |-> Head(down[s]).key] \in SavedRecord
    BY <2>1 DEF SavedRecord
  <2> QED BY <2>2, <2>3 DEF HearWelcome, SavedType
<1> QED BY <1>1, <1>2, <1>3, <1>4

LEMMA HearOwnerKeyType ==
  ASSUME Types, NEW s \in Sessions, HearOwnerKey(s)
  PROVE  Types'
<1> USE DEF Types
<1>1. DownType'
  BY HeardType DEF HearOwnerKey
<1>2. DatabaseType' /\ MemoryType' /\ EpochType' /\ UpType' /\ SessionType'
  BY DEF HearOwnerKey, database, memory, bounds, DatabaseType, MemoryType, EpochType, UpType, UpTypes,
         SessionType
<1>3. SavedType'
  <2>1. Head(down[s]).key \in Numbers
    BY HearsFacts, AnswerFields DEF HearOwnerKey
  <2> QED BY <2>1 DEF HearOwnerKey, SavedType, SavedRecord
<1> QED BY <1>1, <1>2, <1>3

LEMMA HearForgetType ==
  ASSUME Types, NEW s \in Sessions, HearForget(s)
  PROVE  Types'
<1> USE DEF Types
<1>1. DownType'
  BY HeardType DEF HearForget
<1>2. DatabaseType' /\ MemoryType' /\ EpochType' /\ UpType' /\ SessionType'
  BY DEF HearForget, database, memory, bounds, DatabaseType, MemoryType, EpochType, UpType, UpTypes,
         SessionType
<1>3. SavedType'
  BY SavedFacts, Values DEF HearForget, SavedType
<1> QED BY <1>1, <1>2, <1>3

------------------------------------------------------------------------------
(* Types: what the broker does *)

LEMMA RefuseType ==
  ASSUME Types, NEW s \in Sessions, NEW op, Reads(s, op), Refuse(s)
  PROVE  Types'
<1> USE DEF Types
<1>1. /\ DatabaseType' /\ MemoryType' /\ SessionType' /\ SavedType' /\ DownType' /\ EpochType'
  BY DEF Refuse, database, memory, extension, bounds, DatabaseType, MemoryType, SessionType,
         SavedType, DownType, DownTypes, Room, EpochType
<1>2. UpType'
  BY ReadType DEF Refuse
<1> QED BY <1>1, <1>2

\* The channels after an answer that takes the saved membership away
LEMMA ForgetTold ==
  ASSUME Types, NEW s \in Sessions
  PROVE  LET e == Telling(down, s, <<[kind |-> "forget"]>>) IN
         /\ DOMAIN e = Sessions /\ e = [t \in Sessions |-> e[t]] /\ DownTypes(e)
         /\ \A t \in Sessions \ {s} : e[t] = down[t]
         /\ ~Reached(s) => e[s] = down[s]
         /\ Reached(s) => e[s] = Append(down[s], [kind |-> "forget"])
<1> DEFINE f == [kind |-> "forget"]
<1>1. f \in Answer /\ f.kind = "forget"
  BY DEF Answer, ForgetAnswer
<1>2. Told(down[s], f) = Append(down[s], f)
  BY <1>1 DEF Told
<1>3. DOMAIN down = Sessions /\ down = [t \in Sessions |-> down[t]] /\ DownTypes(down)
  BY DEF Types, DownType
<1> HIDE DEF f
<1>4. LET e == Telling(down, s, <<f>>) IN
         /\ DOMAIN e = Sessions /\ e = [t \in Sessions |-> e[t]] /\ DownTypes(e)
         /\ \A t \in Sessions \ {s} : e[t] = down[t]
         /\ ~Reached(s) => e[s] = down[s]
         /\ Reached(s) => e[s] = Told(down[s], f)
  BY <1>1, <1>3, TellingOne
<1> QED BY <1>2, <1>4 DEF f

LEMMA RefuseForGoodType ==
  ASSUME Types, NEW s \in Sessions, NEW op, Reads(s, op), RefuseForGood(s),
         group' = group, row' = row, tomb' \subseteq tomb
  PROVE  Types'
<1> USE DEF Types
<1>1. /\ DatabaseType' /\ MemoryType' /\ SessionType' /\ SavedType' /\ EpochType'
  BY DEF RefuseForGood, memory, extension, bounds, DatabaseType, MemoryType, SessionType,
         SavedType, EpochType
<1>2. UpType'
  BY ReadType DEF RefuseForGood
<1>3. DownType'
  BY ForgetTold, ToldType DEF RefuseForGood
<1> QED BY <1>1, <1>2, <1>3

LEMMA JoinGoneType ==
  ASSUME Types, NEW s \in Sessions, NEW op, Reads(s, op), JoinGone(s)
  PROVE  Types'
<1>1. CASE TombTaken(s) /\ RefuseForGood(s)
  BY <1>1, RefuseForGoodType DEF TombTaken
<1>2. CASE Refuse(s)
  BY <1>2, RefuseType
<1> QED BY <1>1, <1>2 DEF JoinGone

\* The channels after a new member was told its credential
LEMMA WelcomeTold ==
  ASSUME Types, NEW s \in Sessions, NEW c \in Numbers, NEW k \in Numbers,
         NEW n \in Answer, n.kind = "snapshot"
  PROVE  LET w == [kind |-> "welcome", cred |-> c, key |-> k]
             e == Telling(down, s, <<w, n>>)
         IN /\ DOMAIN e = Sessions /\ e = [t \in Sessions |-> e[t]] /\ DownTypes(e)
            /\ \A t \in Sessions \ {s} : e[t] = down[t]
            /\ ~Reached(s) => e[s] = down[s]
            /\ Reached(s) => Quiet(Append(down[s], w), e[s])
<1> DEFINE w == [kind |-> "welcome", cred |-> c, key |-> k]
<1>1. w \in Answer /\ w.kind = "welcome"
  BY DEF Answer, WelcomeAnswer
<1>2. Told(down[s], w) = Append(down[s], w)
  BY <1>1 DEF Told
<1>3. DOMAIN down = Sessions /\ down = [t \in Sessions |-> down[t]] /\ DownTypes(down)
      /\ down[s] \in Seq(Answer)
  BY DEF Types, DownType, DownTypes
<1> HIDE DEF w
<1>4. LET e == Telling(down, s, <<w, n>>) IN
         /\ DOMAIN e = Sessions /\ e = [t \in Sessions |-> e[t]] /\ DownTypes(e)
         /\ \A t \in Sessions \ {s} : e[t] = down[t]
         /\ ~Reached(s) => e[s] = down[s]
         /\ Reached(s) => e[s] = Told(Told(down[s], w), n)
  BY <1>1, <1>3, TellingTwo
<1>5. Append(down[s], w) \in Seq(Answer)
  BY <1>1, <1>3, AppendFacts
<1>6. Quiet(Append(down[s], w), Told(Append(down[s], w), n))
  BY <1>5, QuietTold DEF News
<1> QED BY <1>2, <1>4, <1>6 DEF w

\* The row and the entry in memory of a new member
LEMMA NewSeat ==
  ASSUME Types, NEW s \in Sessions, NEW n \in Names, NEW c \in Numbers, NEW o \in BOOLEAN
  PROVE  /\ [row EXCEPT ![s] = [status |-> "active", name |-> n, cred |-> c]] \in [Sessions -> Row]
         /\ [live EXCEPT ![s] = Inside(n, o)] \in [Sessions -> Member]
<1>1. [status |-> "active", name |-> n, cred |-> c] \in Row
  BY DEF Row, Statuses
<1>2. Inside(n, o) \in Member
  BY InsideType
<1> QED BY <1>1, <1>2 DEF Types, DatabaseType, MemoryType

\* What is left to show when the broker read a request: the database, the members
\* and the channels it made.
LEMMA BrokerType ==
  ASSUME Types, NEW s \in Sessions, NEW op, Reads(s, op), Read(s),
         group' \in Group, row' \in [Sessions -> Row], tomb' \subseteq Sessions,
         live' \in [Sessions -> Member], issued' \in Numbers, DownType',
         astray' \subseteq Sessions, UNCHANGED <<conn, epoch, extension, bounds>>
  PROVE  Types'
<1> USE DEF Types
<1>1. UpType'
  BY ReadType
<1>2. DatabaseType' /\ MemoryType'
  BY DEF DatabaseType, MemoryType
<1>3. SessionType' /\ SavedType' /\ EpochType'
  BY DEF extension, bounds, SessionType, SavedType, EpochType
<1> QED BY <1>1, <1>2, <1>3

LEMMA TypeFacts ==
  ASSUME Types
  PROVE  /\ group \in Group /\ row \in [Sessions -> Row] /\ tomb \subseteq Sessions
         /\ live \in [Sessions -> Member] /\ issued \in Numbers /\ astray \subseteq Sessions
         /\ DOMAIN down = Sessions /\ down = [t \in Sessions |-> down[t]] /\ DownTypes(down)
         /\ DownType /\ MaxIssued \in Nat
  BY Constants DEF Types, DatabaseType, MemoryType, SessionType, DownType

\* A new group, when Create does not refuse
LEMMA CreateMade ==
  ASSUME Types, NEW s \in Sessions, Create(s), ~Refuse(s)
  PROVE  /\ Reads(s, "create") /\ Read(s)
         /\ ~live[s].in /\ group.phase = "unborn" /\ issued + 1 \in Numbers /\ issued + 2 \in Numbers
         /\ group' \in Group /\ group'.phase = "open" /\ group'.owner = s
         /\ Head(up[s]).name \in Names
         /\ row' = [row EXCEPT ![s] = [status |-> "active", name |-> Head(up[s]).name, cred |-> issued + 1]]
         /\ live' = [live EXCEPT ![s] = Inside(Head(up[s]).name, TRUE)]
         /\ \A t \in Sessions \ {s} : down'[t] = down[t]
         /\ ~Reached(s) => down'[s] = down[s]
         /\ Reached(s) => Quiet(Append(down[s], [kind |-> "welcome", cred |-> issued + 1, key |-> issued + 2]),
                                down'[s])
         /\ astray' = LostOnWay(s)
         /\ UNCHANGED <<tomb, conn, epoch, extension, bounds>>
         /\ DownType' /\ row' \in [Sessions -> Row] /\ live' \in [Sessions -> Member]
         /\ issued' \in Numbers
<1> DEFINE m == Head(up[s])
           g == [phase |-> "open", owner |-> s, key |-> issued + 2, near |-> m.near, code |-> m.code]
           r == [row EXCEPT ![s] = [status |-> "active", name |-> m.name, cred |-> issued + 1]]
           l == [live EXCEPT ![s] = Inside(m.name, TRUE)]
           w == [kind |-> "welcome", cred |-> issued + 1, key |-> issued + 2]
           n == Snapshot(s, g, r, l)
<1>1. /\ Reads(s, "create") /\ ~live[s].in /\ group.phase = "unborn" /\ issued + 2 <= MaxIssued
      /\ group' = g /\ row' = r /\ live' = l /\ issued' = issued + 2
      /\ Told1(Telling(down, s, <<w, n>>))
      /\ Read(s) /\ astray' = LostOnWay(s)
      /\ UNCHANGED <<tomb, conn, epoch, extension, bounds>>
  BY DEF Create
<1>2. m.name \in Names /\ m.near \in BOOLEAN /\ m.code \in BOOLEAN
  BY <1>1, ReadFacts, AskFields
<1>3. issued + 1 \in Numbers /\ issued + 2 \in Numbers
  BY <1>1, TypeFacts DEF Numbers
<1>4. g \in Group /\ g.phase = "open" /\ g.owner = s
  BY <1>2, <1>3 DEF Group
<1>5. r \in [Sessions -> Row] /\ l \in [Sessions -> Member]
  BY <1>2, <1>3, NewSeat
<1>6. n \in Answer /\ n.kind = "snapshot"
  BY <1>4, <1>5, SnapshotFacts
<1> HIDE DEF m, g, r, l, n
<1> DEFINE e == Telling(down, s, <<w, n>>)
<1>7. /\ DOMAIN e = Sessions /\ e = [t \in Sessions |-> e[t]] /\ DownTypes(e)
      /\ \A t \in Sessions \ {s} : e[t] = down[t]
      /\ ~Reached(s) => e[s] = down[s]
      /\ Reached(s) => Quiet(Append(down[s], w), e[s])
  BY <1>3, <1>6, WelcomeTold
<1>8. Told1(e)
  BY <1>1
<1> HIDE DEF e
<1>9. DownType' /\ down' = e
  BY <1>7, <1>8, ToldType DEF Told1
<1> QED BY <1>1, <1>2, <1>3, <1>4, <1>5, <1>7, <1>9 DEF m, r, l

LEMMA CreateType ==
  ASSUME Types, NEW s \in Sessions, Create(s)
  PROVE  Types'
<1>1. CASE Refuse(s)
  BY <1>1, RefuseType DEF Create
<1>2. CASE ~Refuse(s)
  <2>1. /\ Reads(s, "create") /\ Read(s) /\ group' \in Group /\ astray' = LostOnWay(s)
        /\ UNCHANGED <<tomb, conn, epoch, extension, bounds>>
        /\ DownType' /\ row' \in [Sessions -> Row] /\ live' \in [Sessions -> Member]
        /\ issued' \in Numbers
    BY <1>2, CreateMade
  <2>2. astray' \subseteq Sessions /\ tomb' \subseteq Sessions
    BY <2>1, TypeFacts DEF LostOnWay
  <2> QED BY <2>1, <2>2, BrokerType
<1> QED BY <1>1, <1>2

\* Enroll makes a row.
Enrolled(s) ==
  /\ Reads(s, "enroll") /\ Read(s)
  /\ ~live[s].in /\ group.phase = "open" /\ NameFree(Head(up[s]).name) /\ Insertable(s)
  /\ Head(up[s]).name \in Names /\ issued + 1 \in Numbers /\ issued' = issued + 1
  /\ row' = [row EXCEPT ![s] = [status |-> "active", name |-> Head(up[s]).name, cred |-> issued + 1]]
  /\ \/ /\ Joinable(Head(up[s]).name)
        /\ live' = [live EXCEPT ![s] = Inside(Head(up[s]).name, FALSE)]
        /\ astray' = LostOnWay(s)
        /\ \A t \in Sessions \ {s} : down'[t] = down[t]
        /\ ~Reached(s) => down'[s] = down[s]
        /\ Reached(s) => Quiet(Append(down[s], [kind |-> "welcome", cred |-> issued + 1, key |-> 0]),
                               down'[s])
     \/ astray' = astray \cup {s} /\ UNCHANGED <<live, down>>
  /\ UNCHANGED <<group, tomb, conn, epoch, extension, bounds>>

LEMMA EnrollCases ==
  ASSUME Types, NEW s \in Sessions, Enroll(s)
  PROVE  \/ Reads(s, "enroll") /\ group.phase = "gone" /\ JoinGone(s)
         \/ Reads(s, "enroll") /\ RejectInvite(s)
         \/ Reads(s, "enroll") /\ Refuse(s)
         \/ /\ Enrolled(s) /\ DownType' /\ row' \in [Sessions -> Row] /\ live' \in [Sessions -> Member]
            /\ astray' \subseteq Sessions
<1> DEFINE m == Head(up[s])
           r == [row EXCEPT ![s] = [status |-> "active", name |-> m.name, cred |-> issued + 1]]
           l == [live EXCEPT ![s] = Inside(m.name, FALSE)]
           w == [kind |-> "welcome", cred |-> issued + 1, key |-> 0]
           n == Snapshot(s, group, r, l)
<1>0. Reads(s, "enroll")
  BY DEF Enroll
<1>1. SUFFICES
        ASSUME /\ ~live[s].in /\ group.phase = "open" /\ NameFree(m.name) /\ Insertable(s)
               /\ issued < MaxIssued
               /\ row' = r /\ issued' = issued + 1 /\ Read(s)
               /\ \/ /\ Joinable(m.name) /\ live' = l /\ astray' = LostOnWay(s)
                     /\ Told1(Telling(down, s, <<w, n>>))
                  \/ astray' = astray \cup {s} /\ UNCHANGED <<live, down>>
               /\ UNCHANGED <<group, tomb, conn, epoch, extension, bounds>>
        PROVE  /\ Enrolled(s) /\ DownType' /\ row' \in [Sessions -> Row] /\ live' \in [Sessions -> Member]
               /\ astray' \subseteq Sessions
  BY <1>0 DEF Enroll
<1>2. m.name \in Names
  BY <1>0, ReadFacts, AskFields
<1>3. issued + 1 \in Numbers /\ 0 \in Numbers
  BY <1>1, TypeFacts DEF Numbers
<1>4. group \in Group /\ astray \subseteq Sessions /\ LostOnWay(s) \subseteq Sessions
  BY TypeFacts DEF LostOnWay
<1>5. r \in [Sessions -> Row] /\ l \in [Sessions -> Member]
  BY <1>2, <1>3, NewSeat
<1>6. n \in Answer /\ n.kind = "snapshot"
  BY <1>4, <1>5, SnapshotFacts
<1> HIDE DEF m, r, l, n
<1> DEFINE e == Telling(down, s, <<w, n>>)
<1>7. /\ DOMAIN e = Sessions /\ e = [t \in Sessions |-> e[t]] /\ DownTypes(e)
      /\ \A t \in Sessions \ {s} : e[t] = down[t]
      /\ ~Reached(s) => e[s] = down[s]
      /\ Reached(s) => Quiet(Append(down[s], w), e[s])
  BY <1>3, <1>6, WelcomeTold
<1>8. CASE /\ Joinable(m.name) /\ live' = l /\ astray' = LostOnWay(s) /\ Told1(e)
  <2> HIDE DEF e
  <2>1. DownType' /\ down' = e
    BY <1>7, <1>8, ToldType DEF Told1
  <2>2. Enrolled(s)
    BY <1>0, <1>1, <1>2, <1>3, <1>7, <1>8, <2>1 DEF m, r, l, Enrolled
  <2> QED BY <1>1, <1>4, <1>5, <1>8, <2>1, <2>2
<1>9. CASE astray' = astray \cup {s} /\ UNCHANGED <<live, down>>
  <2>1. DownType' /\ live' \in [Sessions -> Member]
    BY <1>9, TypeFacts DEF DownType, DownTypes, Room
  <2>2. Enrolled(s)
    BY <1>0, <1>1, <1>2, <1>3, <1>9 DEF m, r, Enrolled
  <2> QED BY <1>1, <1>4, <1>5, <1>9, <2>1, <2>2
<1> QED BY <1>1, <1>8, <1>9

LEMMA RejectInviteType ==
  ASSUME Types, NEW s \in Sessions, RejectInvite(s)
  PROVE  Types'
<1> USE DEF Types
<1>1. DatabaseType' /\ SavedType' /\ EpochType'
  BY DEF RejectInvite, database, bounds, DatabaseType, SavedType, EpochType
<1>2. MemoryType' /\ SessionType'
  BY DEF RejectInvite, MemoryType, SessionType
<1>3. UpType'
  BY EmptyChannels, UpChanged DEF RejectInvite
<1>4. DownType'
  BY EmptyChannels, DownChanged DEF RejectInvite
<1> QED BY <1>1, <1>2, <1>3, <1>4

LEMMA EnrollType ==
  ASSUME Types, NEW s \in Sessions, Enroll(s)
  PROVE  Types'
<1>1. CASE Reads(s, "enroll") /\ JoinGone(s)
  BY <1>1, JoinGoneType
<1>2. CASE RejectInvite(s)
  BY <1>2, RejectInviteType
<1>3. CASE Reads(s, "enroll") /\ Refuse(s)
  BY <1>3, RefuseType
<1>4. CASE /\ Enrolled(s) /\ DownType' /\ row' \in [Sessions -> Row] /\ live' \in [Sessions -> Member]
           /\ astray' \subseteq Sessions
  <2>1. group' \in Group /\ tomb' \subseteq Sessions /\ issued' \in Numbers
    BY <1>4, TypeFacts DEF Enrolled
  <2> QED BY <1>4, <2>1, BrokerType DEF Enrolled
<1> QED BY <1>1, <1>2, <1>3, <1>4, EnrollCases

\* Nobody is told a credential, and nobody without a connection is told anything.
Grown(q, q2) ==
  /\ q2 \in Seq(Answer) /\ Len(q) <= Len(q2)
  /\ \A i \in 1..Len(q) : q2[i] = q[i]
  /\ \A i \in (Len(q) + 1)..Len(q2) : q2[i].kind # "welcome"

LEMMA QuietGrown ==
  ASSUME NEW q, NEW q2, Quiet(q, q2)
  PROVE  Grown(q, q2)
  BY DEF Quiet, Grown, News

LEMMA GrownTwice ==
  ASSUME NEW q \in Seq(Answer), NEW q1, NEW q2, Grown(q, q1), Grown(q1, q2)
  PROVE  Grown(q, q2)
<1>1. Len(q) \in Nat /\ Len(q1) \in Nat /\ Len(q2) \in Nat /\ Len(q) <= Len(q1) /\ Len(q1) <= Len(q2)
  BY DEF Grown
<1>2. ASSUME NEW i \in 1..Len(q) PROVE q2[i] = q[i]
  <2>1. i \in 1..Len(q1)
    BY <1>1
  <2> QED BY <2>1 DEF Grown
<1>3. ASSUME NEW i \in (Len(q) + 1)..Len(q2) PROVE q2[i].kind # "welcome"
  <2>1. i \in (Len(q) + 1)..Len(q1) \/ i \in (Len(q1) + 1)..Len(q2)
    BY <1>1
  <2>2. CASE i \in (Len(q) + 1)..Len(q1)
    <3>1. i \in 1..Len(q1)
      BY <1>1, <2>2
    <3> QED BY <2>2, <3>1 DEF Grown
  <2>3. CASE i \in (Len(q1) + 1)..Len(q2)
    BY <2>3 DEF Grown
  <2> QED BY <2>1, <2>2, <2>3
<1> QED BY <1>1, <1>2, <1>3 DEF Grown

LEMMA GrownForget ==
  ASSUME NEW q \in Seq(Answer)
  PROVE  Append(q, [kind |-> "forget"]) \in Seq(Answer) /\ Grown(q, Append(q, [kind |-> "forget"]))
<1> DEFINE f == [kind |-> "forget"]
           a == Append(q, f)
<1>1. f \in Answer /\ f.kind = "forget"
  BY DEF Answer, ForgetAnswer
<1> HIDE DEF f
<1>2. /\ a \in Seq(Answer) /\ Len(a) = Len(q) + 1 /\ Len(q) \in Nat
      /\ \A i \in 1..Len(q) : a[i] = q[i]
      /\ a[Len(q) + 1] = f
  BY <1>1, AppendFacts
<1> HIDE DEF a
<1>3. \A i \in (Len(q) + 1)..Len(a) : i = Len(q) + 1
  BY <1>2
<1>4. Grown(q, a)
  BY <1>1, <1>2, <1>3 DEF Grown
<1> QED BY <1>2, <1>4 DEF a, f

\* A session that has no connection is told nothing.
Unreached == \A t \in Sessions : ~Reached(t) => down'[t] = down[t]

ForgetOnly(s) ==
  /\ \A t \in Sessions \ {s} : down'[t] = down[t]
  /\ down'[s] = down[s] \/ down'[s] = Append(down[s], [kind |-> "forget"])
  /\ Unreached

LEMMA RefuseForGoodTold ==
  ASSUME Types, NEW s \in Sessions, RefuseForGood(s)
  PROVE  ForgetOnly(s)
<1> DEFINE e == Telling(down, s, <<[kind |-> "forget"]>>)
<1>1. /\ \A t \in Sessions \ {s} : e[t] = down[t]
      /\ ~Reached(s) => e[s] = down[s]
      /\ Reached(s) => e[s] = Append(down[s], [kind |-> "forget"])
  BY ForgetTold
<1>2. down' = e
  BY DEF RefuseForGood, Told1
<1> HIDE DEF e
<1> QED BY <1>1, <1>2 DEF ForgetOnly, Unreached

QuietAll == (\A t \in Sessions : Quiet(down[t], down'[t])) /\ Unreached

\* Return takes effect.
Returned(s) ==
  /\ Reads(s, "return") /\ Read(s)
  /\ ~live[s].in /\ group.phase = "open" /\ MayReturn(s, Head(up[s]).cred) /\ Joinable(row[s].name)
  /\ live' = [live EXCEPT ![s] = Inside(row[s].name, group.owner = s)]
  /\ QuietAll
  /\ UNCHANGED <<database, conn, epoch, issued, extension, astray, bounds>>

LEMMA ReturnCases ==
  ASSUME Types, NEW s \in Sessions, Return(s)
  PROVE  \/ Reads(s, "return") /\ group.phase = "gone" /\ JoinGone(s)
         \/ /\ Reads(s, "return") /\ group.phase = "open" /\ ~MayReturn(s, Head(up[s]).cred)
            /\ RefuseForGood(s) /\ UNCHANGED database
         \/ Reads(s, "return") /\ Refuse(s)
         \/ Returned(s) /\ DownType' /\ live' \in [Sessions -> Member]
<1> DEFINE m == Head(up[s])
           l == [live EXCEPT ![s] = Inside(row[s].name, group.owner = s)]
           n == Snapshot(s, group, row, l)
<1>0. Reads(s, "return")
  BY DEF Return
<1>1. SUFFICES
        ASSUME /\ ~live[s].in /\ group.phase = "open" /\ MayReturn(s, m.cred) /\ Joinable(row[s].name)
               /\ live' = l /\ Read(s)
               /\ Told1(Telling(down, s, <<n>>))
               /\ UNCHANGED <<database, conn, epoch, issued, extension, astray, bounds>>
        PROVE  Returned(s) /\ DownType' /\ live' \in [Sessions -> Member]
  BY <1>0 DEF Return
<1>2. /\ group \in Group /\ row \in [Sessions -> Row] /\ live \in [Sessions -> Member]
      /\ DOMAIN down = Sessions /\ down = [t \in Sessions |-> down[t]] /\ DownTypes(down)
  BY TypeFacts
<1>3. l \in [Sessions -> Member]
  <2>1. row[s].name \in Names \cup {NoName} /\ (group.owner = s) \in BOOLEAN
    BY <1>2 DEF Row
  <2>2. Inside(row[s].name, group.owner = s) \in Member
    BY <2>1 DEF Inside, Member
  <2> QED BY <1>2, <2>2
<1> HIDE DEF l
<1>4. n \in Answer /\ n.kind \notin News
  BY <1>2, <1>3, SnapshotFacts
<1> HIDE DEF m, n
<1> DEFINE e == Telling(down, s, <<n>>)
<1>5. /\ DOMAIN e = Sessions /\ e = [t \in Sessions |-> e[t]] /\ DownTypes(e)
      /\ \A t \in Sessions \ {s} : e[t] = down[t]
      /\ ~Reached(s) => e[s] = down[s]
      /\ Quiet(down[s], e[s])
  BY <1>2, <1>4, TellingOne
<1>6. Told1(e)
  BY <1>1
<1> HIDE DEF e
<1>7. DownType' /\ down' = e
  BY <1>5, <1>6, ToldType DEF Told1
<1>8. QuietAll
  <2>1. ASSUME NEW t \in Sessions PROVE Quiet(down[t], e[t])
    BY <1>2, <1>5, QuietSame DEF DownTypes
  <2>2. Unreached
    BY <1>5, <1>7 DEF Unreached
  <2> QED BY <1>7, <2>1, <2>2 DEF QuietAll
<1>9. Returned(s)
  BY <1>0, <1>1, <1>8 DEF Returned, m, l
<1> QED BY <1>1, <1>3, <1>7, <1>9

LEMMA DatabaseKept ==
  ASSUME Types, UNCHANGED database
  PROVE  group' \in Group /\ row' \in [Sessions -> Row] /\ tomb' \subseteq Sessions
         /\ group' = group /\ row' = row /\ tomb' \subseteq tomb
  BY TypeFacts DEF database

LEMMA ReturnType ==
  ASSUME Types, NEW s \in Sessions, Return(s)
  PROVE  Types'
<1>1. CASE Reads(s, "return") /\ JoinGone(s)
  BY <1>1, JoinGoneType
<1>2. CASE Reads(s, "return") /\ RefuseForGood(s) /\ UNCHANGED database
  BY <1>2, DatabaseKept, RefuseForGoodType
<1>3. CASE Reads(s, "return") /\ Refuse(s)
  BY <1>3, RefuseType
<1>4. CASE Returned(s) /\ DownType' /\ live' \in [Sessions -> Member]
  <2>1. issued' \in Numbers /\ astray' \subseteq Sessions
    BY <1>4, TypeFacts DEF Returned
  <2>2. group' \in Group /\ row' \in [Sessions -> Row] /\ tomb' \subseteq Sessions
    BY <1>4, DatabaseKept DEF Returned
  <2> QED BY <1>4, <2>1, <2>2, BrokerType DEF Returned
<1> QED BY <1>1, <1>2, <1>3, <1>4, ReturnCases

\* Leave takes effect.
Left(s) ==
  /\ Reads(s, "leave") /\ Read(s) /\ MayLeave(s)
  /\ row' = [row EXCEPT ![s] = NoRow] /\ live' = [live EXCEPT ![s] = Out]
  /\ QuietAll
  /\ UNCHANGED <<group, tomb, conn, epoch, issued, extension, astray, bounds>>

LEMMA LeaveCases ==
  ASSUME Types, NEW s \in Sessions, Leave(s)
  PROVE  \/ Reads(s, "leave") /\ Refuse(s)
         \/ /\ Left(s) /\ DownType' /\ row' \in [Sessions -> Row] /\ live' \in [Sessions -> Member]
<1> DEFINE r == [row EXCEPT ![s] = NoRow]
           l == [live EXCEPT ![s] = Out]
           n == Snapshot(s, group, r, l)
<1>0. Reads(s, "leave")
  BY DEF Leave
<1>1. SUFFICES
        ASSUME /\ MayLeave(s) /\ row' = r /\ live' = l /\ Read(s)
               /\ Told1(Telling(down, s, <<n>>))
               /\ UNCHANGED <<group, tomb, conn, epoch, issued, extension, astray, bounds>>
        PROVE  Left(s) /\ DownType' /\ row' \in [Sessions -> Row] /\ live' \in [Sessions -> Member]
  BY <1>0 DEF Leave
<1>2. /\ group \in Group /\ row \in [Sessions -> Row] /\ live \in [Sessions -> Member]
      /\ DOMAIN down = Sessions /\ down = [t \in Sessions |-> down[t]] /\ DownTypes(down)
  BY TypeFacts
<1>3. r \in [Sessions -> Row] /\ l \in [Sessions -> Member]
  BY <1>2, Values
<1> HIDE DEF r, l
<1>4. n \in Answer /\ n.kind \notin News
  BY <1>2, <1>3, SnapshotFacts
<1> HIDE DEF n
<1> DEFINE e == Telling(down, s, <<n>>)
<1>5. /\ DOMAIN e = Sessions /\ e = [t \in Sessions |-> e[t]] /\ DownTypes(e)
      /\ \A t \in Sessions \ {s} : e[t] = down[t]
      /\ ~Reached(s) => e[s] = down[s]
      /\ Quiet(down[s], e[s])
  BY <1>2, <1>4, TellingOne
<1>6. Told1(e)
  BY <1>1
<1> HIDE DEF e
<1>7. DownType' /\ down' = e
  BY <1>5, <1>6, ToldType DEF Told1
<1>8. QuietAll
  <2>1. ASSUME NEW t \in Sessions PROVE Quiet(down[t], e[t])
    BY <1>2, <1>5, QuietSame DEF DownTypes
  <2>2. Unreached
    BY <1>5, <1>7 DEF Unreached
  <2> QED BY <1>7, <2>1, <2>2 DEF QuietAll
<1>9. Left(s)
  BY <1>0, <1>1, <1>8 DEF Left, r, l
<1> QED BY <1>1, <1>3, <1>7, <1>9

LEMMA LeaveType ==
  ASSUME Types, NEW s \in Sessions, Leave(s)
  PROVE  Types'
<1>1. CASE Reads(s, "leave") /\ Refuse(s)
  BY <1>1, RefuseType
<1>2. CASE Left(s) /\ DownType' /\ row' \in [Sessions -> Row] /\ live' \in [Sessions -> Member]
  <2>1. group' \in Group /\ tomb' \subseteq Sessions /\ issued' \in Numbers /\ astray' \subseteq Sessions
    BY <1>2, TypeFacts DEF Left
  <2> QED BY <1>2, <2>1, BrokerType DEF Left
<1> QED BY <1>1, <1>2, LeaveCases

LEMMA GoodbyeType ==
  ASSUME Types, NEW s \in Sessions, Goodbye(s)
  PROVE  Types'
<1> USE DEF Types
<1>1. DatabaseType' /\ SavedType' /\ EpochType' /\ SessionType'
  BY DEF Goodbye, database, extension, bounds, DatabaseType, SavedType, EpochType, SessionType
<1>2. MemoryType'
  BY Values DEF Goodbye, MemoryType
<1>3. UpType'
  BY EmptyChannels, UpChanged DEF Goodbye
<1>4. DownType'
  BY DEF Goodbye, DownType, DownTypes, Room
<1> QED BY <1>1, <1>2, <1>3, <1>4

\* The channels after all members were told something on top of d
LEMMA GroupTold ==
  ASSUME NEW d, DownTypes(d), NEW g \in Group, NEW r \in [Sessions -> Row],
         NEW l \in [Sessions -> Member], Told1(TellingGroup(d, g, r, l))
  PROVE  /\ DownType'
         /\ \A t \in Sessions : Quiet(d[t], down'[t])
         /\ \A t \in Sessions : ~Reached(t) => down'[t] = d[t]
<1> DEFINE e == TellingGroup(d, g, r, l)
<1>1. /\ DOMAIN e = Sessions /\ e = [t \in Sessions |-> e[t]] /\ DownTypes(e)
      /\ \A t \in Sessions : Quiet(d[t], e[t])
      /\ \A t \in Sessions : ~Reached(t) => e[t] = d[t]
  BY TellingGroupFacts
<1>2. Told1(e)
  OBVIOUS
<1> HIDE DEF e
<1> QED BY <1>1, <1>2, ToldType DEF Told1

\* group.visibility.update takes effect.
Nearby(s) ==
  /\ Reads(s, "near") /\ Read(s) /\ IsOwner(s, Head(up[s]).key)
  /\ group'.phase = "open" /\ group'.owner = group.owner
  /\ \A t \in Sessions : live'[t] = live[t] \/ live'[t] = Out
  /\ QuietAll
  /\ UNCHANGED <<row, tomb, conn, epoch, issued, extension, astray, bounds>>

LEMMA SetNearbyCases ==
  ASSUME Types, NEW s \in Sessions, SetNearby(s)
  PROVE  \/ Reads(s, "near") /\ Refuse(s)
         \/ Nearby(s) /\ DownType' /\ group' \in Group /\ live' \in [Sessions -> Member]
<1> DEFINE m == Head(up[s])
           g == [group EXCEPT !.near = m.near, !.code = FALSE]
           cut == IF m.near THEN {} ELSE Expelled
           l == [t \in Sessions |-> IF t \in cut THEN Out ELSE live[t]]
           n(t) == Snapshot(t, group, row, l)
           d == [t \in Sessions |-> IF t \in cut /\ Reached(t) THEN Told(down[t], n(t)) ELSE down[t]]
<1>0. Reads(s, "near")
  BY DEF SetNearby
<1>1. SUFFICES
        ASSUME /\ IsOwner(s, m.key) /\ group' = g /\ live' = l /\ Read(s)
               /\ Told1(TellingGroup(d, g, row, l))
               /\ UNCHANGED <<row, tomb, conn, epoch, issued, extension, astray, bounds>>
        PROVE  Nearby(s) /\ DownType' /\ group' \in Group /\ live' \in [Sessions -> Member]
  BY <1>0 DEF SetNearby
<1>2. /\ group \in Group /\ row \in [Sessions -> Row] /\ live \in [Sessions -> Member]
      /\ DownTypes(down)
  BY TypeFacts
<1>3. g \in Group /\ g.phase = "open" /\ g.owner = group.owner
  <2>1. m.near \in BOOLEAN /\ group.phase = "open"
    BY <1>0, <1>1, ReadFacts, AskFields DEF IsOwner
  <2> HIDE DEF m
  <2> QED BY <1>2, <2>1 DEF Group
<1>4. l \in [Sessions -> Member] /\ \A t \in Sessions : l[t] = live[t] \/ l[t] = Out
  BY <1>2, Values
<1> HIDE DEF m, g, cut, l
<1>5. ASSUME NEW t \in Sessions
      PROVE  Quiet(down[t], d[t]) /\ d[t] \in Seq(Answer) /\ (~Reached(t) => d[t] = down[t])
  <2>1. n(t) \in Answer /\ n(t).kind \notin News /\ down[t] \in Seq(Answer)
    BY <1>2, <1>4, SnapshotFacts DEF DownTypes
  <2>2. (d[t] = down[t]) \/ (d[t] = Told(down[t], n(t)) /\ Reached(t))
    OBVIOUS
  <2> HIDE DEF d, n
  <2> QED BY <2>1, <2>2, QuietSame, QuietTold
<1>6. DownTypes(d)
  BY <1>5 DEF DownTypes
<1> HIDE DEF d
<1>7. /\ DownType' /\ \A t \in Sessions : Quiet(d[t], down'[t])
      /\ \A t \in Sessions : ~Reached(t) => down'[t] = d[t]
  BY <1>1, <1>2, <1>3, <1>4, <1>6, GroupTold
<1>8. QuietAll
  <2>1. ASSUME NEW t \in Sessions PROVE Quiet(down[t], down'[t])
    <3>1. down[t] \in Seq(Answer) /\ Quiet(down[t], d[t]) /\ Quiet(d[t], down'[t])
      BY <1>2, <1>5, <1>7 DEF DownTypes
    <3> QED BY <3>1, QuietTwice
  <2>2. Unreached
    BY <1>5, <1>7 DEF Unreached
  <2> QED BY <2>1, <2>2 DEF QuietAll
<1>9. Nearby(s)
  BY <1>0, <1>1, <1>3, <1>4, <1>8 DEF Nearby, m
<1> QED BY <1>1, <1>3, <1>4, <1>7, <1>9

LEMMA SetNearbyType ==
  ASSUME Types, NEW s \in Sessions, SetNearby(s)
  PROVE  Types'
<1>1. CASE Reads(s, "near") /\ Refuse(s)
  BY <1>1, RefuseType
<1>2. CASE Nearby(s) /\ DownType' /\ group' \in Group /\ live' \in [Sessions -> Member]
  <2>1. row' \in [Sessions -> Row] /\ tomb' \subseteq Sessions /\ issued' \in Numbers
        /\ astray' \subseteq Sessions
    BY <1>2, TypeFacts DEF Nearby
  <2> QED BY <1>2, <2>1, BrokerType DEF Nearby
<1> QED BY <1>1, <1>2, SetNearbyCases

\* group.member.remove takes effect: those who are no members any more are told so.
Removed(s) ==
  LET who == Head(up[s]).who IN
  /\ Reads(s, "remove") /\ Read(s) /\ IsOwner(s, Head(up[s]).key)
  /\ who \in Sessions /\ who # group.owner /\ row[who].status # "none"
  /\ row' = [row EXCEPT ![who].status = "removed"] /\ live' = LiveAfter(who)
  /\ astray' = astray \cup {t \in Sessions \ {who} : live[t].in /\ ~live'[t].in}
  /\ \A t \in Sessions : Grown(down[t], down'[t])
  /\ \A t \in Sessions : (live[t].in => live'[t].in) => Quiet(down[t], down'[t])
  /\ Unreached
  /\ UNCHANGED <<group, tomb, conn, epoch, issued, extension, bounds>>

LEMMA RemoveCases ==
  ASSUME Types, NEW s \in Sessions, Remove(s)
  PROVE  \/ Reads(s, "remove") /\ Refuse(s)
         \/ Removed(s) /\ DownType' /\ row' \in [Sessions -> Row] /\ live' \in [Sessions -> Member]
<1> DEFINE m == Head(up[s])
           who == m.who
           r == [row EXCEPT ![m.who].status = "removed"]
           l == LiveAfter(m.who)
           f == [kind |-> "forget"]
           n(t) == Snapshot(t, group, r, l)
           d == [t \in Sessions |-> IF live[t].in /\ ~l[t].in /\ Reached(t)
                                    THEN Told(Append(down[t], f), n(t))
                                    ELSE down[t]]
<1>0. Reads(s, "remove")
  BY DEF Remove
<1>1. SUFFICES
        ASSUME /\ IsOwner(s, m.key) /\ who # group.owner /\ row[who].status # "none"
               /\ row' = r /\ live' = l /\ Read(s)
               /\ Told1(TellingGroup(d, group, r, l))
               /\ astray' = astray \cup {t \in Sessions \ {who} : live[t].in /\ ~l[t].in}
               /\ UNCHANGED <<group, tomb, conn, epoch, issued, extension, bounds>>
        PROVE  Removed(s) /\ DownType' /\ row' \in [Sessions -> Row] /\ live' \in [Sessions -> Member]
  BY <1>0 DEF Remove
<1>2. /\ group \in Group /\ row \in [Sessions -> Row] /\ live \in [Sessions -> Member]
      /\ DownTypes(down)
  BY TypeFacts
<1>3. who \in Sessions
  BY <1>0, ReadFacts, AskFields
<1>4. r \in [Sessions -> Row]
  <2>1. [row[who] EXCEPT !.status = "removed"] \in Row
    BY <1>2, <1>3 DEF Row, Statuses
  <2>2. r = [row EXCEPT ![who] = [row[who] EXCEPT !.status = "removed"]]
    OBVIOUS
  <2> QED BY <1>2, <1>3, <2>1, <2>2
<1>5. l \in [Sessions -> Member]
  BY <1>2, Values DEF LiveAfter
<1> HIDE DEF r, l
<1>6. ASSUME NEW t \in Sessions
      PROVE  /\ Grown(down[t], d[t]) /\ d[t] \in Seq(Answer)
             /\ ~Reached(t) => d[t] = down[t]
             /\ (live[t].in => l[t].in) => d[t] = down[t]
  <2>1. n(t) \in Answer /\ n(t).kind \notin News /\ down[t] \in Seq(Answer)
    BY <1>2, <1>4, <1>5, SnapshotFacts DEF DownTypes
  <2>2. \/ d[t] = down[t]
        \/ d[t] = Told(Append(down[t], f), n(t)) /\ Reached(t) /\ live[t].in /\ ~l[t].in
    OBVIOUS
  <2> HIDE DEF d, n
  <2>3. CASE d[t] = down[t]
    BY <2>1, <2>3, QuietSame, QuietGrown
  <2>4. CASE d[t] = Told(Append(down[t], f), n(t)) /\ Reached(t) /\ live[t].in /\ ~l[t].in
    <3>1. Append(down[t], f) \in Seq(Answer) /\ Grown(down[t], Append(down[t], f))
      BY <2>1, GrownForget
    <3>2. d[t] \in Seq(Answer) /\ Grown(Append(down[t], f), d[t])
      BY <2>1, <2>4, <3>1, QuietTold, QuietGrown
    <3>3. Grown(down[t], d[t])
      BY <2>1, <3>1, <3>2, GrownTwice
    <3> QED BY <2>4, <3>2, <3>3
  <2> QED BY <2>2, <2>3, <2>4
<1>7. DownTypes(d)
  BY <1>6 DEF DownTypes
<1> HIDE DEF d
<1>8. /\ DownType' /\ \A t \in Sessions : Quiet(d[t], down'[t])
      /\ \A t \in Sessions : ~Reached(t) => down'[t] = d[t]
  BY <1>1, <1>2, <1>4, <1>5, <1>7, GroupTold
<1>9. \A t \in Sessions : Grown(down[t], down'[t])
  <2>1. ASSUME NEW t \in Sessions PROVE Grown(down[t], down'[t])
    <3>1. down[t] \in Seq(Answer) /\ Grown(down[t], d[t]) /\ Grown(d[t], down'[t])
      BY <1>2, <1>6, <1>8, QuietGrown DEF DownTypes
    <3> QED BY <3>1, GrownTwice
  <2> QED BY <2>1
<1>10. \A t \in Sessions : (live[t].in => l[t].in) => Quiet(down[t], down'[t])
  BY <1>6, <1>8
<1>11. Unreached
  BY <1>6, <1>8 DEF Unreached
<1>12. Removed(s)
  BY <1>0, <1>1, <1>3, <1>9, <1>10, <1>11 DEF Removed, r, l
<1> QED BY <1>1, <1>4, <1>5, <1>8, <1>12

LEMMA RemoveType ==
  ASSUME Types, NEW s \in Sessions, Remove(s)
  PROVE  Types'
<1>1. CASE Reads(s, "remove") /\ Refuse(s)
  BY <1>1, RefuseType
<1>2. CASE Removed(s) /\ DownType' /\ row' \in [Sessions -> Row] /\ live' \in [Sessions -> Member]
  <2>1. group' \in Group /\ tomb' \subseteq Sessions /\ issued' \in Numbers /\ astray' \subseteq Sessions
    BY <1>2, TypeFacts DEF Removed
  <2> QED BY <1>2, <2>1, BrokerType DEF Removed
<1> QED BY <1>1, <1>2, RemoveCases

\* group.member.allow takes effect.
Allowed(s) ==
  LET who == Head(up[s]).who IN
  /\ Reads(s, "allow") /\ Read(s) /\ IsOwner(s, Head(up[s]).key) /\ who \in Sessions
  /\ row' = [row EXCEPT ![who] = NoRow]
  /\ astray' = IF live[who].in THEN astray \cup {who} ELSE astray
  /\ QuietAll
  /\ UNCHANGED <<group, tomb, memory, extension, bounds>>

LEMMA AllowCases ==
  ASSUME Types, NEW s \in Sessions, Allow(s)
  PROVE  \/ Reads(s, "allow") /\ Refuse(s)
         \/ Allowed(s) /\ DownType' /\ row' \in [Sessions -> Row]
<1> DEFINE m == Head(up[s])
           who == m.who
           r == [row EXCEPT ![m.who] = NoRow]
<1>0. Reads(s, "allow")
  BY DEF Allow
<1>1. SUFFICES
        ASSUME /\ IsOwner(s, m.key) /\ row' = r /\ Read(s)
               /\ Told1(TellingGroup(down, group, r, live))
               /\ astray' = IF live[m.who].in THEN astray \cup {m.who} ELSE astray
               /\ UNCHANGED <<group, tomb, memory, extension, bounds>>
        PROVE  Allowed(s) /\ DownType' /\ row' \in [Sessions -> Row]
  BY <1>0 DEF Allow
<1>2. /\ group \in Group /\ row \in [Sessions -> Row] /\ live \in [Sessions -> Member]
      /\ DownTypes(down)
  BY TypeFacts
<1>3. who \in Sessions
  BY <1>0, ReadFacts, AskFields
<1>4. r \in [Sessions -> Row]
  BY <1>2, <1>3, Values
<1> HIDE DEF r
<1>5. /\ DownType' /\ \A t \in Sessions : Quiet(down[t], down'[t])
      /\ \A t \in Sessions : ~Reached(t) => down'[t] = down[t]
  BY <1>1, <1>2, <1>4, GroupTold
<1>6. QuietAll
  BY <1>5 DEF QuietAll, Unreached
<1>7. Allowed(s)
  BY <1>0, <1>1, <1>3, <1>6 DEF Allowed, r
<1> QED BY <1>1, <1>4, <1>5, <1>7

LEMMA AllowType ==
  ASSUME Types, NEW s \in Sessions, Allow(s)
  PROVE  Types'
<1>1. CASE Reads(s, "allow") /\ Refuse(s)
  BY <1>1, RefuseType
<1>2. CASE Allowed(s) /\ DownType' /\ row' \in [Sessions -> Row]
  <2>1. /\ group' \in Group /\ tomb' \subseteq Sessions /\ issued' \in Numbers /\ astray' \subseteq Sessions
        /\ live' \in [Sessions -> Member]
    BY <1>2, TypeFacts DEF Allowed, memory
  <2> QED BY <1>2, <2>1, BrokerType DEF Allowed, memory
<1> QED BY <1>1, <1>2, AllowCases

\* group.delete takes effect.
Deleted(s) ==
  /\ Reads(s, "delete") /\ Read(s) /\ IsOwner(s, Head(up[s]).key)
  /\ group' = Gone /\ row' = [t \in Sessions |-> NoRow] /\ live' = [t \in Sessions |-> Out]
  /\ tomb' \subseteq Sessions
  /\ QuietAll
  /\ UNCHANGED <<conn, epoch, issued, extension, astray, bounds>>

LEMMA DeleteCases ==
  ASSUME Types, NEW s \in Sessions, Delete(s)
  PROVE  \/ Reads(s, "delete") /\ Refuse(s)
         \/ Deleted(s) /\ DownType'
<1> DEFINE m == Head(up[s])
           r == [t \in Sessions |-> NoRow]
           l == [t \in Sessions |-> Out]
           n(t) == Snapshot(t, Gone, r, l)
           d == [t \in Sessions |-> IF live[t].in /\ Reached(t) THEN Told(down[t], n(t)) ELSE down[t]]
<1>0. Reads(s, "delete")
  BY DEF Delete
<1>1. SUFFICES
        ASSUME /\ IsOwner(s, m.key) /\ Read(s)
               /\ group' = Gone /\ row' = r /\ live' = l
               /\ tomb' = tomb \cup {t \in Sessions : row[t].status # "none"}
               /\ Told1(d)
               /\ UNCHANGED <<conn, epoch, issued, extension, astray, bounds>>
        PROVE  Deleted(s) /\ DownType'
  BY <1>0 DEF Delete
<1>2. DownTypes(down) /\ tomb \subseteq Sessions
  BY TypeFacts
<1>3. r \in [Sessions -> Row] /\ l \in [Sessions -> Member] /\ Gone \in Group
  BY Values
<1> HIDE DEF r, l
<1>4. ASSUME NEW t \in Sessions
      PROVE  Quiet(down[t], d[t]) /\ d[t] \in Seq(Answer) /\ (~Reached(t) => d[t] = down[t])
  <2>1. n(t) \in Answer /\ n(t).kind \notin News /\ down[t] \in Seq(Answer)
    BY <1>2, <1>3, SnapshotFacts DEF DownTypes
  <2>2. (d[t] = down[t]) \/ (d[t] = Told(down[t], n(t)) /\ Reached(t))
    OBVIOUS
  <2> HIDE DEF d, n
  <2> QED BY <2>1, <2>2, QuietSame, QuietTold
<1>5. DownTypes(d) /\ DOMAIN d = Sessions /\ d = [t \in Sessions |-> d[t]]
  BY <1>4 DEF DownTypes
<1> HIDE DEF d
<1>6. DownType' /\ down' = d
  BY <1>1, <1>5, ToldType DEF Told1
<1>7. QuietAll
  BY <1>4, <1>6 DEF QuietAll, Unreached
<1>8. Deleted(s)
  BY <1>0, <1>1, <1>2, <1>7 DEF Deleted, r, l
<1> QED BY <1>6, <1>8

LEMMA DeleteType ==
  ASSUME Types, NEW s \in Sessions, Delete(s)
  PROVE  Types'
<1>1. CASE Reads(s, "delete") /\ Refuse(s)
  BY <1>1, RefuseType
<1>2. CASE Deleted(s) /\ DownType'
  <2>1. /\ group' \in Group /\ row' \in [Sessions -> Row] /\ live' \in [Sessions -> Member]
        /\ tomb' \subseteq Sessions /\ issued' \in Numbers /\ astray' \subseteq Sessions
    BY <1>2, TypeFacts, Values DEF Deleted
  <2> QED BY <1>2, <2>1, BrokerType DEF Deleted
<1> QED BY <1>1, <1>2, DeleteCases

\* group.owner.recover takes effect.
Recovered(s) ==
  /\ Reads(s, "recover") /\ Read(s) /\ MayRecover(s, Head(up[s]).cred)
  /\ group'.phase = group.phase /\ group'.owner = s /\ live' = OwnerFlags(s)
  /\ QuietAll
  /\ UNCHANGED <<row, tomb, conn, epoch, extension, astray, bounds>>

LEMMA RecoverCases ==
  ASSUME Types, NEW s \in Sessions, Recover(s)
  PROVE  \/ /\ Reads(s, "recover") /\ ~MayRecover(s, Head(up[s]).cred)
            /\ RefuseForGood(s) /\ UNCHANGED database
         \/ /\ Recovered(s) /\ DownType' /\ group' \in Group /\ live' \in [Sessions -> Member]
            /\ issued' \in Numbers
<1> DEFINE m == Head(up[s])
           g == [group EXCEPT !.owner = s, !.key = issued + 1]
           l == OwnerFlags(s)
           k == [kind |-> "ownerkey", key |-> issued + 1]
           d == Telling(down, s, <<k>>)
<1>0. Reads(s, "recover")
  BY DEF Recover
<1>1. SUFFICES
        ASSUME /\ MayRecover(s, m.cred) /\ issued < MaxIssued
               /\ group' = g /\ live' = l /\ issued' = issued + 1 /\ Read(s)
               /\ Told1(TellingGroup(d, g, row, l))
               /\ UNCHANGED <<row, tomb, conn, epoch, extension, astray, bounds>>
        PROVE  /\ Recovered(s) /\ DownType' /\ group' \in Group /\ live' \in [Sessions -> Member]
               /\ issued' \in Numbers
  BY <1>0 DEF Recover
<1>2. /\ group \in Group /\ row \in [Sessions -> Row] /\ live \in [Sessions -> Member]
      /\ DOMAIN down = Sessions /\ down = [t \in Sessions |-> down[t]] /\ DownTypes(down)
  BY TypeFacts
<1>3. issued + 1 \in Numbers
  BY <1>1, TypeFacts DEF Numbers
<1>4. g \in Group /\ g.phase = group.phase /\ g.owner = s
  BY <1>2, <1>3 DEF Group
<1>5. l \in [Sessions -> Member]
  <2>1. ASSUME NEW t \in Sessions
        PROVE  [live[t] EXCEPT !.owner = live[t].in /\ t = s] \in Member
    <3>1. live[t] \in Member /\ (live[t].in /\ t = s) \in BOOLEAN
      BY <1>2
    <3> QED BY <3>1 DEF Member
  <2> QED BY <2>1 DEF OwnerFlags
<1>6. k \in Answer /\ k.kind \notin News
  BY <1>3 DEF Answer, KeyAnswer, News
<1> HIDE DEF m, g, l, k
<1>7. /\ DOMAIN d = Sessions /\ d = [t \in Sessions |-> d[t]] /\ DownTypes(d)
      /\ \A t \in Sessions \ {s} : d[t] = down[t]
      /\ ~Reached(s) => d[s] = down[s]
      /\ Quiet(down[s], d[s])
  BY <1>2, <1>6, TellingOne
<1> HIDE DEF d
<1>8. /\ DownType' /\ \A t \in Sessions : Quiet(d[t], down'[t])
      /\ \A t \in Sessions : ~Reached(t) => down'[t] = d[t]
  BY <1>1, <1>2, <1>4, <1>5, <1>7, GroupTold
<1>9. QuietAll
  <2>1. ASSUME NEW t \in Sessions PROVE Quiet(down[t], down'[t])
    <3>1. down[t] \in Seq(Answer) /\ Quiet(d[t], down'[t])
      BY <1>2, <1>8 DEF DownTypes
    <3>2. Quiet(down[t], d[t])
      BY <1>7, <3>1, QuietSame
    <3> QED BY <3>1, <3>2, QuietTwice
  <2>2. Unreached
    BY <1>7, <1>8 DEF Unreached
  <2> QED BY <2>1, <2>2 DEF QuietAll
<1>10. Recovered(s)
  BY <1>0, <1>1, <1>4, <1>9 DEF Recovered, m, l
<1> QED BY <1>1, <1>3, <1>4, <1>5, <1>8, <1>10

LEMMA RecoverType ==
  ASSUME Types, NEW s \in Sessions, Recover(s)
  PROVE  Types'
<1>1. CASE Reads(s, "recover") /\ RefuseForGood(s) /\ UNCHANGED database
  BY <1>1, DatabaseKept, RefuseForGoodType
<1>2. CASE /\ Recovered(s) /\ DownType' /\ group' \in Group /\ live' \in [Sessions -> Member]
           /\ issued' \in Numbers
  <2>1. row' \in [Sessions -> Row] /\ tomb' \subseteq Sessions /\ astray' \subseteq Sessions
    BY <1>2, TypeFacts DEF Recovered
  <2> QED BY <1>2, <2>1, BrokerType DEF Recovered
<1> QED BY <1>1, <1>2, RecoverCases

LEMMA NextTypes == Types /\ [Next]_vars => Types'
<1> SUFFICES ASSUME Types, [Next]_vars PROVE Types'
  OBVIOUS
<1>1. CASE BrokerRestart
  BY <1>1, BrokerRestartType
<1>2. CASE \E s \in Sessions :
             Connect(s) \/ Cut(s) \/ Disconnected(s) \/ GraceEnds(s) \/ Reopen(s)
  BY <1>2, ConnectType, CutType, DisconnectedType, GraceEndsType, ReopenType
<1>3. CASE \E s \in Sessions : SendCreate(s) \/ SendJoin(s) \/ SendLeave(s) \/ SendCommand(s)
  BY <1>3, SendCreateType, SendJoinType, SendLeaveType, SendCommandType
<1>4. CASE \E s \in Sessions : Create(s) \/ Enroll(s) \/ Return(s) \/ Leave(s) \/ Goodbye(s)
  BY <1>4, CreateType, EnrollType, ReturnType, LeaveType, GoodbyeType
<1>5. CASE \E s \in Sessions : SetNearby(s) \/ Remove(s) \/ Allow(s) \/ Delete(s) \/ Recover(s)
  BY <1>5, SetNearbyType, RemoveType, AllowType, DeleteType, RecoverType
<1>6. CASE \E s \in Sessions :
             HearSnapshot(s) \/ HearWelcome(s) \/ HearOwnerKey(s) \/ HearForget(s)
  BY <1>6, HearSnapshotType, HearWelcomeType, HearOwnerKeyType, HearForgetType
<1>7. CASE UNCHANGED vars
  <2>1. DatabaseType' /\ MemoryType' /\ SessionType' /\ SavedType'
    BY <1>7 DEF vars, database, memory, extension, Types, DatabaseType, MemoryType, SessionType, SavedType
  <2>2. UpType' /\ DownType' /\ EpochType'
    BY <1>7 DEF vars, memory, extension, bounds, Types, UpType, UpTypes, DownType, DownTypes, Room, EpochType
  <2> QED BY <2>1, <2>2 DEF Types
<1> QED BY <1>1, <1>2, <1>3, <1>4, <1>5, <1>6, <1>7 DEF Next

LEMMA AlwaysTypes == Spec => []Types
  BY InitTypes, NextTypes, PTL DEF Spec

LEMMA TypesSuffice == Types => TypeOK
<1> SUFFICES ASSUME Types PROVE TypeOK
  OBVIOUS
<1> USE DEF Types
<1>1. /\ group \in [phase : {"unborn", "open", "gone"}, owner : Sessions \cup {Nobody},
                    key : 0..MaxIssued, near : BOOLEAN, code : BOOLEAN]
      /\ row \in [Sessions -> [status : Statuses, name : Names \cup {NoName}, cred : 0..MaxIssued]]
      /\ tomb \subseteq Sessions
  BY DEF DatabaseType, Group, Row, Numbers
<1>2. /\ live \in [Sessions -> [in : BOOLEAN, name : Names \cup {NoName}, owner : BOOLEAN]]
      /\ conn \in [Sessions -> {"off", "on", "grace"}] /\ issued \in 0..MaxIssued
  BY DEF MemoryType, Member, Numbers
<1>3. /\ link \in [Sessions -> {"down", "hello", "up"}] /\ token \in [Sessions -> BOOLEAN]
      /\ here \in [Sessions -> {"out", "member", "owner"}] /\ astray \subseteq Sessions
  BY DEF SessionType
<1>4. /\ saved \in [Sessions -> [cred : 0..MaxIssued, key : 0..MaxIssued]]
      /\ want \in [Sessions -> NotWanted..MaxIssued]
  BY DEF SavedType, SavedRecord, Numbers
<1>5. /\ epoch \in 1..MaxFaults + 1 /\ inst \in [Sessions -> 0..epoch]
      /\ commands \in 0..MaxCommands /\ faults \in 0..MaxFaults
  BY Constants DEF EpochType
<1>6. ASSUME NEW s \in Sessions
      PROVE  /\ Len(up[s]) <= MaxOnWay /\ Len(down[s]) <= MaxOnWay
             /\ \A i \in 1..Len(down[s]) :
                  LET m == down[s][i] IN m.kind = "snapshot" /\ (m.owner \/ m.listed) => m.in
  <2>1. Len(up[s]) <= MaxOnWay /\ Len(down[s]) <= MaxOnWay
    BY DEF UpType, UpTypes, DownType, Room
  <2>2. ASSUME NEW i \in 1..Len(down[s])
        PROVE  down[s][i].kind = "snapshot" /\ (down[s][i].owner \/ down[s][i].listed) => down[s][i].in
    <3>1. down[s] \in Seq(Answer)
      BY DEF DownType, DownTypes
    <3>2. down[s][i] \in Answer
      BY <3>1
    <3> QED BY <3>2, AnswerFields
  <2> QED BY <2>1, <2>2
<1> QED BY <1>1, <1>2, <1>3, <1>4, <1>5, <1>6 DEF TypeOK

\* Every variable keeps holding values of its kind, whatever the sessions, the names and
\* the bounds.
THEOREM TypeCorrect == Spec => []TypeOK
  BY AlwaysTypes, TypesSuffice, PTL

------------------------------------------------------------------------------
(* What sessions ask for concerns others where it must, and only a session on the  *)
(* broker's computer asks to become the owner.                                     *)

FineAsk(s, m) ==
  /\ m.op \in {"allow", "remove"} => m.who # s
  /\ m.op = "recover" => s \in Local

UpInv == \A s \in Sessions : \A i \in 1..Len(up[s]) : FineAsk(s, up[s][i])

\* What a step makes of the channel from a session to the broker
LEMMA UpSteps ==
  ASSUME Types, [Next]_vars, NEW t \in Sessions
  PROVE  \/ up'[t] = up[t] \/ up'[t] = <<>>
         \/ up[t] # <<>> /\ up'[t] = Tail(up[t])
         \/ \E m \in Ask : up'[t] = Append(up[t], m) /\ FineAsk(t, m)
<1> DEFINE Goal == \/ up'[t] = up[t] \/ up'[t] = <<>>
                   \/ up[t] # <<>> /\ up'[t] = Tail(up[t])
                   \/ \E m \in Ask : up'[t] = Append(up[t], m) /\ FineAsk(t, m)
<1> SUFFICES Goal
  OBVIOUS
<1>0. DOMAIN up = Sessions /\ up = [s \in Sessions |-> up[s]]
  BY DEF Types, UpType
<1>1. ASSUME NEW s \in Sessions, up' = [up EXCEPT ![s] = <<>>]
      PROVE  Goal
  BY <1>0, <1>1
<1>2. ASSUME NEW s \in Sessions, NEW op, Reads(s, op), Read(s)
      PROVE  Goal
  <2>1. up[s] # <<>> /\ up' = [up EXCEPT ![s] = Tail(up[s])]
    BY <1>2 DEF Reads, Read
  <2> QED BY <1>0, <2>1
<1>3. ASSUME NEW s \in Sessions, NEW m \in Ask, Sent(s, m), FineAsk(s, m)
      PROVE  Goal
  <2>1. up' = [up EXCEPT ![s] = Append(up[s], m)]
    BY <1>3 DEF Sent
  <2>2. CASE t = s
    <3>1. up'[t] = Append(up[t], m) /\ FineAsk(t, m)
      BY <1>0, <1>3, <2>1, <2>2
    <3> QED BY <3>1
  <2>3. CASE t # s
    BY <1>0, <2>1, <2>3
  <2> QED BY <2>2, <2>3
<1>4. CASE up' = up
  BY <1>4
<1> HIDE DEF Goal
<1>5. CASE BrokerRestart
  <2>1. up'[t] = <<>>
    BY <1>5 DEF BrokerRestart
  <2> QED BY <2>1 DEF Goal
<1>6. ASSUME NEW s \in Sessions,
             Connect(s) \/ Cut(s) \/ Disconnected(s) \/ GraceEnds(s) \/ Goodbye(s)
      PROVE  Goal
  BY <1>1, <1>4, <1>6 DEF Connect, Cut, Disconnected, GraceEnds, Goodbye
<1>7. ASSUME NEW s \in Sessions, Reopen(s) PROVE Goal
  <2>1. [op |-> "goodbye"] \in Ask /\ FineAsk(s, [op |-> "goodbye"])
    BY DEF Ask, PlainAsk, FineAsk
  <2> QED BY <1>3, <1>4, <1>7, <2>1 DEF Reopen, Sent
<1>8. ASSUME NEW s \in Sessions, SendCreate(s) PROVE Goal
  <2>1. PICK n \in NameOf[s], near \in BOOLEAN :
          Sent(s, [op |-> "create", name |-> n, near |-> near, code |-> near])
    BY <1>8 DEF SendCreate
  <2> DEFINE m == [op |-> "create", name |-> n, near |-> near, code |-> near]
  <2>2. m \in Ask /\ FineAsk(s, m)
    BY Constants DEF Ask, CreateAsk, FineAsk
  <2>3. Sent(s, m)
    BY <2>1
  <2> HIDE DEF m
  <2> QED BY <1>3, <2>2, <2>3
<1>9. ASSUME NEW s \in Sessions, SendJoin(s) PROVE Goal
  <2>1. CASE Sent(s, [op |-> "return", cred |-> saved[s].cred])
    <3> DEFINE m == [op |-> "return", cred |-> saved[s].cred]
    <3>1. m \in Ask /\ FineAsk(s, m)
      BY SavedFacts DEF Ask, CredAsk, FineAsk
    <3>2. Sent(s, m)
      BY <2>1
    <3> HIDE DEF m
    <3> QED BY <1>3, <3>1, <3>2
  <2>2. CASE \E n \in NameOf[s], code \in BOOLEAN :
               Sent(s, [op |-> "enroll", name |-> n, code |-> code])
    <3>1. PICK n \in NameOf[s], code \in BOOLEAN :
               Sent(s, [op |-> "enroll", name |-> n, code |-> code])
      BY <2>2
    <3> DEFINE m == [op |-> "enroll", name |-> n, code |-> code]
    <3>2. m \in Ask /\ FineAsk(s, m)
      BY Constants DEF Ask, EnrollAsk, FineAsk
    <3>3. Sent(s, m)
      BY <3>1
    <3> HIDE DEF m
    <3> QED BY <1>3, <3>2, <3>3
  <2> QED BY <1>9, <2>1, <2>2 DEF SendJoin
<1>10. ASSUME NEW s \in Sessions, SendLeave(s) PROVE Goal
  <2> DEFINE m == [op |-> "leave"]
  <2>1. m \in Ask /\ FineAsk(s, m)
    BY DEF Ask, PlainAsk, FineAsk
  <2>2. Sent(s, m)
    BY <1>10 DEF SendLeave
  <2> HIDE DEF m
  <2> QED BY <1>3, <2>1, <2>2
<1>11. ASSUME NEW s \in Sessions, SendCommand(s) PROVE Goal
  <2>1. PICK m \in Ask :
           /\ Sent(s, m)
           /\ m.op \in {"recover", "near", "allow", "remove", "delete"}
           /\ m.op = "recover" => s \in Local /\ m.cred = saved[s].cred /\ saved[s].cred # 0
           /\ m.op \in {"allow", "remove"} => m.who # s
    BY <1>11, CommandSent
  <2>2. FineAsk(s, m)
    BY <2>1 DEF FineAsk
  <2> QED BY <1>3, <2>1, <2>2
<1>12. ASSUME NEW s \in Sessions, NEW op, Reads(s, op), JoinGone(s) PROVE Goal
  BY <1>2, <1>12 DEF JoinGone, RefuseForGood, Refuse
<1>13. ASSUME NEW s \in Sessions, Create(s) PROVE Goal
  BY <1>2, <1>13 DEF Create, Refuse
<1>14. ASSUME NEW s \in Sessions, Enroll(s) PROVE Goal
  BY <1>1, <1>2, <1>12, <1>14, EnrollCases DEF RejectInvite, Refuse, Enrolled
<1>15. ASSUME NEW s \in Sessions, Return(s) PROVE Goal
  BY <1>2, <1>12, <1>15, ReturnCases DEF RefuseForGood, Refuse, Returned
<1>16. ASSUME NEW s \in Sessions, Leave(s) \/ SetNearby(s) \/ Remove(s) PROVE Goal
  BY <1>2, <1>16, LeaveCases, SetNearbyCases, RemoveCases DEF Refuse, Left, Nearby, Removed
<1>17. ASSUME NEW s \in Sessions, Allow(s) \/ Delete(s) \/ Recover(s) PROVE Goal
  BY <1>2, <1>17, AllowCases, DeleteCases, RecoverCases DEF Refuse, RefuseForGood, Allowed, Deleted, Recovered
<1>18. ASSUME NEW s \in Sessions, HearSnapshot(s) PROVE Goal
  <2> DEFINE wanted == WantAfter(s, Head(down[s]), inst[s] \notin {0, epoch})
  <2>1. CASE wanted > 0 /\ Sent(s, [op |-> "return", cred |-> wanted])
    <3> DEFINE m == [op |-> "return", cred |-> wanted]
    <3>1. wanted \in NotWanted..MaxIssued
      BY SavedFacts DEF WantAfter
    <3>2. wanted \in Numbers
      BY <2>1, <3>1, Constants DEF Numbers, NotWanted
    <3> HIDE DEF wanted
    <3>3. m \in Ask /\ FineAsk(s, m)
      BY <3>2 DEF Ask, CredAsk, FineAsk
    <3>4. Sent(s, m)
      BY <2>1
    <3> HIDE DEF m
    <3> QED BY <1>3, <3>3, <3>4
  <2> QED BY <1>4, <1>18, <2>1 DEF HearSnapshot
<1>19. ASSUME NEW s \in Sessions, HearWelcome(s) \/ HearOwnerKey(s) \/ HearForget(s) PROVE Goal
  BY <1>4, <1>19 DEF HearWelcome, HearOwnerKey, HearForget
<1>20. CASE UNCHANGED vars
  BY <1>4, <1>20 DEF vars
<1> QED BY <1>5, <1>6, <1>7, <1>8, <1>9, <1>10, <1>11, <1>13, <1>14, <1>15, <1>16, <1>17, <1>18,
           <1>19, <1>20 DEF Next

LEMMA NextUp == Types /\ UpInv /\ [Next]_vars => UpInv'
<1> SUFFICES ASSUME Types, UpInv, [Next]_vars, NEW t \in Sessions, NEW i \in 1..Len(up'[t])
             PROVE  FineAsk(t, up'[t][i])
  BY DEF UpInv
<1>1. up[t] \in Seq(Ask) /\ \A j \in 1..Len(up[t]) : FineAsk(t, up[t][j])
  BY DEF UpInv, Types, UpType, UpTypes
<1>2. CASE up'[t] = up[t]
  BY <1>1, <1>2
<1>3. CASE up'[t] = <<>>
  <2>1. FALSE
    BY <1>3
  <2> QED BY <2>1
<1>4. CASE up[t] # <<>> /\ up'[t] = Tail(up[t])
  <2>1. up'[t][i] = up[t][i + 1] /\ i + 1 \in 1..Len(up[t])
    BY <1>1, <1>4, TailFacts
  <2> QED BY <1>1, <2>1
<1>5. ASSUME NEW m \in Ask, up'[t] = Append(up[t], m), FineAsk(t, m)
      PROVE  FineAsk(t, up'[t][i])
  <2> DEFINE q == up[t]
             a == Append(q, m)
  <2>1. /\ Len(a) = Len(q) + 1 /\ Len(q) \in Nat
        /\ \A j \in 1..Len(q) : a[j] = q[j]
        /\ a[Len(q) + 1] = m
    BY <1>1, AppendFacts
  <2>2. up'[t][i] = a[i] /\ i \in 1..Len(a)
    BY <1>5
  <2> HIDE DEF a
  <2>3. i \in 1..Len(q) \/ i = Len(q) + 1
    BY <2>1, <2>2
  <2>4. CASE i \in 1..Len(q)
    BY <1>1, <2>1, <2>2, <2>4
  <2>5. CASE i = Len(q) + 1
    BY <1>5, <2>1, <2>2, <2>5
  <2> QED BY <2>3, <2>4, <2>5
<1> QED BY <1>2, <1>3, <1>4, <1>5, UpSteps

LEMMA AlwaysUp == Spec => []UpInv
<1>1. Init => UpInv
  <2> SUFFICES ASSUME Init, NEW s \in Sessions, NEW i \in 1..Len(up[s]) PROVE FALSE
    BY DEF UpInv
  <2>1. up[s] = <<>>
    BY DEF Init
  <2> QED BY <2>1
<1> QED BY <1>1, NextUp, AlwaysTypes, PTL DEF Spec

------------------------------------------------------------------------------
(* Database and memory *)

\* Nothing about the group changes but that members are put out.
Fewer ==
  /\ row' = row /\ group'.phase = group.phase /\ group'.owner = group.owner
  /\ \A t \in Sessions : live'[t] = live[t] \/ live'[t] = Out
  /\ \A t \in Sessions : conn'[t] = "off" => conn[t] = "off" \/ live'[t] = Out
  /\ \A t \in Sessions : t \in astray /\ t \notin astray' => row[t].status # "none"

LEMMA SeatSteps ==
  ASSUME Types, [Next]_vars
  PROVE  \/ Fewer
         \/ \E s \in Sessions :
              \/ Create(s) /\ ~Refuse(s)
              \/ Enrolled(s) \/ Returned(s) \/ Left(s) \/ Removed(s)
              \/ (Allowed(s) /\ Allow(s)) \/ (Deleted(s) /\ Delete(s)) \/ Recovered(s)
<1> DEFINE Taken == \E s \in Sessions :
              \/ Create(s) /\ ~Refuse(s)
              \/ Enrolled(s) \/ Returned(s) \/ Left(s) \/ Removed(s)
              \/ (Allowed(s) /\ Allow(s)) \/ (Deleted(s) /\ Delete(s)) \/ Recovered(s)
<1> SUFFICES ASSUME ~Taken PROVE Fewer
  OBVIOUS
<1>0. /\ DOMAIN live = Sessions /\ DOMAIN conn = Sessions
      /\ row \in [Sessions -> Row] /\ live \in [Sessions -> Member]
      /\ conn \in [Sessions -> {"off", "on", "grace"}]
  BY DEF Types, MemoryType, DatabaseType
<1>1. CASE UNCHANGED <<group, row, live, conn>> /\ astray \subseteq astray'
  BY <1>1 DEF Fewer
<1> HIDE DEF Taken
<1>2. CASE BrokerRestart
  BY <1>0, <1>2 DEF BrokerRestart, Fewer, database
<1>3. ASSUME NEW s \in Sessions, Connect(s) \/ Disconnected(s) \/ RejectInvite(s) PROVE Fewer
  <2>1. /\ UNCHANGED <<group, row, live, astray>>
        /\ (\E c \in {"on", "grace"} : conn' = [conn EXCEPT ![s] = c]) \/ conn' = conn
    BY <1>3 DEF Connect, Disconnected, RejectInvite, database, extension
  <2> QED BY <1>0, <2>1 DEF Fewer
<1>4. ASSUME NEW s \in Sessions, GraceEnds(s) \/ Goodbye(s) PROVE Fewer
  <2>1. /\ UNCHANGED <<group, row, astray>>
        /\ conn' = [conn EXCEPT ![s] = "off"] /\ live' = [live EXCEPT ![s] = Out]
    BY <1>4 DEF GraceEnds, Goodbye, database, extension
  <2> QED BY <1>0, <2>1 DEF Fewer
<1>5. ASSUME NEW s \in Sessions,
             \/ Cut(s) \/ Reopen(s) \/ SendCreate(s) \/ SendJoin(s) \/ SendLeave(s) \/ SendCommand(s)
             \/ HearSnapshot(s) \/ HearOwnerKey(s) \/ HearForget(s)
      PROVE  Fewer
  <2>1. UNCHANGED <<group, row, live, conn>> /\ astray \subseteq astray'
    BY <1>5 DEF Cut, Reopen, SendCreate, SendJoin, SendLeave, SendCommand, HearSnapshot,
             HearOwnerKey, HearForget, database, memory
  <2> QED BY <1>1, <2>1
<1>6. ASSUME NEW s \in Sessions, HearWelcome(s) PROVE Fewer
  <2>1. UNCHANGED <<group, row, live, conn>>
    BY <1>6 DEF HearWelcome, database, memory
  <2>2. \A t \in Sessions : t \in astray /\ t \notin astray' => row[t].status # "none"
    BY <1>6 DEF HearWelcome, Lasting, HasCredential
  <2> QED BY <2>1, <2>2 DEF Fewer
<1>7. ASSUME NEW s \in Sessions, Refuse(s) PROVE Fewer
  BY <1>1, <1>7 DEF Refuse, database, memory
<1>8. ASSUME NEW s \in Sessions, RefuseForGood(s), group' = group, row' = row PROVE Fewer
  BY <1>1, <1>8 DEF RefuseForGood, memory
<1>9. ASSUME NEW s \in Sessions, JoinGone(s) PROVE Fewer
  BY <1>7, <1>8, <1>9 DEF JoinGone, TombTaken
<1>10. ASSUME NEW s \in Sessions, Create(s) PROVE Fewer
  BY <1>7, <1>10 DEF Taken
<1>11. ASSUME NEW s \in Sessions, Enroll(s) PROVE Fewer
  BY <1>3, <1>7, <1>9, <1>11, EnrollCases DEF Taken
<1>12. ASSUME NEW s \in Sessions, Return(s) PROVE Fewer
  BY <1>7, <1>8, <1>9, <1>12, ReturnCases DEF Taken, database
<1>13. ASSUME NEW s \in Sessions, Leave(s) \/ Remove(s) \/ Allow(s) \/ Delete(s) PROVE Fewer
  BY <1>7, <1>13, LeaveCases, RemoveCases, AllowCases, DeleteCases DEF Taken
<1>14. ASSUME NEW s \in Sessions, Recover(s) PROVE Fewer
  BY <1>8, <1>14, RecoverCases DEF Taken, database
<1>15. ASSUME NEW s \in Sessions, SetNearby(s) PROVE Fewer
  <2>1. CASE Nearby(s)
    <3>1. group.phase = "open"
      BY <2>1 DEF Nearby, IsOwner
    <3> QED BY <2>1, <3>1 DEF Nearby, Fewer
  <2> QED BY <1>7, <1>15, <2>1, SetNearbyCases
<1>16. CASE UNCHANGED vars
  BY <1>1, <1>16 DEF vars, database, memory
<1> QED BY <1>2, <1>3, <1>4, <1>5, <1>6, <1>10, <1>11, <1>12, <1>13, <1>14, <1>15, <1>16 DEF Next

\* Nobody belongs to a group that is not in the database.
NoGroup ==
  group.phase # "open" =>
    \A s \in Sessions : row[s].status = "none" /\ ~live[s].in /\ ~live[s].owner

SeatsInv == NoGroup /\ SeatsAgree /\ OwnerKeepsSeat

\* SeatsAgree for one session, and for two
Seat(s) ==
  /\ row[s].status = "removed" \/ conn[s] = "off" => ~live[s].in
  /\ live[s].in /\ row[s].status # "none" => live[s].name = row[s].name
  /\ live[s].in => row[s].status = "active" \/ s \in astray

Apart(s, t) ==
  /\ row[s].status = "active" => row[t].status # "active" \/ row[s].name # row[t].name
  /\ live[s].in => ~live[t].in \/ live[s].name # live[t].name

LEMMA SeatsByPart ==
  SeatsAgree <=> (\A s \in Sessions : Seat(s) /\ \A t \in Sessions \ {s} : Apart(s, t))
  BY DEF SeatsAgree, Seat, Apart

LEMMA NextSeats == Types /\ UpInv /\ SeatsInv /\ [Next]_vars => SeatsInv'
<1> SUFFICES ASSUME Types, UpInv, SeatsInv, [Next]_vars PROVE SeatsInv'
  OBVIOUS
<1>0. /\ row \in [Sessions -> Row] /\ live \in [Sessions -> Member]
      /\ NoRow.status = "none" /\ Out.in = FALSE /\ Out.owner = FALSE
      /\ \A s \in Sessions : Seat(s)
      /\ \A s, t \in Sessions : s # t => Apart(s, t)
      /\ NoGroup /\ OwnerKeepsSeat
  BY TypeFacts, Values, SeatsByPart DEF SeatsInv
<1>a. ASSUME \A s \in Sessions : Seat(s)', \A s, t \in Sessions : s # t => Apart(s, t)'
      PROVE  SeatsAgree'
  BY <1>a DEF SeatsAgree, Seat, Apart
<1>1. CASE Fewer
  <2>1. ASSUME NEW s \in Sessions PROVE Seat(s)'
    <3>1. row[s].status \in {"none", "active", "removed"}
      BY <1>0 DEF Row, Statuses
    <3>2. CASE live'[s] = Out
      BY <1>0, <1>1, <3>2 DEF Fewer, Seat
    <3>3. CASE live'[s] = live[s] /\ live'[s] # Out
      BY <1>0, <1>1, <3>1, <3>3 DEF Fewer, Seat
    <3> QED BY <1>1, <3>2, <3>3 DEF Fewer
  <2>2. ASSUME NEW s \in Sessions, NEW t \in Sessions, s # t PROVE Apart(s, t)'
    BY <1>0, <1>1, <2>2 DEF Fewer, Apart
  <2>3. NoGroup'
    BY <1>0, <1>1 DEF Fewer, NoGroup
  <2>4. OwnerKeepsSeat'
    BY <1>0, <1>1 DEF Fewer, OwnerKeepsSeat
  <2> QED BY <1>a, <2>1, <2>2, <2>3, <2>4 DEF SeatsInv
<1>2. ASSUME NEW s \in Sessions, Create(s), ~Refuse(s) PROVE SeatsInv'
  <2> DEFINE n == Head(up[s]).name
             r == [status |-> "active", name |-> n, cred |-> issued + 1]
  <2>1. /\ Reads(s, "create") /\ group.phase = "unborn"
        /\ group'.phase = "open" /\ group'.owner = s
        /\ row' = [row EXCEPT ![s] = r]
        /\ live' = [live EXCEPT ![s] = Inside(n, TRUE)]
        /\ conn' = conn /\ n \in Names
    BY <1>2, CreateMade
  <2>2. r.status = "active" /\ r.name = n
    OBVIOUS
  <2>3. Inside(n, TRUE).in = TRUE /\ Inside(n, TRUE).name = n /\ Inside(n, TRUE).owner = TRUE
    BY DEF Inside
  <2>4. conn[s] = "on" /\ s # Nobody
    BY <2>1, Constants DEF Reads
  <2>5. \A t \in Sessions : row[t].status = "none" /\ ~live[t].in /\ ~live[t].owner
    BY <1>0, <2>1 DEF NoGroup
  <2> HIDE DEF r, n
  <2>6. /\ row'[s].status = "active" /\ row'[s].name = n
        /\ live'[s].in = TRUE /\ live'[s].name = n /\ live'[s].owner = TRUE
        /\ \A t \in Sessions \ {s} : row'[t].status = "none" /\ ~live'[t].in /\ ~live'[t].owner
    BY <1>0, <2>1, <2>2, <2>3, <2>5
  <2>7. ASSUME NEW t \in Sessions PROVE Seat(t)'
    BY <2>1, <2>4, <2>6 DEF Seat
  <2>8. ASSUME NEW t \in Sessions, NEW u \in Sessions, t # u PROVE Apart(t, u)'
    BY <2>6, <2>8 DEF Apart
  <2>9. NoGroup' /\ OwnerKeepsSeat'
    BY <2>1, <2>4, <2>6 DEF NoGroup, OwnerKeepsSeat
  <2> QED BY <1>a, <2>7, <2>8, <2>9 DEF SeatsInv
<1>3. ASSUME NEW s \in Sessions, Enrolled(s) PROVE SeatsInv'
  <2> DEFINE n == Head(up[s]).name
             r == [status |-> "active", name |-> n, cred |-> issued + 1]
             i == Inside(n, FALSE)
  <2>1. /\ Reads(s, "enroll") /\ ~live[s].in /\ group.phase = "open" /\ NameFree(n) /\ Insertable(s)
        /\ group' = group /\ conn' = conn
        /\ row' = [row EXCEPT ![s] = r]
    BY <1>3 DEF Enrolled
  <2>2. r.status = "active" /\ r.name = n /\ i.in = TRUE /\ i.name = n /\ i.owner = FALSE
    BY DEF Inside
  <2>3. \/ Joinable(n) /\ live' = [live EXCEPT ![s] = i] /\ (s \in astray' <=> s \in astray \/ ~Reached(s))
        \/ live' = live
    BY <1>3 DEF Enrolled, LostOnWay
  <2>4. \A t \in Sessions \ {s} : t \in astray => t \in astray'
    BY <1>3 DEF Enrolled, LostOnWay
  <2>5. conn[s] = "on" /\ row[s].status = "none"
    BY <2>1 DEF Reads, Insertable
  <2> HIDE DEF r, n, i
  <2>6. /\ row'[s].status = "active" /\ row'[s].name = n
        /\ \A t \in Sessions \ {s} : row'[t] = row[t] /\ live'[t] = live[t]
        /\ \/ Joinable(n) /\ live'[s].in = TRUE /\ live'[s].name = n /\ live'[s].owner = FALSE
           \/ live'[s] = live[s]
    BY <1>0, <2>1, <2>2, <2>3
  <2>7. ASSUME NEW t \in Sessions PROVE Seat(t)'
    <3>1. CASE t = s
      BY <2>1, <2>5, <2>6, <3>1 DEF Seat
    <3>2. CASE t # s
      BY <1>0, <2>1, <2>4, <2>6, <3>2 DEF Seat
    <3> QED BY <3>1, <3>2
  <2>8. ASSUME NEW t \in Sessions, NEW u \in Sessions, t # u PROVE Apart(t, u)'
    <3>1. CASE t # s /\ u # s
      BY <1>0, <2>6, <2>8, <3>1 DEF Apart
    <3>2. CASE t = s
      BY <1>0, <2>1, <2>6, <2>8, <3>2 DEF Apart, NameFree, Joinable
    <3>3. CASE u = s
      BY <1>0, <2>1, <2>6, <2>8, <3>3 DEF Apart, NameFree, Joinable
    <3> QED BY <3>1, <3>2, <3>3
  <2>9. OwnerKeepsSeat'
    <3>1. group.owner # Nobody /\ row[group.owner].status = "active" /\ group.owner # s
      BY <1>0, <2>1, <2>5 DEF OwnerKeepsSeat
    <3>2. row'[group.owner].status = "active"
      BY <1>0, <2>1, <3>1
    <3>3. ASSUME NEW t \in Sessions PROVE live'[t].owner <=> live'[t].in /\ group'.owner = t
      <4>1. live[t].owner <=> live[t].in /\ group.owner = t
        BY <1>0, <2>1 DEF OwnerKeepsSeat
      <4> QED BY <2>1, <2>6, <3>1, <4>1
    <3> QED BY <2>1, <3>1, <3>2, <3>3 DEF OwnerKeepsSeat
  <2>10. NoGroup'
    BY <2>1 DEF NoGroup
  <2> QED BY <1>a, <2>7, <2>8, <2>9, <2>10 DEF SeatsInv
<1>4. ASSUME NEW s \in Sessions, Returned(s) PROVE SeatsInv'
  <2> DEFINE o == group.owner = s
             i == Inside(row[s].name, o)
  <2>1. /\ Reads(s, "return") /\ ~live[s].in /\ group.phase = "open"
        /\ row[s].status = "active" /\ Joinable(row[s].name)
        /\ group' = group /\ row' = row /\ conn' = conn /\ astray' = astray
        /\ live' = [live EXCEPT ![s] = i]
    BY <1>4 DEF Returned, MayReturn, database
  <2>2. i.in = TRUE /\ i.name = row[s].name /\ (i.owner <=> group.owner = s)
    BY DEF Inside
  <2>3. conn[s] = "on"
    BY <2>1 DEF Reads
  <2> HIDE DEF i
  <2>4. /\ live'[s].in = TRUE /\ live'[s].name = row[s].name /\ (live'[s].owner <=> group.owner = s)
        /\ \A t \in Sessions \ {s} : live'[t] = live[t]
    BY <1>0, <2>1, <2>2
  <2>5. ASSUME NEW t \in Sessions PROVE Seat(t)'
    BY <1>0, <2>1, <2>3, <2>4 DEF Seat
  <2>6. ASSUME NEW t \in Sessions, NEW u \in Sessions, t # u PROVE Apart(t, u)'
    BY <1>0, <2>1, <2>4, <2>6 DEF Apart, Joinable
  <2>7. NoGroup' /\ OwnerKeepsSeat'
    BY <1>0, <2>1, <2>4 DEF NoGroup, OwnerKeepsSeat
  <2> QED BY <1>a, <2>5, <2>6, <2>7 DEF SeatsInv
<1>5. ASSUME NEW s \in Sessions, Left(s) PROVE SeatsInv'
  <2>1. /\ live[s].in /\ group.owner # s /\ group' = group /\ conn' = conn /\ astray' = astray
        /\ row' = [row EXCEPT ![s] = NoRow] /\ live' = [live EXCEPT ![s] = Out]
    BY <1>5 DEF Left, MayLeave
  <2>2. /\ row'[s] = NoRow /\ live'[s] = Out
        /\ \A t \in Sessions \ {s} : live'[t] = live[t] /\ row'[t] = row[t]
    BY <1>0, <2>1
  <2>3. ASSUME NEW t \in Sessions PROVE Seat(t)'
    BY <1>0, <2>1, <2>2 DEF Seat
  <2>4. ASSUME NEW t \in Sessions, NEW u \in Sessions, t # u PROVE Apart(t, u)'
    BY <1>0, <2>2, <2>4 DEF Apart
  <2>5. group.phase = "open"
    BY <1>0, <2>1 DEF NoGroup
  <2>6. OwnerKeepsSeat'
    <3>1. row'[group.owner].status = "active"
      BY <1>0, <2>1, <2>5 DEF OwnerKeepsSeat
    <3> QED BY <1>0, <2>1, <2>2, <2>5, <3>1 DEF OwnerKeepsSeat
  <2>7. NoGroup'
    BY <2>1, <2>5 DEF NoGroup
  <2> QED BY <1>a, <2>3, <2>4, <2>6, <2>7 DEF SeatsInv
<1>6. ASSUME NEW s \in Sessions, Removed(s) PROVE SeatsInv'
  <2> DEFINE who == Head(up[s]).who
  <2>1. /\ who \in Sessions /\ who # group.owner /\ row[who].status # "none"
        /\ row' = [row EXCEPT ![who].status = "removed"] /\ live' = LiveAfter(who)
        /\ astray \subseteq astray' /\ group' = group /\ conn' = conn /\ group.phase = "open"
    BY <1>6 DEF Removed, IsOwner
  <2> HIDE DEF who
  <2>2. /\ row'[who].status = "removed" /\ row'[who].name = row[who].name
        /\ \A t \in Sessions \ {who} : row'[t] = row[t]
    <3>1. row[who] \in Row
      BY <1>0, <2>1
    <3> QED BY <1>0, <2>1, <3>1 DEF Row
  <2>3. \A t \in Sessions :
          live'[t] = IF live[t].in /\ live[t].name = row[who].name THEN Out ELSE live[t]
    BY <2>1 DEF LiveAfter
  <2>4. ~live'[who].in
    BY <1>0, <2>1, <2>3 DEF Seat
  <2>5. ASSUME NEW t \in Sessions PROVE Seat(t)'
    <3>1. CASE t = who
      BY <2>4, <3>1 DEF Seat
    <3>2. CASE t # who
      BY <1>0, <2>1, <2>2, <2>3, <3>2 DEF Seat
    <3> QED BY <3>1, <3>2
  <2>6. ASSUME NEW t \in Sessions, NEW u \in Sessions, t # u PROVE Apart(t, u)'
    BY <1>0, <2>2, <2>3, <2>6 DEF Apart
  <2>7. OwnerKeepsSeat'
    <3>1. row'[group.owner].status = "active"
      BY <1>0, <2>1 DEF OwnerKeepsSeat
    <3> QED BY <1>0, <2>1, <2>3, <3>1 DEF OwnerKeepsSeat
  <2>8. NoGroup'
    BY <2>1 DEF NoGroup
  <2> QED BY <1>a, <2>5, <2>6, <2>7, <2>8 DEF SeatsInv
<1>7. ASSUME NEW s \in Sessions, Allowed(s) PROVE SeatsInv'
  <2> DEFINE who == Head(up[s]).who
  <2>1. /\ who \in Sessions /\ group.owner = s /\ group.phase = "open"
        /\ row' = [row EXCEPT ![who] = NoRow]
        /\ astray' = IF live[who].in THEN astray \cup {who} ELSE astray
        /\ group' = group /\ conn' = conn /\ live' = live
    BY <1>7 DEF Allowed, IsOwner, memory
  <2>2. who # s
    <3>1. Reads(s, "allow")
      BY <1>7 DEF Allowed
    <3>2. Head(up[s]) = up[s][1] /\ Head(up[s]).op = "allow" /\ 1 \in 1..Len(up[s])
      BY <3>1, ReadFacts DEF Types, UpType, UpTypes
    <3> QED BY <3>2 DEF UpInv, FineAsk
  <2> HIDE DEF who
  <2>3. row'[who] = NoRow /\ \A t \in Sessions \ {who} : row'[t] = row[t]
    BY <1>0, <2>1
  <2>4. ASSUME NEW t \in Sessions PROVE Seat(t)'
    BY <1>0, <2>1, <2>3 DEF Seat
  <2>5. ASSUME NEW t \in Sessions, NEW u \in Sessions, t # u PROVE Apart(t, u)'
    BY <1>0, <2>1, <2>3, <2>5 DEF Apart
  <2>6. NoGroup' /\ OwnerKeepsSeat'
    BY <1>0, <2>1, <2>2, <2>3 DEF NoGroup, OwnerKeepsSeat
  <2> QED BY <1>a, <2>4, <2>5, <2>6 DEF SeatsInv
<1>8. ASSUME NEW s \in Sessions, Deleted(s) PROVE SeatsInv'
  <2>1. /\ group'.phase = "gone"
        /\ \A t \in Sessions : row'[t] = NoRow /\ live'[t] = Out
    BY <1>8, Values DEF Deleted
  <2>2. ASSUME NEW t \in Sessions PROVE Seat(t)'
    BY <1>0, <2>1 DEF Seat
  <2>3. ASSUME NEW t \in Sessions, NEW u \in Sessions, t # u PROVE Apart(t, u)'
    BY <1>0, <2>1 DEF Apart
  <2>4. NoGroup' /\ OwnerKeepsSeat'
    BY <1>0, <2>1 DEF NoGroup, OwnerKeepsSeat
  <2> QED BY <1>a, <2>2, <2>3, <2>4 DEF SeatsInv
<1>9. ASSUME NEW s \in Sessions, Recovered(s) PROVE SeatsInv'
  <2>1. /\ row[s].status = "active" /\ group'.phase = group.phase /\ group'.owner = s
        /\ live' = OwnerFlags(s) /\ row' = row /\ conn' = conn /\ astray' = astray
    BY <1>9 DEF Recovered, MayRecover
  <2>2. ASSUME NEW t \in Sessions
        PROVE  /\ live'[t].in = live[t].in /\ live'[t].name = live[t].name
               /\ live'[t].owner <=> live[t].in /\ t = s
    <3>1. live[t] \in Member /\ live'[t] = [live[t] EXCEPT !.owner = live[t].in /\ t = s]
      BY <1>0, <2>1 DEF OwnerFlags
    <3> QED BY <3>1 DEF Member
  <2>3. group.phase = "open" /\ s # Nobody
    BY <1>0, <2>1, Constants DEF NoGroup
  <2>4. ASSUME NEW t \in Sessions PROVE Seat(t)'
    BY <1>0, <2>1, <2>2 DEF Seat
  <2>5. ASSUME NEW t \in Sessions, NEW u \in Sessions, t # u PROVE Apart(t, u)'
    BY <1>0, <2>1, <2>2, <2>5 DEF Apart
  <2>6. NoGroup'
    BY <2>1, <2>3 DEF NoGroup
  <2>7. OwnerKeepsSeat'
    BY <2>1, <2>2, <2>3 DEF OwnerKeepsSeat
  <2> QED BY <1>a, <2>4, <2>5, <2>6, <2>7 DEF SeatsInv
<1> QED BY <1>1, <1>2, <1>3, <1>4, <1>5, <1>6, <1>7, <1>8, <1>9, SeatSteps

LEMMA AlwaysSeats == Spec => []SeatsInv
<1>1. Init => SeatsInv
  <2> SUFFICES ASSUME Init PROVE SeatsInv
    OBVIOUS
  <2>1. /\ group.phase = "unborn"
        /\ \A s \in Sessions : row[s].status = "none" /\ ~live[s].in /\ ~live[s].owner
    BY Values DEF Init
  <2> QED BY <2>1 DEF SeatsInv, NoGroup, SeatsAgree, OwnerKeepsSeat
<1> QED BY <1>1, NextSeats, AlwaysTypes, AlwaysUp, PTL DEF Spec

\* SeatsAgree: the rows of group_memberships and GroupState's members agree, whatever
\* joins, leaves, removes, connects or restarts (server.ts handleGroupJoin and the
\* handlers of group.*).
THEOREM SeatsAlwaysAgree == Spec => []SeatsAgree
  BY AlwaysSeats, PTL DEF SeatsInv

\* OwnerKeepsSeat: a group in the database has one owner, a member in force, and memory
\* marks exactly that session (setOwnerSession, group.owner.recover).
THEOREM OwnerAlwaysSeated == Spec => []OwnerKeepsSeat
  BY AlwaysSeats, PTL DEF SeatsInv

LEMMA StepBlocks ==
  ASSUME Types, SeatsInv, [Next]_vars, NEW s \in Sessions,
         row[s].status = "removed", row'[s].status # "removed"
  PROVE  \E o \in Sessions : group.owner = o /\ (Allow(o) \/ Delete(o))
<1>0. row \in [Sessions -> Row] /\ NoGroup /\ ~live[s].in /\ group.phase = "open"
  BY TypeFacts DEF SeatsInv, SeatsAgree, NoGroup
<1>1. CASE Fewer
  BY <1>1 DEF Fewer
<1>2. ASSUME NEW o \in Sessions, Create(o), ~Refuse(o) PROVE FALSE
  <2>1. group.phase = "unborn"
    BY <1>2, CreateMade
  <2> QED BY <1>0, <2>1
<1>3. ASSUME NEW o \in Sessions, Enrolled(o) PROVE FALSE
  <2>1. row[o].status = "none" /\ \A t \in Sessions \ {o} : row'[t] = row[t]
    BY <1>0, <1>3 DEF Enrolled, Insertable
  <2> QED BY <2>1
<1>4. ASSUME NEW o \in Sessions, Returned(o) \/ Recovered(o) PROVE FALSE
  BY <1>4 DEF Returned, Recovered, database
<1>5. ASSUME NEW o \in Sessions, Left(o) PROVE FALSE
  <2>1. live[o].in /\ \A t \in Sessions \ {o} : row'[t] = row[t]
    BY <1>0, <1>5 DEF Left, MayLeave
  <2> QED BY <1>0, <2>1
<1>6. ASSUME NEW o \in Sessions, Removed(o) PROVE FALSE
  <2> DEFINE who == Head(up[o]).who
  <2>1. who \in Sessions /\ row' = [row EXCEPT ![who].status = "removed"]
    BY <1>6 DEF Removed
  <2> HIDE DEF who
  <2>2. row'[s] = row[s] \/ row'[s] = [row[s] EXCEPT !.status = "removed"]
    BY <1>0, <2>1
  <2>3. row[s] \in Row
    BY <1>0
  <2> QED BY <2>2, <2>3 DEF Row
<1>7. ASSUME NEW o \in Sessions, (Allowed(o) /\ Allow(o)) \/ (Deleted(o) /\ Delete(o))
      PROVE  group.owner = o /\ (Allow(o) \/ Delete(o))
  BY <1>7 DEF Allowed, Deleted, IsOwner
<1> QED BY <1>1, <1>2, <1>3, <1>4, <1>5, <1>6, <1>7, SeatSteps

\* BlocksHold: nobody but the owner ends a removal, by group.member.allow or by dissolving
\* the group (server.ts handleMemberAllow, database.ts insertMembership).
THEOREM BlocksAlwaysHold == Spec => BlocksHold
<1>1. Types /\ SeatsInv /\ [Next]_vars =>
        [\A s \in Sessions : row[s].status = "removed" /\ row'[s].status # "removed" =>
           \E o \in Sessions : group.owner = o /\ (Allow(o) \/ Delete(o))]_vars
  BY StepBlocks
<1> QED BY <1>1, AlwaysTypes, AlwaysSeats, PTL DEF Spec, BlocksHold

------------------------------------------------------------------------------
(* What a session saved, what it is told and what it asks for: operators of the    *)
(* channel up, the channel down, the saved credential, the wanted one and the      *)
(* credential of the row                                                           *)

Presents == {"return", "recover"}

\* An enrolment is asked for by a session without a credential that is told none and
\* presents none, and so until the credential was heard; what a session wants to
\* return to is what it saved.
Pending(u, d, c, w) ==
  /\ w > 0 => w = c
  /\ \A i \in 1..Len(u) : u[i].op = "enroll" =>
       /\ i = 1 /\ c = 0
       /\ \A j \in 1..Len(d) : d[j].kind # "welcome"
       /\ \A j \in 1..Len(u) : u[j].op \notin Presents
  /\ \A i \in 1..Len(d) : d[i].kind = "welcome" =>
       /\ c = 0
       /\ \A j \in 1..Len(u) : u[j].op \notin Presents
       /\ \A j \in 1..Len(d) : d[j].kind = "welcome" => j = i

\* Every credential presented is that of the row, and so is the saved one when all on its
\* way was heard.
Opens(u, d, c, k) ==
  /\ \A i \in 1..Len(u) : u[i].op \in Presents => u[i].cred = k
  /\ \/ c = k /\ \A i \in 1..Len(d) : d[i].kind \notin News
     \/ \E i \in 1..Len(d) :
          /\ d[i].kind = "welcome" /\ d[i].cred = k
          /\ \A j \in (i + 1)..Len(d) : d[j].kind \notin News

\* A session before the group exists
Blank(u, d, c) ==
  /\ c = 0
  /\ \A i \in 1..Len(u) : u[i].op \notin Presents \cup {"enroll"}
  /\ \A i \in 1..Len(d) : d[i].kind # "welcome"

\* No request to enrol or with a credential is new in u2.
NoNew(u, u2) ==
  /\ u2 \in Seq(Ask)
  /\ \A i \in 1..Len(u2) : u2[i].op \in Presents \cup {"enroll"} =>
       \E j \in 1..Len(u) : j >= i /\ u[j] = u2[i]

LEMMA NoNewSame ==
  ASSUME NEW u \in Seq(Ask)
  PROVE  NoNew(u, u)
<1>1. ASSUME NEW i \in 1..Len(u) PROVE \E j \in 1..Len(u) : j >= i /\ u[j] = u[i]
  OBVIOUS
<1> QED BY <1>1 DEF NoNew

LEMMA NoNewEmpty ==
  ASSUME NEW u
  PROVE  NoNew(u, <<>>)
  BY DEF NoNew

LEMMA NoNewTail ==
  ASSUME NEW u \in Seq(Ask), u # <<>>
  PROVE  NoNew(u, Tail(u))
<1>1. /\ Tail(u) \in Seq(Ask) /\ Len(Tail(u)) = Len(u) - 1 /\ Len(u) \in Nat \ {0}
      /\ \A i \in 1..(Len(u) - 1) : Tail(u)[i] = u[i + 1]
  BY TailFacts
<1>2. ASSUME NEW i \in 1..Len(Tail(u)) PROVE \E j \in 1..Len(u) : j >= i /\ u[j] = Tail(u)[i]
  <2>1. i + 1 \in 1..Len(u) /\ i + 1 >= i /\ Tail(u)[i] = u[i + 1]
    BY <1>1
  <2> QED BY <2>1
<1> QED BY <1>1, <1>2 DEF NoNew

LEMMA NoNewAppend ==
  ASSUME NEW u \in Seq(Ask), NEW m \in Ask, m.op \notin Presents, m.op # "enroll"
  PROVE  NoNew(u, Append(u, m))
<1> DEFINE a == Append(u, m)
<1>1. /\ a \in Seq(Ask) /\ Len(a) = Len(u) + 1 /\ Len(u) \in Nat
      /\ \A i \in 1..Len(u) : a[i] = u[i]
      /\ a[Len(u) + 1] = m
  BY AppendFacts
<1> HIDE DEF a
<1>2. ASSUME NEW i \in 1..Len(a), a[i].op \in Presents \cup {"enroll"}
      PROVE  \E j \in 1..Len(u) : j >= i /\ u[j] = a[i]
  <2>1. i \in 1..Len(u)
    BY <1>1, <1>2
  <2>2. a[i] = u[i] /\ i >= i
    BY <1>1, <2>1
  <2> QED BY <2>1, <2>2
<1>3. NoNew(u, a)
  BY <1>1, <1>2 DEF NoNew
<1> QED BY <1>3 DEF a

LEMMA GrownWelcome ==
  ASSUME NEW d \in Seq(Answer), NEW d2, Grown(d, d2), NEW i \in 1..Len(d2), d2[i].kind = "welcome"
  PROVE  i \in 1..Len(d) /\ d2[i] = d[i]
<1>1. Len(d) \in Nat /\ Len(d2) \in Nat
  BY DEF Grown
<1>2. i \in 1..Len(d) \/ i \in (Len(d) + 1)..Len(d2)
  BY <1>1
<1> QED BY <1>2 DEF Grown

LEMMA PendingCarried ==
  ASSUME NEW u \in Seq(Ask), NEW d \in Seq(Answer), NEW c, NEW w, Pending(u, d, c, w),
         NEW u2, NoNew(u, u2), NEW d2, Grown(d, d2),
         NEW c2, c2 = c \/ c2 = 0, NEW w2, w2 > 0 => w2 = c2
  PROVE  Pending(u2, d2, c2, w2)
<1>1. ASSUME NEW j \in 1..Len(u2), u2[j].op \in Presents
      PROVE  \E i \in 1..Len(u) : u[i].op \in Presents
  BY <1>1 DEF NoNew
<1>2. ASSUME NEW j \in 1..Len(d2), d2[j].kind = "welcome"
      PROVE  j \in 1..Len(d) /\ d[j].kind = "welcome"
  BY <1>2, GrownWelcome
<1>3. ASSUME NEW i \in 1..Len(u2), u2[i].op = "enroll"
      PROVE  /\ i = 1 /\ c2 = 0
             /\ \A j \in 1..Len(d2) : d2[j].kind # "welcome"
             /\ \A j \in 1..Len(u2) : u2[j].op \notin Presents
  <2>1. PICK j \in 1..Len(u) : j >= i /\ u[j] = u2[i]
    BY <1>3 DEF NoNew
  <2>2. /\ j = 1 /\ c = 0
        /\ \A h \in 1..Len(d) : d[h].kind # "welcome"
        /\ \A h \in 1..Len(u) : u[h].op \notin Presents
    BY <1>3, <2>1 DEF Pending
  <2>3. Len(u2) \in Nat
    BY DEF NoNew
  <2>4. i = 1
    BY <2>1, <2>2, <2>3
  <2> QED BY <1>1, <1>2, <2>2, <2>4
<1>4. ASSUME NEW i \in 1..Len(d2), d2[i].kind = "welcome"
      PROVE  /\ c2 = 0
             /\ \A j \in 1..Len(u2) : u2[j].op \notin Presents
             /\ \A j \in 1..Len(d2) : d2[j].kind = "welcome" => j = i
  <2>1. i \in 1..Len(d) /\ d[i].kind = "welcome"
    BY <1>2, <1>4
  <2>2. /\ c = 0
        /\ \A j \in 1..Len(u) : u[j].op \notin Presents
        /\ \A j \in 1..Len(d) : d[j].kind = "welcome" => j = i
    BY <2>1 DEF Pending
  <2> QED BY <1>1, <1>2, <2>2
<1> QED BY <1>3, <1>4 DEF Pending

LEMMA OpensCarried ==
  ASSUME NEW u \in Seq(Ask), NEW d \in Seq(Answer), NEW c, NEW k, Opens(u, d, c, k),
         NEW u2, NoNew(u, u2), NEW d2, Quiet(d, d2)
  PROVE  Opens(u2, d2, c, k)
<1>0. Len(d) \in Nat /\ Len(d2) \in Nat /\ Len(d) <= Len(d2)
  BY DEF Quiet
<1>1. \A i \in 1..Len(u2) : u2[i].op \in Presents => u2[i].cred = k
  BY DEF NoNew, Opens
<1>2. ASSUME NEW n \in Nat, \A j \in (n + 1)..Len(d) : d[j].kind \notin News
      PROVE  \A j \in (n + 1)..Len(d2) : d2[j].kind \notin News
  <2>1. ASSUME NEW j \in (n + 1)..Len(d2) PROVE d2[j].kind \notin News
    <3>1. (j \in 1..Len(d) /\ j \in (n + 1)..Len(d)) \/ j \in (Len(d) + 1)..Len(d2)
      BY <1>0
    <3> QED BY <1>2, <3>1 DEF Quiet
  <2> QED BY <2>1
<1>3. CASE c = k /\ \A i \in 1..Len(d) : d[i].kind \notin News
  <2>1. \A j \in (0 + 1)..Len(d2) : d2[j].kind \notin News
    <3>1. \A j \in (0 + 1)..Len(d) : d[j].kind \notin News
      BY <1>3
    <3>2. 0 \in Nat
      OBVIOUS
    <3> QED BY <1>2, <3>1, <3>2
  <2> QED BY <1>1, <1>3, <2>1 DEF Opens
<1>4. CASE \E i \in 1..Len(d) :
             /\ d[i].kind = "welcome" /\ d[i].cred = k
             /\ \A j \in (i + 1)..Len(d) : d[j].kind \notin News
  <2>1. PICK i \in 1..Len(d) :
             /\ d[i].kind = "welcome" /\ d[i].cred = k
             /\ \A j \in (i + 1)..Len(d) : d[j].kind \notin News
    BY <1>4
  <2>2. i \in Nat /\ i \in 1..Len(d2) /\ d2[i] = d[i]
    BY <1>0 DEF Quiet
  <2>3. \A j \in (i + 1)..Len(d2) : d2[j].kind \notin News
    BY <1>2, <2>1, <2>2
  <2> QED BY <1>1, <2>1, <2>2, <2>3 DEF Opens
<1> QED BY <1>3, <1>4 DEF Opens

LEMMA BlankCarried ==
  ASSUME NEW u \in Seq(Ask), NEW d \in Seq(Answer), NEW c, Blank(u, d, c),
         NEW u2, NoNew(u, u2), NEW d2, Grown(d, d2)
  PROVE  Blank(u2, d2, c)
<1>1. \A i \in 1..Len(u2) : u2[i].op \notin Presents \cup {"enroll"}
  BY DEF NoNew, Blank
<1>2. \A i \in 1..Len(d2) : d2[i].kind # "welcome"
  BY GrownWelcome DEF Blank
<1> QED BY <1>1, <1>2 DEF Blank

\* What was on its way is lost.
LEMMA PendingLost ==
  ASSUME NEW u \in Seq(Ask), NEW d \in Seq(Answer), NEW c, NEW w, Pending(u, d, c, w),
         NEW u2, NoNew(u, u2), NEW w2, w2 > 0 => w2 = c
  PROVE  Pending(u2, <<>>, c, w2)
<1>0. Len(<<>>) = 0 /\ \A i \in 1..Len(<<>>) : FALSE
  OBVIOUS
<1>1. ASSUME NEW j \in 1..Len(u2), u2[j].op \in Presents
      PROVE  \E i \in 1..Len(u) : u[i].op \in Presents
  BY <1>1 DEF NoNew
<1>2. ASSUME NEW i \in 1..Len(u2), u2[i].op = "enroll"
      PROVE  i = 1 /\ c = 0 /\ \A j \in 1..Len(u2) : u2[j].op \notin Presents
  <2>1. PICK j \in 1..Len(u) : j >= i /\ u[j] = u2[i]
    BY <1>2 DEF NoNew
  <2>2. j = 1 /\ c = 0 /\ \A h \in 1..Len(u) : u[h].op \notin Presents
    BY <1>2, <2>1 DEF Pending
  <2>3. Len(u2) \in Nat
    BY DEF NoNew
  <2>4. i = 1
    BY <2>1, <2>2, <2>3
  <2> QED BY <1>1, <2>2, <2>4
<1> QED BY <1>0, <1>2 DEF Pending

LEMMA OpensLost ==
  ASSUME NEW u \in Seq(Ask), NEW d \in Seq(Answer), NEW c, NEW k, Opens(u, d, c, k),
         \A i \in 1..Len(d) : d[i].kind # "welcome",
         NEW u2, NoNew(u, u2)
  PROVE  Opens(u2, <<>>, c, k)
<1>0. Len(<<>>) = 0 /\ \A i \in 1..Len(<<>>) : FALSE
  OBVIOUS
<1>1. \A i \in 1..Len(u2) : u2[i].op \in Presents => u2[i].cred = k
  BY DEF NoNew, Opens
<1>2. c = k
  BY DEF Opens
<1> QED BY <1>0, <1>1, <1>2 DEF Opens

LEMMA BlankLost ==
  ASSUME NEW u \in Seq(Ask), NEW d, NEW c, Blank(u, d, c), NEW u2, NoNew(u, u2)
  PROVE  Blank(u2, <<>>, c)
<1>0. \A i \in 1..Len(<<>>) : FALSE
  OBVIOUS
<1>1. \A i \in 1..Len(u2) : u2[i].op \notin Presents \cup {"enroll"}
  BY DEF NoNew, Blank
<1> QED BY <1>0, <1>1 DEF Blank

\* A credential is presented.
LEMMA PendingPresents ==
  ASSUME NEW u \in Seq(Ask), NEW d \in Seq(Answer), NEW c, NEW w, Pending(u, d, c, w), c # 0,
         NEW m \in Ask, m.op \in Presents, NEW w2, w2 > 0 => w2 = c
  PROVE  Pending(Append(u, m), d, c, w2)
<1> DEFINE a == Append(u, m)
<1>1. /\ a \in Seq(Ask) /\ Len(a) = Len(u) + 1 /\ Len(u) \in Nat
      /\ \A i \in 1..Len(u) : a[i] = u[i]
      /\ a[Len(u) + 1] = m
  BY AppendFacts
<1> HIDE DEF a
<1>2. \A i \in 1..Len(a) : a[i].op # "enroll"
  <2>1. ASSUME NEW i \in 1..Len(a) PROVE a[i].op # "enroll"
    <3>1. i \in 1..Len(u) \/ i = Len(u) + 1
      BY <1>1
    <3>2. CASE i \in 1..Len(u)
      BY <1>1, <3>2 DEF Pending
    <3>3. CASE i = Len(u) + 1
      BY <1>1, <3>3 DEF Presents
    <3> QED BY <3>1, <3>2, <3>3
  <2> QED BY <2>1
<1>3. \A i \in 1..Len(d) : d[i].kind # "welcome"
  BY DEF Pending
<1>4. Pending(a, d, c, w2)
  BY <1>2, <1>3 DEF Pending
<1> QED BY <1>4 DEF a

LEMMA OpensPresents ==
  ASSUME NEW u \in Seq(Ask), NEW d \in Seq(Answer), NEW c, NEW w, NEW k,
         Pending(u, d, c, w), Opens(u, d, c, k), c # 0,
         NEW m \in Ask, m.op \in Presents, m.cred = c
  PROVE  Opens(Append(u, m), d, c, k)
<1> DEFINE a == Append(u, m)
<1>1. /\ a \in Seq(Ask) /\ Len(a) = Len(u) + 1 /\ Len(u) \in Nat
      /\ \A i \in 1..Len(u) : a[i] = u[i]
      /\ a[Len(u) + 1] = m
  BY AppendFacts
<1> HIDE DEF a
<1>2. c = k /\ \A i \in 1..Len(d) : d[i].kind \notin News
  BY DEF Pending, Opens
<1>3. ASSUME NEW i \in 1..Len(a), a[i].op \in Presents PROVE a[i].cred = k
  <2>1. i \in 1..Len(u) \/ i = Len(u) + 1
    BY <1>1
  <2>2. CASE i \in 1..Len(u)
    BY <1>1, <1>3, <2>2 DEF Opens
  <2>3. CASE i = Len(u) + 1
    BY <1>1, <1>2, <2>3
  <2> QED BY <2>1, <2>2, <2>3
<1>4. Opens(a, d, c, k)
  BY <1>2, <1>3 DEF Opens
<1> QED BY <1>4 DEF a

\* An enrolment is asked for.
LEMMA PendingEnrols ==
  ASSUME NEW m, m.op = "enroll"
  PROVE  Pending(<<m>>, <<>>, 0, 0)
<1>1. Len(<<m>>) = 1 /\ <<m>>[1] = m /\ \A i \in 1..Len(<<m>>) : i = 1
  OBVIOUS
<1>2. \A i \in 1..Len(<<>>) : FALSE
  OBVIOUS
<1>3. m.op \notin Presents
  BY DEF Presents
<1> QED BY <1>1, <1>2, <1>3 DEF Pending

LEMMA OpensEnrols ==
  ASSUME NEW m, m.op = "enroll", NEW c, NEW k, Opens(<<>>, <<>>, c, k)
  PROVE  Opens(<<m>>, <<>>, c, k)
<1>1. Len(<<m>>) = 1 /\ <<m>>[1] = m /\ \A i \in 1..Len(<<m>>) : i = 1
  OBVIOUS
<1>2. \A i \in 1..Len(<<>>) : FALSE
  OBVIOUS
<1>3. m.op \notin Presents
  BY DEF Presents
<1>4. c = k
  BY <1>2 DEF Opens
<1> QED BY <1>1, <1>2, <1>3, <1>4 DEF Opens

\* A credential is issued and told.
LEMMA Welcomed ==
  ASSUME NEW u \in Seq(Ask), \A i \in 1..Len(u) : u[i].op \notin Presents \cup {"enroll"},
         NEW d \in Seq(Answer), \A i \in 1..Len(d) : d[i].kind # "welcome",
         NEW m \in Answer, m.kind = "welcome", NEW d2, Quiet(Append(d, m), d2),
         NEW w, w > 0 => w = 0
  PROVE  Pending(u, d2, 0, w) /\ Opens(u, d2, 0, m.cred)
<1> DEFINE a == Append(d, m)
<1>1. /\ a \in Seq(Answer) /\ Len(a) = Len(d) + 1 /\ Len(d) \in Nat
      /\ \A i \in 1..Len(d) : a[i] = d[i]
      /\ a[Len(d) + 1] = m
  BY AppendFacts
<1>2. Quiet(a, d2)
  OBVIOUS
<1> HIDE DEF a
<1>3. /\ d2 \in Seq(Answer) /\ Len(d2) \in Nat /\ Len(d) + 1 <= Len(d2)
      /\ \A i \in 1..(Len(d) + 1) : d2[i] = a[i]
      /\ \A i \in (Len(d) + 2)..Len(d2) : d2[i].kind \notin News
  BY <1>1, <1>2 DEF Quiet
<1>4. ASSUME NEW i \in 1..Len(d2), d2[i].kind = "welcome" PROVE i = Len(d) + 1
  <2>1. i \in 1..Len(d) \/ i = Len(d) + 1 \/ i \in (Len(d) + 2)..Len(d2)
    BY <1>1, <1>3
  <2>2. CASE i \in 1..Len(d)
    <3>1. d2[i] = d[i]
      BY <1>1, <1>3, <2>2
    <3> QED BY <1>4, <2>2, <3>1
  <2>3. CASE i \in (Len(d) + 2)..Len(d2)
    BY <1>3, <1>4, <2>3 DEF News
  <2> QED BY <2>1, <2>2, <2>3
<1>5. \A j \in 1..Len(u) : u[j].op \notin Presents /\ u[j].op # "enroll"
  OBVIOUS
<1>6. Pending(u, d2, 0, w)
  BY <1>4, <1>5 DEF Pending
<1>7. /\ Len(d) + 1 \in 1..Len(d2) /\ d2[Len(d) + 1] = m
      /\ \A j \in ((Len(d) + 1) + 1)..Len(d2) : d2[j].kind \notin News
  BY <1>1, <1>3
<1>8. Opens(u, d2, 0, m.cred)
  BY <1>5, <1>7 DEF Opens
<1> QED BY <1>6, <1>8

\* What is heard first is not a credential.
LEMMA PendingHeard ==
  ASSUME NEW u \in Seq(Ask), NEW d \in Seq(Answer), d # <<>>, Head(d).kind # "welcome",
         NEW c, NEW w, Pending(u, d, c, w), NEW c2, c2 = c \/ c2 = 0, NEW w2, w2 > 0 => w2 = c2
  PROVE  Pending(u, Tail(d), c2, w2)
<1> DEFINE b == Tail(d)
<1>1. /\ b \in Seq(Answer) /\ Len(b) = Len(d) - 1 /\ Len(d) \in Nat \ {0}
      /\ \A i \in 1..(Len(d) - 1) : b[i] = d[i + 1]
  BY TailFacts
<1> HIDE DEF b
<1>2. ASSUME NEW i \in 1..Len(b), b[i].kind = "welcome"
      PROVE  i + 1 \in 1..Len(d) /\ d[i + 1].kind = "welcome"
  BY <1>1, <1>2
<1>3. ASSUME NEW i \in 1..Len(b), b[i].kind = "welcome"
      PROVE  /\ c2 = 0
             /\ \A j \in 1..Len(u) : u[j].op \notin Presents
             /\ \A j \in 1..Len(b) : b[j].kind = "welcome" => j = i
  <2>1. i + 1 \in 1..Len(d) /\ d[i + 1].kind = "welcome"
    BY <1>2, <1>3
  <2>2. /\ c = 0
        /\ \A j \in 1..Len(u) : u[j].op \notin Presents
        /\ \A j \in 1..Len(d) : d[j].kind = "welcome" => j = i + 1
    BY <2>1 DEF Pending
  <2>3. ASSUME NEW j \in 1..Len(b), b[j].kind = "welcome" PROVE j = i
    <3>1. j + 1 \in 1..Len(d) /\ d[j + 1].kind = "welcome"
      BY <1>2, <2>3
    <3>2. j + 1 = i + 1
      BY <2>2, <3>1
    <3> QED BY <3>2
  <2> QED BY <2>2, <2>3
<1>4. ASSUME NEW i \in 1..Len(u), u[i].op = "enroll"
      PROVE  /\ i = 1 /\ c2 = 0
             /\ \A j \in 1..Len(b) : b[j].kind # "welcome"
             /\ \A j \in 1..Len(u) : u[j].op \notin Presents
  <2>1. /\ i = 1 /\ c = 0
        /\ \A j \in 1..Len(d) : d[j].kind # "welcome"
        /\ \A j \in 1..Len(u) : u[j].op \notin Presents
    BY <1>4 DEF Pending
  <2> QED BY <1>2, <2>1
<1>5. Pending(u, b, c2, w2)
  BY <1>3, <1>4 DEF Pending
<1> QED BY <1>5 DEF b

LEMMA OpensHeard ==
  ASSUME NEW u \in Seq(Ask), NEW d \in Seq(Answer), d # <<>>, NEW c, NEW k, Opens(u, d, c, k),
         Head(d).kind # "welcome", NEW c2, Head(d).kind = "forget" \/ c2 = c
  PROVE  Opens(u, Tail(d), c2, k)
<1> DEFINE b == Tail(d)
<1>1. /\ b \in Seq(Answer) /\ Len(b) = Len(d) - 1 /\ Len(d) \in Nat \ {0}
      /\ \A i \in 1..(Len(d) - 1) : b[i] = d[i + 1]
      /\ Head(d) = d[1] /\ 1 \in 1..Len(d)
  BY TailFacts
<1> HIDE DEF b
<1>2. CASE c = k /\ \A i \in 1..Len(d) : d[i].kind \notin News
  <2>1. Head(d).kind # "forget"
    BY <1>1, <1>2 DEF News
  <2>2. \A i \in 1..Len(b) : b[i].kind \notin News
    <3>1. ASSUME NEW i \in 1..Len(b) PROVE b[i].kind \notin News
      <4>1. i + 1 \in 1..Len(d) /\ b[i] = d[i + 1]
        BY <1>1
      <4> QED BY <1>2, <4>1
    <3> QED BY <3>1
  <2>3. Opens(u, b, c2, k)
    BY <1>2, <2>1, <2>2 DEF Opens
  <2> QED BY <2>3 DEF b
<1>3. CASE \E i \in 1..Len(d) :
             /\ d[i].kind = "welcome" /\ d[i].cred = k
             /\ \A j \in (i + 1)..Len(d) : d[j].kind \notin News
  <2>1. PICK i \in 1..Len(d) :
             /\ d[i].kind = "welcome" /\ d[i].cred = k
             /\ \A j \in (i + 1)..Len(d) : d[j].kind \notin News
    BY <1>3
  <2>2. i # 1
    BY <1>1, <2>1
  <2> DEFINE h == i - 1
  <2>3. h \in 1..Len(b) /\ h + 1 = i /\ b[h] = d[i]
    BY <1>1, <2>2
  <2> HIDE DEF h
  <2>4. ASSUME NEW j \in (h + 1)..Len(b) PROVE b[j].kind \notin News
    <3>1. j + 1 \in (i + 1)..Len(d) /\ b[j] = d[j + 1]
      BY <1>1, <2>3
    <3> QED BY <2>1, <3>1
  <2>5. Opens(u, b, c2, k)
    BY <2>1, <2>3, <2>4 DEF Opens
  <2> QED BY <2>5 DEF b
<1> QED BY <1>2, <1>3 DEF Opens

LEMMA BlankHeard ==
  ASSUME NEW u, NEW d \in Seq(Answer), d # <<>>, NEW c, Blank(u, d, c)
  PROVE  Blank(u, Tail(d), c) /\ Head(d).kind # "welcome"
<1> DEFINE b == Tail(d)
<1>1. /\ b \in Seq(Answer) /\ Len(b) = Len(d) - 1 /\ Len(d) \in Nat \ {0}
      /\ \A i \in 1..(Len(d) - 1) : b[i] = d[i + 1]
      /\ Head(d) = d[1] /\ 1 \in 1..Len(d)
  BY TailFacts
<1> HIDE DEF b
<1>2. ASSUME NEW i \in 1..Len(b) PROVE b[i].kind # "welcome"
  <2>1. i + 1 \in 1..Len(d) /\ b[i] = d[i + 1]
    BY <1>1
  <2> QED BY <2>1 DEF Blank
<1>3. Blank(u, b, c)
  BY <1>2 DEF Blank
<1> QED BY <1>1, <1>3 DEF b, Blank

\* The credential itself is heard.
LEMMA PendingSaved ==
  ASSUME NEW u \in Seq(Ask), NEW d \in Seq(Answer), d # <<>>, Head(d).kind = "welcome",
         NEW c, NEW w, Pending(u, d, c, w), NEW c2, NEW w2, w2 > 0 => w2 = c2
  PROVE  /\ Pending(u, Tail(d), c2, w2)
         /\ \A i \in 1..Len(u) : u[i].op \notin Presents
         /\ \A i \in 2..Len(d) : d[i].kind # "welcome"
<1> DEFINE b == Tail(d)
<1>1. /\ b \in Seq(Answer) /\ Len(b) = Len(d) - 1 /\ Len(d) \in Nat \ {0}
      /\ \A i \in 1..(Len(d) - 1) : b[i] = d[i + 1]
      /\ Head(d) = d[1] /\ 1 \in 1..Len(d)
  BY TailFacts
<1> HIDE DEF b
<1>2. /\ \A j \in 1..Len(u) : u[j].op \notin Presents
      /\ \A j \in 1..Len(d) : d[j].kind = "welcome" => j = 1
  BY <1>1 DEF Pending
<1>3. \A i \in 1..Len(u) : u[i].op # "enroll"
  BY <1>1 DEF Pending
<1>4. \A i \in 2..Len(d) : d[i].kind # "welcome"
  BY <1>1, <1>2
<1>5. ASSUME NEW i \in 1..Len(b) PROVE b[i].kind # "welcome"
  <2>1. i + 1 \in 2..Len(d) /\ b[i] = d[i + 1]
    BY <1>1
  <2> QED BY <1>4, <2>1
<1>6. Pending(u, b, c2, w2)
  BY <1>3, <1>5 DEF Pending
<1> QED BY <1>2, <1>4, <1>6 DEF b

LEMMA OpensSaved ==
  ASSUME NEW u \in Seq(Ask), NEW d \in Seq(Answer), d # <<>>,
         \A i \in 1..Len(u) : u[i].op \notin Presents,
         \A i \in 2..Len(d) : d[i].kind # "welcome",
         Head(d).kind = "welcome", NEW k,
         \/ Head(d).cred = k /\ \A i \in 2..Len(d) : d[i].kind # "forget"
         \/ \E c : Opens(u, d, c, k)
  PROVE  Opens(u, Tail(d), Head(d).cred, k)
<1> DEFINE b == Tail(d)
<1>1. /\ b \in Seq(Answer) /\ Len(b) = Len(d) - 1 /\ Len(d) \in Nat \ {0}
      /\ \A i \in 1..(Len(d) - 1) : b[i] = d[i + 1]
      /\ Head(d) = d[1] /\ 1 \in 1..Len(d)
  BY TailFacts
<1> HIDE DEF b
<1>2. Head(d).cred = k /\ \A i \in 2..Len(d) : d[i].kind # "forget"
  <2>1. ASSUME NEW c, Opens(u, d, c, k)
        PROVE  Head(d).cred = k /\ \A i \in 2..Len(d) : d[i].kind # "forget"
    <3>1. ~(\A i \in 1..Len(d) : d[i].kind \notin News)
      BY <1>1 DEF News
    <3>2. PICK i \in 1..Len(d) :
             /\ d[i].kind = "welcome" /\ d[i].cred = k
             /\ \A j \in (i + 1)..Len(d) : d[j].kind \notin News
      BY <2>1, <3>1 DEF Opens
    <3>3. i = 1
      <4>1. i \in 2..Len(d) \/ i = 1
        BY <1>1
      <4> QED BY <3>2, <4>1
    <3> QED BY <1>1, <3>2, <3>3 DEF News
  <2> QED BY <2>1
<1>3. ASSUME NEW i \in 1..Len(b) PROVE b[i].kind \notin News
  <2>1. i + 1 \in 2..Len(d) /\ b[i] = d[i + 1]
    BY <1>1
  <2> QED BY <1>2, <2>1 DEF News
<1>4. Opens(u, b, Head(d).cred, k)
  BY <1>2, <1>3 DEF Opens
<1> QED BY <1>4 DEF b

------------------------------------------------------------------------------
(* What a session saved opens its row.                                             *)

\* What holds of the letters between session t and the broker
Letter(t) ==
  /\ Pending(up[t], down[t], saved[t].cred, want[t])
  /\ link[t] = "down" => down[t] = <<>>
  /\ row[t].status = "active" /\ t \notin astray =>
       Opens(up[t], down[t], saved[t].cred, row[t].cred)
  /\ group.phase = "unborn" => Blank(up[t], down[t], saved[t].cred)

SavedInv == \A t \in Sessions : Letter(t)

LEMMA LetterPrimed ==
  ASSUME NEW t,
         Pending(up'[t], down'[t], saved'[t].cred, want'[t]),
         link'[t] = "down" => down'[t] = <<>>,
         row'[t].status = "active" /\ t \notin astray' =>
           Opens(up'[t], down'[t], saved'[t].cred, row'[t].cred),
         group'.phase = "unborn" => Blank(up'[t], down'[t], saved'[t].cred)
  PROVE  Letter(t)'
  BY DEF Letter, Pending, Opens, Blank

\* A row in force after a step, of a session not gone astray, was so before.
OldRow(t) ==
  row'[t].status = "active" /\ t \notin astray' =>
    row[t].status = "active" /\ row'[t].cred = row[t].cred /\ t \notin astray

OldGroup == group'.phase = "unborn" => group.phase = "unborn"

\* Nothing new is asked for, what is told is no credential, and nothing that takes one
\* away from a member in force.
Carried(t) ==
  /\ NoNew(up[t], up'[t]) /\ Grown(down[t], down'[t])
  /\ saved'[t].cred = saved[t].cred /\ (want'[t] > 0 => want'[t] = saved[t].cred)
  /\ link'[t] = "down" => down'[t] = <<>>
  /\ OldRow(t) /\ OldGroup
  /\ row'[t].status = "active" /\ t \notin astray' => Quiet(down[t], down'[t])

\* What was told is lost; a credential among it leaves the session astray.
Lost(t) ==
  /\ NoNew(up[t], up'[t]) /\ down'[t] = <<>>
  /\ saved'[t].cred = saved[t].cred /\ (want'[t] > 0 => want'[t] = saved[t].cred)
  /\ OldRow(t) /\ OldGroup
  /\ row'[t].status = "active" /\ t \notin astray' =>
       \A i \in 1..Len(down[t]) : down[t][i].kind # "welcome"

LEMMA ChannelTypes ==
  ASSUME Types, NEW t \in Sessions
  PROVE  up[t] \in Seq(Ask) /\ down[t] \in Seq(Answer) /\ saved[t].cred \in Nat
  BY SavedFacts, Constants DEF Types, UpType, UpTypes, DownType, DownTypes, Numbers

LEMMA CarriedLetter ==
  ASSUME Types, NEW t \in Sessions, Letter(t), Carried(t)
  PROVE  Letter(t)'
<1>1. up[t] \in Seq(Ask) /\ down[t] \in Seq(Answer)
  BY ChannelTypes
<1>2. Pending(up'[t], down'[t], saved'[t].cred, want'[t])
  <2>1. Pending(up[t], down[t], saved[t].cred, want[t])
    BY DEF Letter
  <2>2. /\ NoNew(up[t], up'[t]) /\ Grown(down[t], down'[t])
        /\ saved'[t].cred = saved[t].cred /\ (want'[t] > 0 => want'[t] = saved'[t].cred)
    BY DEF Carried
  <2> QED BY <1>1, <2>1, <2>2, PendingCarried
<1>3. ASSUME row'[t].status = "active", t \notin astray'
      PROVE  Opens(up'[t], down'[t], saved'[t].cred, row'[t].cred)
  <2>1. Opens(up[t], down[t], saved[t].cred, row[t].cred)
    BY <1>3 DEF Letter, Carried, OldRow
  <2>2. /\ NoNew(up[t], up'[t]) /\ Quiet(down[t], down'[t])
        /\ saved'[t].cred = saved[t].cred /\ row'[t].cred = row[t].cred
    BY <1>3 DEF Carried, OldRow
  <2>3. Opens(up'[t], down'[t], saved[t].cred, row[t].cred)
    BY <1>1, <2>1, <2>2, OpensCarried
  <2> QED BY <2>2, <2>3
<1>4. ASSUME group'.phase = "unborn" PROVE Blank(up'[t], down'[t], saved'[t].cred)
  <2>1. Blank(up[t], down[t], saved[t].cred)
    BY <1>4 DEF Letter, Carried, OldGroup
  <2>2. NoNew(up[t], up'[t]) /\ Grown(down[t], down'[t]) /\ saved'[t].cred = saved[t].cred
    BY DEF Carried
  <2>3. Blank(up'[t], down'[t], saved[t].cred)
    BY <1>1, <2>1, <2>2, BlankCarried
  <2> QED BY <2>2, <2>3
<1>5. link'[t] = "down" => down'[t] = <<>>
  BY DEF Carried
<1> QED BY <1>2, <1>3, <1>4, <1>5, LetterPrimed

LEMMA LostLetter ==
  ASSUME Types, NEW t \in Sessions, Letter(t), Lost(t)
  PROVE  Letter(t)'
<1>1. up[t] \in Seq(Ask) /\ down[t] \in Seq(Answer)
  BY ChannelTypes
<1>2. Pending(up'[t], down'[t], saved'[t].cred, want'[t])
  <2>1. Pending(up[t], down[t], saved[t].cred, want[t])
    BY DEF Letter
  <2>2. /\ NoNew(up[t], up'[t]) /\ down'[t] = <<>>
        /\ saved'[t].cred = saved[t].cred /\ (want'[t] > 0 => want'[t] = saved[t].cred)
    BY DEF Lost
  <2>3. Pending(up'[t], <<>>, saved[t].cred, want'[t])
    BY <1>1, <2>1, <2>2, PendingLost
  <2> QED BY <2>2, <2>3
<1>3. ASSUME row'[t].status = "active", t \notin astray'
      PROVE  Opens(up'[t], down'[t], saved'[t].cred, row'[t].cred)
  <2>1. Opens(up[t], down[t], saved[t].cred, row[t].cred)
    BY <1>3 DEF Letter, Lost, OldRow
  <2>2. /\ NoNew(up[t], up'[t]) /\ \A i \in 1..Len(down[t]) : down[t][i].kind # "welcome"
        /\ saved'[t].cred = saved[t].cred /\ row'[t].cred = row[t].cred /\ down'[t] = <<>>
    BY <1>3 DEF Lost, OldRow
  <2>3. Opens(up'[t], <<>>, saved[t].cred, row[t].cred)
    BY <1>1, <2>1, <2>2, OpensLost
  <2> QED BY <2>2, <2>3
<1>4. ASSUME group'.phase = "unborn" PROVE Blank(up'[t], down'[t], saved'[t].cred)
  <2>1. Blank(up[t], down[t], saved[t].cred)
    BY <1>4 DEF Letter, Lost, OldGroup
  <2>2. NoNew(up[t], up'[t]) /\ down'[t] = <<>> /\ saved'[t].cred = saved[t].cred
    BY DEF Lost
  <2>3. Blank(up'[t], <<>>, saved[t].cred)
    BY <1>1, <2>1, <2>2, BlankLost
  <2> QED BY <2>2, <2>3
<1>5. down'[t] = <<>>
  BY DEF Lost
<1> QED BY <1>2, <1>3, <1>4, <1>5, LetterPrimed

\* Session t takes no part in a step.
Aside(t) ==
  /\ up'[t] = up[t] /\ down'[t] = down[t] /\ saved'[t] = saved[t] /\ want'[t] = want[t]
  /\ link'[t] = "down" => link[t] = "down"
  /\ OldRow(t) /\ OldGroup

LEMMA AsideLetter ==
  ASSUME Types, NEW t \in Sessions, Letter(t), Aside(t)
  PROVE  Letter(t)'
<1>1. up[t] \in Seq(Ask) /\ down[t] \in Seq(Answer)
  BY ChannelTypes
<1>2. NoNew(up[t], up[t]) /\ Quiet(down[t], down[t]) /\ Grown(down[t], down[t])
  BY <1>1, NoNewSame, QuietSame, QuietGrown
<1>3. want[t] > 0 => want[t] = saved[t].cred
  BY DEF Letter, Pending
<1>4. link[t] = "down" => down[t] = <<>>
  BY DEF Letter
<1>5. Carried(t)
  BY <1>2, <1>3, <1>4 DEF Aside, Carried
<1> QED BY <1>5, CarriedLetter

\* What the broker reads and tells without issuing a credential
LEMMA ReadLetter ==
  ASSUME Types, NEW s \in Sessions, NEW op, Reads(s, op), Read(s), UNCHANGED extension,
         NEW t \in Sessions, Letter(t), Grown(down[t], down'[t]), Unreached,
         OldRow(t), OldGroup,
         row'[t].status = "active" /\ t \notin astray' => Quiet(down[t], down'[t])
  PROVE  Letter(t)'
<1>1. up[t] \in Seq(Ask) /\ down[t] \in Seq(Answer) /\ up[s] # <<>> /\ DOMAIN up = Sessions
  BY ChannelTypes DEF Reads, Types, UpType
<1>2. NoNew(up[t], up'[t])
  <2>1. CASE t = s
    <3>1. up'[t] = Tail(up[t])
      BY <1>1, <2>1 DEF Read
    <3> QED BY <1>1, <2>1, <3>1, NoNewTail
  <2>2. CASE t # s
    <3>1. up'[t] = up[t]
      BY <1>1, <2>2 DEF Read
    <3> QED BY <1>1, <3>1, NoNewSame
  <2> QED BY <2>1, <2>2
<1>3. saved' = saved /\ want' = want /\ link' = link
  BY DEF extension
<1>4. want[t] > 0 => want[t] = saved[t].cred
  BY DEF Letter, Pending
<1>5. link'[t] = "down" => down'[t] = <<>>
  BY <1>3 DEF Unreached, Reached, Letter
<1>6. Carried(t)
  BY <1>2, <1>3, <1>4, <1>5 DEF Carried
<1> QED BY <1>6, CarriedLetter

LEMMA QuietLetter ==
  ASSUME Types, NEW s \in Sessions, NEW op, Reads(s, op), Read(s), UNCHANGED extension,
         NEW t \in Sessions, Letter(t), QuietAll, OldRow(t), OldGroup
  PROVE  Letter(t)'
<1>1. Quiet(down[t], down'[t]) /\ Unreached
  BY DEF QuietAll
<1>2. Grown(down[t], down'[t])
  BY <1>1, QuietGrown
<1> QED BY <1>1, <1>2, ReadLetter

LEMMA RefusedLetter ==
  ASSUME Types, NEW s \in Sessions, NEW op, Reads(s, op), Refuse(s), NEW t \in Sessions, Letter(t)
  PROVE  Letter(t)'
<1>1. /\ Read(s) /\ UNCHANGED extension /\ OldGroup /\ OldRow(t) /\ Unreached
      /\ down' = down
  BY DEF Refuse, OldGroup, OldRow, database, Unreached
<1>2. Quiet(down[t], down'[t])
  BY <1>1, ChannelTypes, QuietSame
<1> QED BY <1>1, <1>2, QuietGrown, ReadLetter

\* A session is told to forget only when its row is not in force, or it is astray.
LEMMA ForgottenLetter ==
  ASSUME Types, NEW s \in Sessions, NEW op, Reads(s, op), RefuseForGood(s), row' = row, group' = group,
         row[s].status = "active" => s \in astray,
         NEW t \in Sessions, Letter(t)
  PROVE  Letter(t)'
<1>1. /\ Read(s) /\ UNCHANGED extension /\ OldGroup /\ OldRow(t) /\ astray' = astray
  BY DEF RefuseForGood, OldGroup, OldRow
<1>2. ForgetOnly(s)
  BY RefuseForGoodTold
<1>3. down[t] \in Seq(Answer)
  BY ChannelTypes
<1>4. CASE down'[t] = down[t]
  <2>1. Quiet(down[t], down'[t]) /\ Grown(down[t], down'[t])
    BY <1>3, <1>4, QuietSame, QuietGrown
  <2> QED BY <1>1, <1>2, <2>1, ReadLetter DEF ForgetOnly
<1>5. CASE t = s /\ down'[t] = Append(down[t], [kind |-> "forget"])
  <2>1. Grown(down[t], down'[t])
    BY <1>3, <1>5, GrownForget
  <2>2. ~(row'[t].status = "active" /\ t \notin astray')
    BY <1>1, <1>5
  <2> QED BY <1>1, <1>2, <2>1, <2>2, ReadLetter DEF ForgetOnly
<1> QED BY <1>2, <1>4, <1>5 DEF ForgetOnly

LEMMA JoinGoneLetter ==
  ASSUME Types, SeatsInv, NEW s \in Sessions, NEW op, Reads(s, op), group.phase = "gone", JoinGone(s),
         NEW t \in Sessions, Letter(t)
  PROVE  Letter(t)'
<1>1. row[s].status = "none"
  BY DEF SeatsInv, NoGroup
<1>2. CASE TombTaken(s) /\ RefuseForGood(s)
  BY <1>1, <1>2, ForgottenLetter DEF TombTaken
<1>3. CASE Refuse(s)
  BY <1>3, RefusedLetter
<1> QED BY <1>2, <1>3 DEF JoinGone

------------------------------------------------------------------------------
(* The steps *)

LEMMA ConnectionLetters ==
  ASSUME Types, NEW s \in Sessions, NEW t \in Sessions, Letter(t),
         Connect(s) \/ Disconnected(s) \/ GraceEnds(s) \/ Goodbye(s)
  PROVE  Letter(t)'
<1>0. /\ DOMAIN up = Sessions /\ DOMAIN down = Sessions /\ DOMAIN link = Sessions
      /\ up[t] \in Seq(Ask) /\ down[t] \in Seq(Answer)
      /\ link[t] \in {"down", "hello", "up"}
  BY ChannelTypes DEF Types, UpType, DownType, SessionType
<1>1. /\ OldRow(t) /\ OldGroup /\ saved' = saved /\ want' = want /\ astray' = astray
  BY DEF Connect, Disconnected, GraceEnds, Goodbye, database, extension, OldRow, OldGroup
<1>2. want[t] > 0 => want[t] = saved[t].cred
  BY DEF Letter, Pending
<1>3. CASE UNCHANGED <<up, down, link>>
  <2>1. Aside(t)
    BY <1>1, <1>3 DEF Aside
  <2> QED BY <2>1, AsideLetter
<1>4. CASE /\ link[s] = "down" /\ link' = [link EXCEPT ![s] = "hello"] /\ up' = [up EXCEPT ![s] = <<>>]
           /\ down' = [down EXCEPT ![s] = <<Snapshot(s, group, row, live)>>]
  <2>1. CASE t = s
    <3> DEFINE m == Snapshot(s, group, row, live)
    <3>1. m \in Answer /\ m.kind \notin News
      BY SnapshotFacts, TypeFacts
    <3>2. down[t] = <<>> /\ up'[t] = <<>> /\ link'[t] = "hello"
      BY <1>0, <1>4, <2>1 DEF Letter
    <3>3. down'[t] = <<m>>
      BY <1>0, <1>4, <2>1
    <3> HIDE DEF m
    <3>4. Quiet(<<>>, Append(<<>>, m))
      BY <3>1, EmptyChannels, QuietAppend
    <3>5. Append(<<>>, m) = <<m>>
      OBVIOUS
    <3>6. Quiet(down[t], down'[t])
      BY <3>2, <3>3, <3>4, <3>5
    <3>7. Grown(down[t], down'[t]) /\ NoNew(up[t], up'[t])
      BY <3>2, <3>6, QuietGrown, NoNewEmpty
    <3>8. Carried(t)
      BY <1>1, <1>2, <3>2, <3>6, <3>7 DEF Carried
    <3> QED BY <3>8, CarriedLetter
  <2>2. CASE t # s
    <3>1. Aside(t)
      BY <1>0, <1>1, <1>4, <2>2 DEF Aside
    <3> QED BY <3>1, AsideLetter
  <2> QED BY <2>1, <2>2
<1>5. CASE up' = [up EXCEPT ![s] = <<>>] /\ UNCHANGED <<down, link>>
  <2>1. CASE t = s
    <3>1. up'[t] = <<>> /\ down'[t] = down[t] /\ link'[t] = link[t]
      BY <1>0, <1>5, <2>1
    <3>2. NoNew(up[t], up'[t]) /\ Quiet(down[t], down'[t])
      BY <1>0, <3>1, NoNewEmpty, QuietSame
    <3>3. Grown(down[t], down'[t])
      BY <3>2, QuietGrown
    <3>4. Carried(t)
      BY <1>1, <1>2, <3>1, <3>2, <3>3 DEF Carried, Letter
    <3> QED BY <3>4, CarriedLetter
  <2>2. CASE t # s
    <3>1. Aside(t)
      BY <1>0, <1>1, <1>5, <2>2 DEF Aside
    <3> QED BY <3>1, AsideLetter
  <2> QED BY <2>1, <2>2
<1> QED BY <1>3, <1>4, <1>5 DEF Connect, Disconnected, GraceEnds, Goodbye, extension

LEMMA LossLetters ==
  ASSUME Types, NEW s \in Sessions, NEW t \in Sessions, Letter(t),
         BrokerRestart \/ Cut(s) \/ Reopen(s) \/ (Reads(s, "enroll") /\ RejectInvite(s))
  PROVE  Letter(t)'
<1>0. /\ DOMAIN up = Sessions /\ DOMAIN down = Sessions /\ DOMAIN link = Sessions
      /\ DOMAIN want = Sessions /\ DOMAIN saved = Sessions
      /\ up[t] \in Seq(Ask) /\ down[t] \in Seq(Answer)
  BY ChannelTypes DEF Types, UpType, DownType, SessionType, SavedType
<1>1. /\ OldGroup /\ saved' = saved /\ row' = row /\ astray \subseteq astray'
  BY DEF BrokerRestart, Cut, Reopen, RejectInvite, database, OldGroup
<1>2. OldRow(t)
  BY <1>1 DEF OldRow
<1>3. want[t] > 0 => want[t] = saved[t].cred
  BY DEF Letter, Pending
<1>4. CASE t # s /\ ~BrokerRestart
  <2>1. up'[t] = up[t] /\ down'[t] = down[t] /\ link'[t] = link[t] /\ want'[t] = want[t]
    BY <1>0, <1>4 DEF Cut, Reopen, RejectInvite
  <2>2. Aside(t)
    BY <1>1, <1>2, <2>1 DEF Aside
  <2> QED BY <2>2, AsideLetter
<1>5. CASE BrokerRestart
  <2>1. up'[t] = <<>> /\ down'[t] = <<>> /\ want' = want
        /\ (t \notin astray' => ~WelcomeOnWay(t))
    BY <1>5 DEF BrokerRestart
  <2>2. NoNew(up[t], up'[t])
    BY <2>1, NoNewEmpty
  <2>3. Lost(t)
    BY <1>1, <1>2, <1>3, <2>1, <2>2 DEF Lost, WelcomeOnWay
  <2> QED BY <2>3, LostLetter
<1>6. CASE t = s /\ Cut(s)
  <2>1. up' = up /\ down'[t] = <<>> /\ want' = want /\ (t \notin astray' => ~WelcomeOnWay(t))
    BY <1>0, <1>6 DEF Cut
  <2>2. NoNew(up[t], up'[t])
    BY <1>0, <2>1, NoNewSame
  <2>3. Lost(t)
    BY <1>1, <1>2, <1>3, <2>1, <2>2 DEF Lost, WelcomeOnWay
  <2> QED BY <2>3, LostLetter
<1>7. CASE t = s /\ Reopen(s)
  <2>1. down'[t] = <<>> /\ want'[t] = Started(saved[t]) /\ (t \notin astray' => ~WelcomeOnWay(t))
    BY <1>0, <1>7 DEF Reopen
  <2>2. NoNew(up[t], up'[t])
    <3>1. CASE up' = up
      BY <1>0, <3>1, NoNewSame
    <3>2. CASE up' = [up EXCEPT ![s] = Append(up[s], [op |-> "goodbye"])]
      <4> DEFINE m == [op |-> "goodbye"]
      <4>1. m \in Ask /\ m.op \notin Presents /\ m.op # "enroll"
        BY DEF Ask, PlainAsk, Presents
      <4>2. up'[t] = Append(up[t], m)
        BY <1>0, <1>7, <3>2
      <4> HIDE DEF m
      <4> QED BY <1>0, <4>1, <4>2, NoNewAppend
    <3> QED BY <1>7, <3>1, <3>2 DEF Reopen
  <2>3. want'[t] > 0 => want'[t] = saved[t].cred
    BY <2>1 DEF Started, NotWanted
  <2>4. Lost(t)
    BY <1>1, <1>2, <2>1, <2>2, <2>3 DEF Lost, WelcomeOnWay
  <2> QED BY <2>4, LostLetter
<1>8. CASE t = s /\ Reads(s, "enroll") /\ RejectInvite(s)
  <2>1. up'[t] = <<>> /\ down'[t] = <<>> /\ want' = want
    BY <1>0, <1>8 DEF RejectInvite
  <2>2. \A i \in 1..Len(down[t]) : down[t][i].kind # "welcome"
    <3>1. 1 \in 1..Len(up[t]) /\ up[t][1].op = "enroll"
      <4>1. /\ Head(up[s]) = up[s][1] /\ Head(up[s]).op = "enroll" /\ up[s] \in Seq(Ask)
            /\ Len(up[s]) >= 1
        BY <1>8, ReadFacts
      <4> QED BY <1>8, <4>1
    <3> QED BY <3>1 DEF Letter, Pending
  <2>3. NoNew(up[t], up'[t])
    BY <2>1, NoNewEmpty
  <2>4. Lost(t)
    BY <1>1, <1>2, <1>3, <2>1, <2>2, <2>3 DEF Lost
  <2> QED BY <2>4, LostLetter
<1> QED BY <1>4, <1>5, <1>6, <1>7, <1>8

LEMMA PresentsLetter ==
  ASSUME Types, NEW t \in Sessions, Letter(t), saved[t].cred # 0,
         NEW m \in Ask, m.op \in Presents, m.cred = saved[t].cred,
         up'[t] = Append(up[t], m), down'[t] = down[t], saved'[t] = saved[t],
         want'[t] > 0 => want'[t] = saved[t].cred,
         link'[t] = "down" => link[t] = "down", OldRow(t), OldGroup
  PROVE  Letter(t)'
<1>1. up[t] \in Seq(Ask) /\ down[t] \in Seq(Answer)
  BY ChannelTypes
<1>2. Pending(up[t], down[t], saved[t].cred, want[t])
  BY DEF Letter
<1>3. Pending(Append(up[t], m), down[t], saved[t].cred, want'[t])
  BY <1>1, <1>2, PendingPresents
<1>4. ASSUME row'[t].status = "active", t \notin astray'
      PROVE  Opens(Append(up[t], m), down[t], saved[t].cred, row'[t].cred)
  <2>1. Opens(up[t], down[t], saved[t].cred, row[t].cred) /\ row'[t].cred = row[t].cred
    BY <1>4 DEF Letter, OldRow
  <2>2. Opens(Append(up[t], m), down[t], saved[t].cred, row[t].cred)
    BY <1>1, <1>2, <2>1, OpensPresents
  <2> QED BY <2>1, <2>2
<1>5. group'.phase # "unborn"
  BY DEF Letter, OldGroup, Blank
<1>6. link'[t] = "down" => down'[t] = <<>>
  BY DEF Letter
<1> QED BY <1>3, <1>4, <1>5, <1>6, LetterPrimed

LEMMA SendLetters ==
  ASSUME Types, NEW s \in Sessions, NEW t \in Sessions, Letter(t),
         SendCreate(s) \/ SendJoin(s) \/ SendLeave(s) \/ SendCommand(s)
  PROVE  Letter(t)'
<1>0. /\ DOMAIN up = Sessions /\ DOMAIN want = Sessions /\ DOMAIN saved = Sessions
      /\ up[t] \in Seq(Ask) /\ down[t] \in Seq(Answer)
  BY ChannelTypes DEF Types, UpType, SavedType
<1>1. /\ OldGroup /\ row' = row /\ astray \subseteq astray' /\ down' = down /\ link' = link
  BY DEF SendCreate, SendJoin, SendLeave, SendCommand, database, extension, OldGroup
<1>2. OldRow(t)
  BY <1>1 DEF OldRow
<1>3. want[t] > 0 => want[t] = saved[t].cred
  BY DEF Letter, Pending
<1>4. Quiet(down[t], down[t]) /\ Grown(down[t], down[t]) /\ (link[t] = "down" => down[t] = <<>>)
  BY <1>0, QuietSame, QuietGrown DEF Letter
<1>5. CASE t # s
  <2>1. up'[t] = up[t] /\ want'[t] = want[t] /\ saved'[t] = saved[t]
    BY <1>0, <1>5 DEF SendCreate, SendJoin, SendLeave, SendCommand, Sent, extension
  <2>2. Aside(t)
    BY <1>1, <1>2, <2>1 DEF Aside
  <2> QED BY <2>2, AsideLetter
<1>6. ASSUME t = s, NEW m \in Ask, Sent(s, m), m.op \notin Presents, m.op # "enroll",
             saved' = saved, want'[t] > 0 => want'[t] = saved[t].cred
      PROVE  Letter(t)'
  <2>1. up'[t] = Append(up[t], m)
    BY <1>0, <1>6 DEF Sent
  <2>2. NoNew(up[t], up'[t])
    BY <1>0, <1>6, <2>1, NoNewAppend
  <2>3. Carried(t)
    BY <1>1, <1>2, <1>4, <1>6, <2>2 DEF Carried
  <2> QED BY <2>3, CarriedLetter
<1>7. ASSUME t = s, NEW m \in Ask, Sent(s, m), m.op \in Presents, m.cred = saved[t].cred,
             saved[t].cred # 0, saved' = saved, want'[t] > 0 => want'[t] = saved[t].cred
      PROVE  Letter(t)'
  <2>1. up'[t] = Append(up[t], m)
    BY <1>0, <1>7 DEF Sent
  <2> QED BY <1>1, <1>2, <1>7, <2>1, PresentsLetter
<1>8. CASE t = s /\ SendCreate(s)
  <2>1. PICK n \in NameOf[s], near \in BOOLEAN :
          Sent(s, [op |-> "create", name |-> n, near |-> near, code |-> near])
    BY <1>8 DEF SendCreate
  <2> DEFINE m == [op |-> "create", name |-> n, near |-> near, code |-> near]
  <2>2. m \in Ask /\ m.op = "create"
    BY Constants DEF Ask, CreateAsk
  <2>3. Sent(s, m)
    BY <2>1
  <2>4. saved' = saved /\ want'[t] = 0
    BY <1>0, <1>8 DEF SendCreate
  <2> HIDE DEF m
  <2> QED BY <1>6, <1>8, <2>2, <2>3, <2>4 DEF Presents
<1>9. CASE t = s /\ SendCommand(s)
  <2>1. PICK m \in Ask :
           /\ Sent(s, m)
           /\ m.op \in {"recover", "near", "allow", "remove", "delete"}
           /\ m.op = "recover" => s \in Local /\ m.cred = saved[s].cred /\ saved[s].cred # 0
           /\ m.op \in {"allow", "remove"} => m.who # s
    BY <1>9, CommandSent
  <2>2. saved' = saved /\ want' = want
    BY <1>9 DEF SendCommand, extension
  <2>3. CASE m.op = "recover"
    BY <1>3, <1>7, <1>9, <2>1, <2>2, <2>3 DEF Presents
  <2>4. CASE m.op # "recover"
    BY <1>3, <1>6, <1>9, <2>1, <2>2, <2>4 DEF Presents
  <2> QED BY <2>3, <2>4
<1>10. CASE t = s /\ SendLeave(s)
  <2> DEFINE m == [op |-> "leave"]
  <2>1. m \in Ask /\ m.op = "leave"
    BY DEF Ask, PlainAsk
  <2>2. up'[t] = Append(up[t], m) /\ saved'[t].cred = 0 /\ want'[t] = NotWanted /\ t \in astray'
    BY <1>0, <1>10, Values DEF SendLeave, Sent
  <2> HIDE DEF m
  <2>3. NoNew(up[t], up'[t])
    BY <1>0, <2>1, <2>2, NoNewAppend DEF Presents
  <2>4. Pending(up[t], down[t], saved[t].cred, want[t])
    BY DEF Letter
  <2>5. Pending(up'[t], down[t], 0, NotWanted)
    <3>1. NotWanted > 0 => NotWanted = 0
      BY DEF NotWanted
    <3> QED BY <1>0, <1>4, <2>3, <2>4, <3>1, PendingCarried
  <2>6. group'.phase = "unborn" => Blank(up'[t], down[t], 0)
    <3>1. group'.phase = "unborn" => Blank(up[t], down[t], saved[t].cred) /\ saved[t].cred = 0
      BY <1>1 DEF Letter, OldGroup, Blank
    <3>2. Blank(up[t], down[t], saved[t].cred) => Blank(up'[t], down[t], saved[t].cred)
      BY <1>0, <1>4, <2>3, BlankCarried
    <3> QED BY <3>1, <3>2
  <2> QED BY <1>1, <1>4, <2>2, <2>5, <2>6, LetterPrimed
<1>11. CASE t = s /\ SendJoin(s)
  <2>1. /\ saved' = saved /\ want'[t] = saved[t].cred /\ up[t] = <<>> /\ down[t] = <<>>
        /\ group.phase # "unborn"
    BY <1>0, <1>11 DEF SendJoin
  <2>2. CASE saved[s].cred # 0 /\ Sent(s, [op |-> "return", cred |-> saved[s].cred])
    <3> DEFINE m == [op |-> "return", cred |-> saved[s].cred]
    <3>1. m \in Ask /\ m.op \in Presents /\ m.cred = saved[s].cred
      BY SavedFacts DEF Ask, CredAsk, Presents
    <3>2. Sent(s, m)
      BY <2>2
    <3> HIDE DEF m
    <3> QED BY <1>7, <1>11, <2>1, <2>2, <3>1, <3>2
  <2>3. CASE /\ saved[s].cred = 0
             /\ \E n \in NameOf[s], code \in BOOLEAN : Sent(s, [op |-> "enroll", name |-> n, code |-> code])
    <3>1. PICK n \in NameOf[s], code \in BOOLEAN : Sent(s, [op |-> "enroll", name |-> n, code |-> code])
      BY <2>3
    <3> DEFINE m == [op |-> "enroll", name |-> n, code |-> code]
    <3>2. m \in Ask /\ m.op = "enroll"
      BY Constants DEF Ask, EnrollAsk
    <3>3. up'[t] = Append(<<>>, m)
      BY <1>0, <1>11, <2>1, <3>1 DEF Sent
    <3> HIDE DEF m
    <3>4. up'[t] = <<m>>
      BY <3>3
    <3>5. Pending(<<m>>, <<>>, 0, 0)
      BY <3>2, PendingEnrols
    <3>6. Pending(up'[t], down'[t], saved'[t].cred, want'[t])
      BY <1>1, <1>11, <2>1, <2>3, <3>4, <3>5
    <3>7. ASSUME row'[t].status = "active", t \notin astray'
          PROVE  Opens(up'[t], down'[t], saved'[t].cred, row'[t].cred)
      <4>1. Opens(<<>>, <<>>, saved[t].cred, row[t].cred) /\ row'[t].cred = row[t].cred
        BY <1>2, <2>1, <3>7 DEF Letter, OldRow
      <4>2. Opens(<<m>>, <<>>, saved[t].cred, row[t].cred)
        BY <3>2, <4>1, OpensEnrols
      <4> QED BY <1>1, <2>1, <3>4, <4>1, <4>2
    <3>8. group'.phase # "unborn"
      BY <1>1, <2>1 DEF OldGroup
    <3> QED BY <1>1, <1>4, <3>6, <3>7, <3>8, LetterPrimed
  <2> QED BY <1>11, <2>2, <2>3 DEF SendJoin
<1> QED BY <1>5, <1>8, <1>9, <1>10, <1>11

\* Others than the session that hears something
LEMMA HearAside ==
  ASSUME Types, NEW s \in Sessions, NEW t \in Sessions, t # s, Letter(t),
         HearSnapshot(s) \/ HearWelcome(s) \/ HearOwnerKey(s) \/ HearForget(s)
  PROVE  Letter(t)'
<1>0. /\ DOMAIN up = Sessions /\ DOMAIN want = Sessions /\ DOMAIN saved = Sessions
      /\ DOMAIN down = Sessions /\ DOMAIN link = Sessions
  BY DEF Types, UpType, DownType, SavedType, SessionType
<1>1. /\ up'[t] = up[t] /\ down'[t] = down[t] /\ want'[t] = want[t] /\ saved'[t] = saved[t]
      /\ link'[t] = link[t]
  BY <1>0 DEF HearSnapshot, HearWelcome, HearOwnerKey, HearForget, Heard, Sent
<1>2. OldGroup /\ row' = row /\ (t \in astray => t \in astray')
  BY DEF HearSnapshot, HearWelcome, HearOwnerKey, HearForget, database, OldGroup
<1>3. Aside(t)
  BY <1>1, <1>2 DEF Aside, OldRow
<1> QED BY <1>3, AsideLetter

LEMMA HearSnapshotLetter ==
  ASSUME Types, NEW t \in Sessions, Letter(t), HearSnapshot(t)
  PROVE  Letter(t)'
<1> DEFINE wanted == WantAfter(t, Head(down[t]), inst[t] \notin {0, epoch})
<1>0. /\ DOMAIN up = Sessions /\ DOMAIN want = Sessions /\ DOMAIN saved = Sessions
      /\ DOMAIN down = Sessions /\ DOMAIN link = Sessions
      /\ up[t] \in Seq(Ask) /\ down[t] \in Seq(Answer)
  BY ChannelTypes DEF Types, UpType, DownType, SavedType, SessionType
<1>1. down[t] # <<>> /\ Head(down[t]).kind = "snapshot" /\ Tail(down[t]) \in Seq(Answer)
  BY HearsFacts DEF HearSnapshot
<1>2. /\ down'[t] = Tail(down[t]) /\ want'[t] = wanted /\ saved'[t] = saved[t] /\ link'[t] = "up"
      /\ OldGroup /\ row' = row /\ astray' = astray
  BY <1>0 DEF HearSnapshot, Heard, SavedAfter, database, OldGroup
<1>3. wanted > 0 => wanted = saved[t].cred
  <2>1. want[t] > 0 => want[t] = saved[t].cred
    BY DEF Letter, Pending
  <2> QED BY <2>1 DEF WantAfter, NotWanted
<1>4. \/ up'[t] = up[t]
      \/ wanted > 0 /\ up'[t] = Append(up[t], [op |-> "return", cred |-> wanted])
  BY <1>0 DEF HearSnapshot, Sent
<1> HIDE DEF wanted
<1>5. Pending(up[t], Tail(down[t]), saved[t].cred, wanted)
  <2>1. Pending(up[t], down[t], saved[t].cred, want[t])
    BY DEF Letter
  <2> QED BY <1>0, <1>1, <1>3, <2>1, PendingHeard
<1>6. ASSUME row[t].status = "active", t \notin astray
      PROVE  Opens(up[t], Tail(down[t]), saved[t].cred, row[t].cred)
  <2>1. Opens(up[t], down[t], saved[t].cred, row[t].cred)
    BY <1>6 DEF Letter
  <2> QED BY <1>0, <1>1, <2>1, OpensHeard
<1>7. group.phase = "unborn" => Blank(up[t], Tail(down[t]), saved[t].cred) /\ saved[t].cred = 0
  <2>1. group.phase = "unborn" => Blank(up[t], down[t], saved[t].cred)
    BY DEF Letter
  <2> QED BY <1>0, <1>1, <2>1, BlankHeard DEF Blank
<1>8. CASE up'[t] = up[t]
  <2>1. group'.phase = "unborn" => Blank(up'[t], down'[t], saved'[t].cred)
    BY <1>2, <1>7, <1>8 DEF OldGroup
  <2>2. Pending(up'[t], down'[t], saved'[t].cred, want'[t])
    BY <1>2, <1>5, <1>8
  <2>3. row'[t].status = "active" /\ t \notin astray' =>
          Opens(up'[t], down'[t], saved'[t].cred, row'[t].cred)
    BY <1>2, <1>6, <1>8
  <2>4. link'[t] # "down"
    BY <1>2
  <2> QED BY <2>1, <2>2, <2>3, <2>4, LetterPrimed
<1>9. CASE wanted > 0 /\ up'[t] = Append(up[t], [op |-> "return", cred |-> wanted])
  <2> DEFINE m == [op |-> "return", cred |-> wanted]
  <2>1. m \in Ask /\ m.op \in Presents /\ m.cred = saved[t].cred /\ saved[t].cred # 0
    <3>1. wanted = saved[t].cred /\ saved[t].cred \in Numbers
      BY <1>3, <1>9, SavedFacts
    <3> QED BY <1>9, <3>1 DEF Ask, CredAsk, Presents
  <2>2. up'[t] = Append(up[t], m)
    BY <1>9
  <2> HIDE DEF m
  <2>3. Pending(Append(up[t], m), Tail(down[t]), saved[t].cred, wanted)
    BY <1>0, <1>1, <1>3, <1>5, <2>1, PendingPresents
  <2>4. ASSUME row[t].status = "active", t \notin astray
        PROVE  Opens(Append(up[t], m), Tail(down[t]), saved[t].cred, row[t].cred)
    BY <1>0, <1>1, <1>5, <1>6, <2>1, <2>4, OpensPresents
  <2>5. Pending(up'[t], down'[t], saved'[t].cred, want'[t])
    BY <1>2, <2>2, <2>3
  <2>6. row'[t].status = "active" /\ t \notin astray' =>
          Opens(up'[t], down'[t], saved'[t].cred, row'[t].cred)
    BY <1>2, <2>2, <2>4
  <2>7. group'.phase # "unborn"
    BY <1>2, <1>7, <2>1 DEF OldGroup
  <2>8. link'[t] # "down"
    BY <1>2
  <2> QED BY <2>5, <2>6, <2>7, <2>8, LetterPrimed
<1> QED BY <1>4, <1>8, <1>9

LEMMA HearPlainLetter ==
  ASSUME Types, NEW t \in Sessions, Letter(t), HearOwnerKey(t) \/ HearForget(t)
  PROVE  Letter(t)'
<1>0. /\ DOMAIN want = Sessions /\ DOMAIN saved = Sessions /\ DOMAIN down = Sessions
      /\ up[t] \in Seq(Ask) /\ down[t] \in Seq(Answer) /\ saved[t] \in SavedRecord
  BY ChannelTypes, SavedFacts DEF Types, DownType, SavedType
<1>1. /\ down[t] # <<>> /\ Tail(down[t]) \in Seq(Answer) /\ link[t] # "down"
      /\ \/ Head(down[t]).kind = "ownerkey" /\ HearOwnerKey(t)
         \/ Head(down[t]).kind = "forget" /\ HearForget(t)
  BY HearsFacts DEF HearOwnerKey, HearForget, Hears
<1>2. /\ down'[t] = Tail(down[t]) /\ up' = up /\ link' = link
      /\ OldGroup /\ row' = row /\ astray' = astray
  BY <1>0 DEF HearOwnerKey, HearForget, Heard, database, OldGroup
<1>3. /\ saved'[t].cred = saved[t].cred \/ saved'[t].cred = 0
      /\ Head(down[t]).kind = "forget" \/ saved'[t].cred = saved[t].cred
      /\ want'[t] > 0 => want'[t] = saved'[t].cred
  <2>1. want[t] > 0 => want[t] = saved[t].cred
    BY DEF Letter, Pending
  <2>2. CASE Head(down[t]).kind = "ownerkey" /\ HearOwnerKey(t)
    <3>1. saved'[t] = saved[t] \/ saved'[t] = [saved[t] EXCEPT !.key = Head(down[t]).key]
      BY <1>0, <2>2 DEF HearOwnerKey
    <3>2. saved'[t].cred = saved[t].cred
      BY <1>0, <3>1 DEF SavedRecord
    <3> QED BY <2>1, <2>2, <3>2 DEF HearOwnerKey
  <2>3. CASE Head(down[t]).kind = "forget" /\ HearForget(t)
    <3>1. saved'[t] = NothingSaved /\ want'[t] = NotWanted
      BY <1>0, <2>3 DEF HearForget
    <3> QED BY <2>3, <3>1, Values DEF NotWanted
  <2> QED BY <1>1, <2>2, <2>3
<1>4. Pending(up[t], Tail(down[t]), saved'[t].cred, want'[t])
  <2>1. Pending(up[t], down[t], saved[t].cred, want[t])
    BY DEF Letter
  <2>2. Head(down[t]).kind # "welcome"
    BY <1>1
  <2> QED BY <1>0, <1>1, <1>3, <2>1, <2>2, PendingHeard
<1>5. ASSUME row[t].status = "active", t \notin astray
      PROVE  Opens(up[t], Tail(down[t]), saved'[t].cred, row[t].cred)
  <2>1. Opens(up[t], down[t], saved[t].cred, row[t].cred)
    BY <1>5 DEF Letter
  <2>2. Head(down[t]).kind # "welcome"
    BY <1>1
  <2> QED BY <1>0, <1>1, <1>3, <2>1, <2>2, OpensHeard
<1>6. group.phase = "unborn" => Blank(up[t], Tail(down[t]), saved'[t].cred)
  <2>1. group.phase = "unborn" => Blank(up[t], down[t], saved[t].cred)
    BY DEF Letter
  <2>2. group.phase = "unborn" => Blank(up[t], Tail(down[t]), saved[t].cred) /\ saved[t].cred = 0
    BY <1>0, <1>1, <2>1, BlankHeard DEF Blank
  <2> QED BY <1>3, <2>2
<1>7. Pending(up'[t], down'[t], saved'[t].cred, want'[t])
  BY <1>2, <1>4
<1>8. row'[t].status = "active" /\ t \notin astray' =>
        Opens(up'[t], down'[t], saved'[t].cred, row'[t].cred)
  BY <1>2, <1>5
<1>9. group'.phase = "unborn" => Blank(up'[t], down'[t], saved'[t].cred)
  BY <1>2, <1>6 DEF OldGroup
<1>10. link'[t] # "down"
  BY <1>1, <1>2
<1> QED BY <1>7, <1>8, <1>9, <1>10, LetterPrimed

LEMMA HearWelcomeLetter ==
  ASSUME Types, NEW t \in Sessions, Letter(t), HearWelcome(t)
  PROVE  Letter(t)'
<1> DEFINE m == Head(down[t])
<1>0. /\ DOMAIN want = Sessions /\ DOMAIN saved = Sessions /\ DOMAIN down = Sessions
      /\ up[t] \in Seq(Ask) /\ down[t] \in Seq(Answer)
  BY ChannelTypes DEF Types, DownType, SavedType
<1>1. down[t] # <<>> /\ m.kind = "welcome" /\ Tail(down[t]) \in Seq(Answer) /\ link[t] # "down"
  BY HearsFacts DEF HearWelcome, Hears
<1>2. down'[t] = Tail(down[t]) /\ up' = up /\ link' = link /\ OldGroup /\ row' = row
  BY <1>0 DEF HearWelcome, Heard, database, OldGroup
<1>3. Pending(up[t], down[t], saved[t].cred, want[t])
  BY DEF Letter
<1>4. /\ want'[t] > 0 => want'[t] = saved'[t].cred
      /\ \/ t \in astray'
         \/ /\ saved'[t].cred = m.cred
            /\ t \in astray => Lasting(t)
  <2>1. CASE want[t] = NotWanted
    <3>1. saved' = saved /\ want' = want /\ t \in astray'
      BY <2>1 DEF HearWelcome
    <3> QED BY <1>3, <3>1 DEF Pending
  <2>2. CASE want[t] # NotWanted
    <3>1. /\ saved'[t] = [cred |-> m.cred, key |-> m.key] /\ want'[t] = m.cred
          /\ astray' = IF Lasting(t) THEN astray \ {t} ELSE astray
      BY <1>0, <2>2 DEF HearWelcome
    <3> QED BY <3>1
  <2> QED BY <2>1, <2>2
<1> HIDE DEF m
<1>5. Pending(up[t], Tail(down[t]), saved'[t].cred, want'[t])
  BY <1>0, <1>1, <1>3, <1>4, PendingSaved DEF m
<1>6. /\ \A i \in 1..Len(up[t]) : up[t][i].op \notin Presents
      /\ \A i \in 2..Len(down[t]) : down[t][i].kind # "welcome"
  BY <1>0, <1>1, <1>3, <1>4, PendingSaved DEF m
<1>7. group.phase # "unborn"
  <2>1. group.phase = "unborn" => Blank(up[t], down[t], saved[t].cred)
    BY DEF Letter
  <2>2. group.phase = "unborn" => Head(down[t]).kind # "welcome"
    BY <1>0, <1>1, <2>1, BlankHeard
  <2> QED BY <1>1, <2>2 DEF m
<1>8. ASSUME row'[t].status = "active", t \notin astray'
      PROVE  Opens(up'[t], down'[t], saved'[t].cred, row'[t].cred)
  <2>1. saved'[t].cred = m.cred /\ (t \in astray => Lasting(t))
    BY <1>4, <1>8
  <2>2. \/ m.cred = row[t].cred /\ \A i \in 2..Len(down[t]) : down[t][i].kind # "forget"
        \/ \E c : Opens(up[t], down[t], c, row[t].cred)
    <3>1. CASE t \in astray
      BY <2>1, <3>1 DEF Lasting, HasCredential, m
    <3>2. CASE t \notin astray
      <4>1. Opens(up[t], down[t], saved[t].cred, row[t].cred)
        BY <1>2, <1>8, <3>2 DEF Letter
      <4> QED BY <4>1
    <3> QED BY <3>1, <3>2
  <2>3. Opens(up[t], Tail(down[t]), m.cred, row[t].cred)
    BY <1>0, <1>1, <1>6, <2>2, OpensSaved DEF m
  <2> QED BY <1>2, <2>1, <2>3
<1>9. Pending(up'[t], down'[t], saved'[t].cred, want'[t])
  BY <1>2, <1>5
<1>10. link'[t] # "down" /\ group'.phase # "unborn"
  BY <1>1, <1>2, <1>7 DEF OldGroup
<1> QED BY <1>8, <1>9, <1>10, LetterPrimed

\* The broker issues a credential for a session and tells it.
LEMMA SeatedLetter ==
  ASSUME Types, NEW s \in Sessions, NEW op \in {"create", "enroll"}, Reads(s, op), Read(s), Letter(s),
         UNCHANGED extension, op = "create" => group.phase = "unborn", group'.phase # "unborn",
         NEW m \in Answer, m.kind = "welcome", row'[s].cred = m.cred, Reached(s),
         Quiet(Append(down[s], m), down'[s])
  PROVE  Letter(s)'
<1> DEFINE u == up[s]
           u2 == Tail(u)
<1>1. u \in Seq(Ask) /\ u # <<>> /\ down[s] \in Seq(Answer) /\ u[1].op = op
  BY ChannelTypes DEF Reads
<1>2. /\ Len(u2) = Len(u) - 1 /\ Len(u) \in Nat \ {0}
      /\ \A i \in 1..(Len(u) - 1) : u2[i] = u[i + 1]
  BY <1>1, TailFacts
<1>3. up'[s] = u2 /\ saved' = saved /\ want' = want /\ link' = link
  BY DEF Read, Types, UpType, extension
<1>4. Pending(u, down[s], saved[s].cred, want[s])
  BY DEF Letter
<1>5. /\ saved[s].cred = 0
      /\ \A i \in 1..Len(down[s]) : down[s][i].kind # "welcome"
      /\ \A i \in 1..Len(u) : u[i].op \notin Presents /\ (u[i].op = "enroll" => i = 1)
  <2>1. CASE op = "enroll"
    <3>1. 1 \in 1..Len(u) /\ u[1].op = "enroll"
      BY <1>1, <1>2, <2>1
    <3> HIDE DEF u
    <3> QED BY <1>4, <3>1 DEF Pending
  <2>2. CASE op = "create"
    <3>1. Blank(u, down[s], saved[s].cred)
      BY <2>2 DEF Letter
    <3> HIDE DEF u
    <3> QED BY <3>1 DEF Blank
  <2> QED BY <2>1, <2>2
<1>6. want[s] > 0 => want[s] = 0
  BY <1>4, <1>5 DEF Pending
<1>7. ASSUME NEW i \in 1..Len(u2) PROVE u2[i].op \notin Presents \cup {"enroll"}
  <2>1. i + 1 \in 1..Len(u) /\ i + 1 # 1 /\ u2[i] = u[i + 1]
    BY <1>2
  <2> QED BY <1>5, <2>1
<1>8. u2 \in Seq(Ask)
  BY <1>1, TailFacts
<1> HIDE DEF u2, u
<1>9. Pending(u2, down'[s], 0, want[s]) /\ Opens(u2, down'[s], 0, m.cred)
  BY <1>1, <1>5, <1>6, <1>7, <1>8, Welcomed
<1>10. link'[s] # "down"
  BY <1>3 DEF Reached
<1>11. Pending(up'[s], down'[s], saved'[s].cred, want'[s]) /\ Opens(up'[s], down'[s], saved'[s].cred, row'[s].cred)
  BY <1>3, <1>5, <1>9
<1> QED BY <1>10, <1>11, LetterPrimed

\* The broker issues a credential for a session that never hears it.
LEMMA UnseatedLetter ==
  ASSUME Types, NEW s \in Sessions, NEW op, Reads(s, op), Read(s), Letter(s),
         UNCHANGED extension, group'.phase # "unborn", down'[s] = down[s], s \in astray'
  PROVE  Letter(s)'
<1>1. up[s] \in Seq(Ask) /\ down[s] \in Seq(Answer) /\ up[s] # <<>>
  BY ChannelTypes DEF Reads
<1>2. up'[s] = Tail(up[s]) /\ saved' = saved /\ want' = want /\ link' = link
  BY DEF Read, Types, UpType, extension
<1>3. NoNew(up[s], up'[s]) /\ Quiet(down[s], down'[s]) /\ Grown(down[s], down'[s])
  BY <1>1, <1>2, NoNewTail, QuietSame, QuietGrown
<1>4. (want[s] > 0 => want[s] = saved[s].cred) /\ (link[s] = "down" => down[s] = <<>>)
  BY DEF Letter, Pending
<1>5. OldRow(s) /\ OldGroup
  BY DEF OldRow, OldGroup
<1>6. Carried(s)
  BY <1>2, <1>3, <1>4, <1>5 DEF Carried
<1> QED BY <1>6, CarriedLetter

\* The others, when a session takes its seat
LEMMA BesideLetter ==
  ASSUME Types, NEW s \in Sessions, Read(s), UNCHANGED extension, group'.phase # "unborn",
         NEW t \in Sessions \ {s}, Letter(t), row'[t] = row[t], down'[t] = down[t],
         t \in astray => t \in astray'
  PROVE  Letter(t)'
<1>1. up'[t] = up[t] /\ saved' = saved /\ want' = want /\ link' = link
  BY DEF Read, Types, UpType, extension
<1>2. OldRow(t) /\ OldGroup
  BY DEF OldRow, OldGroup
<1>3. Aside(t)
  BY <1>1, <1>2 DEF Aside
<1> QED BY <1>3, AsideLetter

LEMMA CreateLetter ==
  ASSUME Types, NEW s \in Sessions, Create(s), NEW t \in Sessions, Letter(s), Letter(t)
  PROVE  Letter(t)'
<1>1. CASE Refuse(s)
  BY <1>1, RefusedLetter DEF Create
<1>2. CASE ~Refuse(s)
  <2> DEFINE m == [kind |-> "welcome", cred |-> issued + 1, key |-> issued + 2]
             r == [status |-> "active", name |-> Head(up[s]).name, cred |-> issued + 1]
  <2>1. /\ Reads(s, "create") /\ Read(s) /\ group.phase = "unborn" /\ group'.phase = "open"
        /\ issued + 1 \in Numbers /\ issued + 2 \in Numbers
        /\ row' = [row EXCEPT ![s] = r] /\ astray' = LostOnWay(s) /\ UNCHANGED extension
        /\ \A h \in Sessions \ {s} : down'[h] = down[h]
        /\ ~Reached(s) => down'[s] = down[s]
        /\ Reached(s) => Quiet(Append(down[s], m), down'[s])
    BY <1>2, CreateMade
  <2>2. m \in Answer /\ m.kind = "welcome" /\ r.cred = m.cred
    BY <2>1 DEF Answer, WelcomeAnswer
  <2> HIDE DEF m, r
  <2>3. row'[s] = r /\ \A h \in Sessions \ {s} : row'[h] = row[h]
    BY <2>1, TypeFacts
  <2>4. CASE t = s /\ Reached(s)
    <3>1. "create" \in {"create", "enroll"} /\ group'.phase # "unborn" /\ row'[s].cred = m.cred
      BY <2>1, <2>2, <2>3
    <3>2. Letter(s)'
      BY <2>1, <2>2, <2>4, <3>1, SeatedLetter
    <3> QED BY <2>4, <3>2
  <2>5. CASE t = s /\ ~Reached(s)
    <3>1. Letter(s)'
      BY <2>1, <2>5, UnseatedLetter DEF LostOnWay
    <3> QED BY <2>5, <3>1
  <2>6. CASE t # s
    BY <2>1, <2>3, <2>6, BesideLetter DEF LostOnWay
  <2> QED BY <2>4, <2>5, <2>6
<1> QED BY <1>1, <1>2

LEMMA EnrolledLetter ==
  ASSUME Types, NEW s \in Sessions, Enrolled(s), NEW t \in Sessions, Letter(s), Letter(t)
  PROVE  Letter(t)'
<1> DEFINE m == [kind |-> "welcome", cred |-> issued + 1, key |-> 0]
           r == [status |-> "active", name |-> Head(up[s]).name, cred |-> issued + 1]
<1>1. /\ Reads(s, "enroll") /\ Read(s) /\ group' = group /\ group.phase = "open"
      /\ issued + 1 \in Numbers /\ row' = [row EXCEPT ![s] = r] /\ UNCHANGED extension
      /\ \/ /\ astray' = LostOnWay(s)
            /\ \A h \in Sessions \ {s} : down'[h] = down[h]
            /\ ~Reached(s) => down'[s] = down[s]
            /\ Reached(s) => Quiet(Append(down[s], m), down'[s])
         \/ astray' = astray \cup {s} /\ down' = down
  BY DEF Enrolled
<1>2. m \in Answer /\ m.kind = "welcome" /\ r.cred = m.cred
  BY <1>1, Constants DEF Answer, WelcomeAnswer, Numbers
<1> HIDE DEF m, r
<1>3. row'[s] = r /\ \A h \in Sessions \ {s} : row'[h] = row[h]
  BY <1>1, TypeFacts
<1>4. group'.phase # "unborn"
  BY <1>1
<1>5. CASE t # s
  BY <1>1, <1>3, <1>4, <1>5, BesideLetter DEF LostOnWay
<1>6. CASE t = s /\ s \in astray' /\ down'[s] = down[s]
  BY <1>1, <1>4, <1>6, UnseatedLetter
<1>7. CASE t = s /\ Reached(s) /\ Quiet(Append(down[s], m), down'[s])
  <2>1. "enroll" \in {"create", "enroll"} /\ row'[s].cred = m.cred
    BY <1>2, <1>3
  <2> QED BY <1>1, <1>2, <1>4, <1>7, <2>1, SeatedLetter
<1> QED BY <1>1, <1>5, <1>6, <1>7 DEF LostOnWay

LEMMA EnrollLetter ==
  ASSUME Types, SeatsInv, NEW s \in Sessions, Enroll(s), NEW t \in Sessions, Letter(s), Letter(t)
  PROVE  Letter(t)'
<1>1. CASE Reads(s, "enroll") /\ group.phase = "gone" /\ JoinGone(s)
  BY <1>1, JoinGoneLetter
<1>2. CASE Reads(s, "enroll") /\ RejectInvite(s)
  BY <1>2, LossLetters
<1>3. CASE Reads(s, "enroll") /\ Refuse(s)
  BY <1>3, RefusedLetter
<1>4. CASE Enrolled(s)
  BY <1>4, EnrolledLetter
<1> QED BY <1>1, <1>2, <1>3, <1>4, EnrollCases

\* A credential that a session presents is that of its row in force, or it is astray.
LEMMA PresentedOpens ==
  ASSUME Types, NEW s \in Sessions, Letter(s), NEW op \in Presents, Reads(s, op),
         row[s].status = "active", s \notin astray
  PROVE  HasCredential(s, Head(up[s]).cred)
<1>1. up[s] \in Seq(Ask) /\ up[s] # <<>>
  BY ChannelTypes DEF Reads
<1>2. 1 \in 1..Len(up[s]) /\ Head(up[s]) = up[s][1] /\ up[s][1].op = op
  BY <1>1, TailFacts DEF Reads
<1>3. Opens(up[s], down[s], saved[s].cred, row[s].cred)
  BY DEF Letter
<1>4. up[s][1].cred = row[s].cred
  BY <1>2, <1>3 DEF Opens
<1> QED BY <1>2, <1>4 DEF HasCredential

LEMMA ReturnLetter ==
  ASSUME Types, SeatsInv, NEW s \in Sessions, Return(s), NEW t \in Sessions, Letter(s), Letter(t)
  PROVE  Letter(t)'
<1>1. CASE Reads(s, "return") /\ group.phase = "gone" /\ JoinGone(s)
  BY <1>1, JoinGoneLetter
<1>2. CASE /\ Reads(s, "return") /\ ~MayReturn(s, Head(up[s]).cred)
           /\ RefuseForGood(s) /\ UNCHANGED database
  <2>1. "return" \in Presents /\ row' = row /\ group' = group
    BY <1>2 DEF Presents, database
  <2>2. row[s].status = "active" => s \in astray
    BY <1>2, <2>1, PresentedOpens DEF MayReturn
  <2> QED BY <1>2, <2>1, <2>2, ForgottenLetter
<1>3. CASE Reads(s, "return") /\ Refuse(s)
  BY <1>3, RefusedLetter
<1>4. CASE Returned(s)
  <2>1. Reads(s, "return") /\ Read(s) /\ UNCHANGED extension /\ QuietAll /\ OldRow(t) /\ OldGroup
    BY <1>4 DEF Returned, database, OldRow, OldGroup
  <2> QED BY <2>1, QuietLetter
<1> QED BY <1>1, <1>2, <1>3, <1>4, ReturnCases

LEMMA RecoverLetter ==
  ASSUME Types, UpInv, NEW s \in Sessions, Recover(s), NEW t \in Sessions, Letter(s), Letter(t)
  PROVE  Letter(t)'
<1>1. CASE /\ Reads(s, "recover") /\ ~MayRecover(s, Head(up[s]).cred)
           /\ RefuseForGood(s) /\ UNCHANGED database
  <2>1. "recover" \in Presents /\ row' = row /\ group' = group
    BY <1>1 DEF Presents, database
  <2>2. s \in Local
    <3>1. up[s] \in Seq(Ask) /\ up[s] # <<>>
      BY <1>1, ChannelTypes DEF Reads
    <3>2. 1 \in 1..Len(up[s]) /\ up[s][1].op = "recover"
      BY <1>1, <3>1, TailFacts DEF Reads
    <3> QED BY <3>2 DEF UpInv, FineAsk
  <2>3. row[s].status = "active" => s \in astray
    BY <1>1, <2>1, <2>2, PresentedOpens DEF MayRecover
  <2> QED BY <1>1, <2>1, <2>3, ForgottenLetter
<1>2. CASE Recovered(s)
  <2>1. /\ Reads(s, "recover") /\ Read(s) /\ UNCHANGED extension /\ QuietAll
        /\ OldRow(t) /\ OldGroup
    BY <1>2 DEF Recovered, OldRow, OldGroup
  <2> QED BY <2>1, QuietLetter
<1> QED BY <1>1, <1>2, RecoverCases

LEMMA LeaveLetter ==
  ASSUME Types, NEW s \in Sessions, Leave(s), NEW t \in Sessions, Letter(t)
  PROVE  Letter(t)'
<1>1. CASE Reads(s, "leave") /\ Refuse(s)
  BY <1>1, RefusedLetter
<1>2. CASE Left(s)
  <2>1. row' = [row EXCEPT ![s] = NoRow] /\ NoRow.status # "active"
    BY <1>2, Values DEF Left, NoRow
  <2> HIDE DEF NoRow
  <2>2. row'[t] = row[t] \/ row'[t].status # "active"
    BY <2>1, TypeFacts
  <2>3. /\ Reads(s, "leave") /\ Read(s) /\ UNCHANGED extension /\ QuietAll
        /\ OldRow(t) /\ OldGroup
    BY <1>2, <2>2 DEF Left, OldRow, OldGroup
  <2> QED BY <2>3, QuietLetter
<1> QED BY <1>1, <1>2, LeaveCases

LEMMA SetNearbyLetter ==
  ASSUME Types, NEW s \in Sessions, SetNearby(s), NEW t \in Sessions, Letter(t)
  PROVE  Letter(t)'
<1>1. CASE Reads(s, "near") /\ Refuse(s)
  BY <1>1, RefusedLetter
<1>2. CASE Nearby(s)
  <2>1. /\ Reads(s, "near") /\ Read(s) /\ UNCHANGED extension /\ QuietAll
        /\ OldRow(t) /\ OldGroup
    BY <1>2 DEF Nearby, OldRow, OldGroup
  <2> QED BY <2>1, QuietLetter
<1> QED BY <1>1, <1>2, SetNearbyCases

LEMMA RemoveLetter ==
  ASSUME Types, NEW s \in Sessions, Remove(s), NEW t \in Sessions, Letter(t)
  PROVE  Letter(t)'
<1>1. CASE Reads(s, "remove") /\ Refuse(s)
  BY <1>1, RefusedLetter
<1>2. CASE Removed(s)
  <2> DEFINE who == Head(up[s]).who
  <2>1. /\ Reads(s, "remove") /\ Read(s) /\ UNCHANGED extension /\ group' = group
        /\ who \in Sessions /\ row' = [row EXCEPT ![who].status = "removed"]
        /\ astray' = astray \cup {h \in Sessions \ {who} : live[h].in /\ ~live'[h].in}
        /\ Grown(down[t], down'[t])
        /\ (live[t].in => live'[t].in) => Quiet(down[t], down'[t])
        /\ Unreached
    BY <1>2 DEF Removed
  <2> HIDE DEF who
  <2>2. row[t] \in Row /\ row \in [Sessions -> Row]
    BY TypeFacts
  <2>3. CASE t = who
    <3>1. row'[t].status = "removed"
      BY <2>1, <2>2, <2>3 DEF Row
    <3>2. OldRow(t) /\ OldGroup
      BY <2>1, <3>1 DEF OldRow, OldGroup
    <3> QED BY <2>1, <3>1, <3>2, ReadLetter
  <2>4. CASE t # who
    <3>1. row'[t] = row[t]
      BY <2>1, <2>2, <2>4
    <3>2. OldRow(t) /\ OldGroup
      BY <2>1, <3>1 DEF OldRow, OldGroup
    <3>3. t \notin astray' => Quiet(down[t], down'[t])
      BY <2>1, <2>4
    <3> QED BY <2>1, <3>2, <3>3, ReadLetter
  <2> QED BY <2>3, <2>4
<1> QED BY <1>1, <1>2, RemoveCases

LEMMA AllowLetter ==
  ASSUME Types, NEW s \in Sessions, Allow(s), NEW t \in Sessions, Letter(t)
  PROVE  Letter(t)'
<1>1. CASE Reads(s, "allow") /\ Refuse(s)
  BY <1>1, RefusedLetter
<1>2. CASE Allowed(s)
  <2> DEFINE who == Head(up[s]).who
  <2>1. /\ Reads(s, "allow") /\ Read(s) /\ UNCHANGED extension /\ QuietAll /\ group' = group
        /\ row' = [row EXCEPT ![who] = NoRow] /\ astray \subseteq astray'
    BY <1>2 DEF Allowed
  <2>2. NoRow.status # "active"
    BY Values DEF NoRow
  <2> HIDE DEF who, NoRow
  <2>3. row'[t] = row[t] \/ row'[t].status # "active"
    BY <2>1, <2>2, TypeFacts
  <2>4. OldRow(t) /\ OldGroup
    BY <2>1, <2>3 DEF OldRow, OldGroup
  <2> QED BY <2>1, <2>4, QuietLetter
<1> QED BY <1>1, <1>2, AllowCases

LEMMA DeleteLetter ==
  ASSUME Types, NEW s \in Sessions, Delete(s), NEW t \in Sessions, Letter(t)
  PROVE  Letter(t)'
<1>1. CASE Reads(s, "delete") /\ Refuse(s)
  BY <1>1, RefusedLetter
<1>2. CASE Deleted(s)
  <2>1. row'[t].status # "active" /\ group'.phase # "unborn"
    BY <1>2, Values DEF Deleted, NoRow, Gone, Unborn
  <2>2. /\ Reads(s, "delete") /\ Read(s) /\ UNCHANGED extension /\ QuietAll
        /\ OldRow(t) /\ OldGroup
    BY <1>2, <2>1 DEF Deleted, OldRow, OldGroup
  <2> QED BY <2>2, QuietLetter
<1> QED BY <1>1, <1>2, DeleteCases

LEMMA HearLetters ==
  ASSUME Types, NEW s \in Sessions, NEW t \in Sessions, Letter(t),
         HearSnapshot(s) \/ HearWelcome(s) \/ HearOwnerKey(s) \/ HearForget(s)
  PROVE  Letter(t)'
<1>1. CASE t # s
  BY <1>1, HearAside
<1>2. CASE t = s
  BY <1>2, HearSnapshotLetter, HearWelcomeLetter, HearPlainLetter
<1> QED BY <1>1, <1>2

LEMMA NextSaved == Types /\ UpInv /\ SeatsInv /\ SavedInv /\ [Next]_vars => SavedInv'
<1> SUFFICES ASSUME Types, UpInv, SeatsInv, SavedInv, [Next]_vars, NEW t \in Sessions
             PROVE  Letter(t)'
  BY DEF SavedInv
<1>0. \A s \in Sessions : Letter(s)
  BY DEF SavedInv
<1>1. CASE BrokerRestart
  BY <1>0, <1>1, LossLetters
<1>2. CASE \E s \in Sessions : Connect(s) \/ Disconnected(s) \/ GraceEnds(s) \/ Goodbye(s)
  BY <1>0, <1>2, ConnectionLetters
<1>3. CASE \E s \in Sessions : Cut(s) \/ Reopen(s)
  BY <1>0, <1>3, LossLetters
<1>4. CASE \E s \in Sessions : SendCreate(s) \/ SendJoin(s) \/ SendLeave(s) \/ SendCommand(s)
  BY <1>0, <1>4, SendLetters
<1>5. CASE \E s \in Sessions : Create(s) \/ Enroll(s) \/ Return(s) \/ Leave(s)
  BY <1>0, <1>5, CreateLetter, EnrollLetter, ReturnLetter, LeaveLetter
<1>6. CASE \E s \in Sessions : SetNearby(s) \/ Remove(s) \/ Allow(s) \/ Delete(s) \/ Recover(s)
  BY <1>0, <1>6, SetNearbyLetter, RemoveLetter, AllowLetter, DeleteLetter, RecoverLetter
<1>7. CASE \E s \in Sessions :
             HearSnapshot(s) \/ HearWelcome(s) \/ HearOwnerKey(s) \/ HearForget(s)
  BY <1>0, <1>7, HearLetters
<1>8. CASE UNCHANGED vars
  <2>1. Aside(t)
    BY <1>8 DEF vars, database, extension, Aside, OldRow, OldGroup
  <2> QED BY <1>0, <2>1, AsideLetter
<1> QED BY <1>1, <1>2, <1>3, <1>4, <1>5, <1>6, <1>7, <1>8 DEF Next

LEMMA InitSaved == Init => SavedInv
<1> SUFFICES ASSUME Init, NEW t \in Sessions PROVE Letter(t)
  BY DEF SavedInv
<1>1. /\ up[t] = <<>> /\ down[t] = <<>> /\ saved[t].cred = 0 /\ want[t] = NotWanted
      /\ row[t].status = "none"
  BY Values DEF Init, NoRow, NothingSaved
<1>2. Len(<<>>) = 0 /\ ~(NotWanted > 0)
  BY DEF NotWanted
<1> QED BY <1>1, <1>2 DEF Letter, Pending, Blank

LEMMA AlwaysSaved == Spec => []SavedInv
  BY InitSaved, NextSaved, AlwaysTypes, AlwaysUp, AlwaysSeats, PTL DEF Spec

\* With nothing on its way, the last news was heard.
LEMMA SavedSuffices == SavedInv => SavedOpens
<1> SUFFICES ASSUME SavedInv, NEW s \in Sessions, row[s].status = "active", Settled(s), s \notin astray
             PROVE  saved[s].cred = row[s].cred
  BY DEF SavedOpens
<1>1. Opens(<<>>, <<>>, saved[s].cred, row[s].cred)
  BY DEF SavedInv, Letter, Settled
<1> QED BY <1>1 DEF Opens

\* SavedOpens: the credential that an extension saved opens the row in force once nothing
\* is on its way, whatever was issued, presented, revoked or lost before
\* (membership.welcome, saveMembership and clearSavedMembership of index.ts).
THEOREM SavedAlwaysOpens == Spec => []SavedOpens
  BY AlwaysSaved, SavedSuffices, PTL

=============================================================================
