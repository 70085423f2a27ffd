--------------------------- MODULE GroupMembership ---------------------------
(***************************************************************************)
(* Who belongs to a group, three times over: the rows of group_memberships *)
(* (src/src/broker/database.ts), the members in the broker's memory        *)
(* (GroupState, src/src/broker/group-state.ts, and the handlers of         *)
(* src/src/broker/server.ts) and the membership each extension saved       *)
(* (src/src/extension/index.ts).  Sessions connect, resume and are         *)
(* forgotten; the owner closes the group to other computers, removes and   *)
(* unblocks members, loses the group to another member or dissolves it.    *)
(*                                                                         *)
(* One group; a session's user and Agent names are one name.  Every        *)
(* connection is a channel in each direction, a broken one loses what is   *)
(* on its way.  A credential is a number that is issued once.              *)
(***************************************************************************)
EXTENDS Integers, Sequences, FiniteSets

CONSTANTS Sessions,
          Local,      \* the sessions on the broker's computer
          Founders,   \* those that may create the group
          Names, Nobody, NoName,
          NameOf,     \* the names that a session asks for
          MaxIssued,  \* bound: credentials
          MaxOnWay,   \* bound: messages of a channel
          MaxCommands,\* bound: commands of owners; a fault takes the place of one
          MaxFaults   \* bound: broken connections, restarts of Pi and of the broker

ASSUME ConstantsAssumption ==
  /\ Founders \subseteq Local /\ Local \subseteq Sessions
  /\ Nobody \notin Sessions /\ NoName \notin Names
  /\ NameOf \in [Sessions -> SUBSET Names]
  /\ {MaxIssued, MaxCommands, MaxFaults} \subseteq Nat /\ MaxOnWay \in Nat \ {0}

Statuses == {"none", "active", "removed"}
NoRow == [status |-> "none", name |-> NoName, cred |-> 0]
Out == [in |-> FALSE, name |-> NoName, owner |-> FALSE]
Inside(name, owner) == [in |-> TRUE, name |-> name, owner |-> owner]
Unborn == [phase |-> "unborn", owner |-> Nobody, key |-> 0, near |-> FALSE, code |-> FALSE]
Gone == [Unborn EXCEPT !.phase = "gone"]
NothingSaved == [cred |-> 0, key |-> 0]
NotWanted == -1

VARIABLES
  \* the database
  group,   \* row of groups: owner_session_key, owner_credential_hash, visibility, invite
  row,     \* group_memberships of each session
  tomb,    \* sessions in group_tombstones
  \* the broker's memory
  live,    \* GroupState's #memberships of each session
  conn,    \* ClientSession: "off" none, "on" with a socket, "grace" without
  epoch,   \* number of the broker instance
  issued,  \* last credential
  \* the extensions
  link,    \* "down", "hello" until the first snapshot, "up"
  token,   \* holds clientId and resumeToken of instance inst
  inst,    \* brokerInstanceId, 0 for none
  saved,   \* savedMembership: membershipCredential and ownerCredential, 0 for none
  want,    \* desiredMembership: its membershipCredential, 0 without one
  here,    \* currentGroup and currentIsOwner: "out", "member", "owner"
  \* the connections
  up, down,
  astray,  \* history: sessions that left, whose credential was lost on its way, whose row
           \* the owner deleted or whose name was removed with another session's row
  commands, faults

database == <<group, row, tomb>>
memory == <<live, conn, epoch, issued>>
extension == <<link, token, inst, saved, want, here>>
bounds == <<commands, faults>>
vars == <<database, memory, extension, up, down, astray, bounds>>

\* Every session is connected and was in no group yet.
Init ==
  /\ group = Unborn /\ row = [s \in Sessions |-> NoRow] /\ tomb = {}
  /\ live = [s \in Sessions |-> Out] /\ conn = [s \in Sessions |-> "on"]
  /\ epoch = 1 /\ issued = 0
  /\ link = [s \in Sessions |-> "up"] /\ token = [s \in Sessions |-> TRUE]
  /\ inst = [s \in Sessions |-> 1]
  /\ saved = [s \in Sessions |-> NothingSaved]
  /\ want = [s \in Sessions |-> NotWanted]
  /\ here = [s \in Sessions |-> "out"]
  /\ up = [s \in Sessions |-> <<>>] /\ down = [s \in Sessions |-> <<>>]
  /\ astray = {} /\ commands = 0 /\ faults = 0

Fault == faults < MaxFaults /\ faults' = faults + 1 /\ commands + faults' <= MaxCommands

------------------------------------------------------------------------------
(* What the broker tells *)

\* sendSnapshot, when members l, rows r and group g are in force.  Its member list
\* is built from the rows; the session finds itself when a row has its live name.
Snapshot(s, g, r, l) ==
  [kind |-> "snapshot", in |-> l[s].in, owner |-> l[s].in /\ g.owner = s,
   listed |-> l[s].in /\ \E t \in Sessions : r[t].status # "none" /\ r[t].name = l[s].name]

\* A member hears the same snapshot twice in a row as once.
Told(q, m) ==
  IF m.kind = "snapshot" /\ m.in /\ q # <<>> /\ q[Len(q)] = m THEN q ELSE Append(q, m)

\* What is written to session s will get there unless the connection breaks.
Reached(s) == conn[s] = "on" /\ link[s] # "down"

\* The channels after session s was told ms
Telling(d, s, ms) ==
  IF ~Reached(s) THEN d
  ELSE [d EXCEPT ![s] = CASE Len(ms) = 1 -> Told(@, ms[1])
                          [] OTHER -> Told(Told(@, ms[1]), ms[2])]

\* The extension would be the same after snapshot m.
Knows(s, m) ==
  /\ link[s] = "up" /\ m.listed /\ want[s] = saved[s].cred
  /\ here[s] = IF m.owner THEN "owner" ELSE "member"

\* sendSnapshotsForGroup: the channels after every member online had a snapshot that
\* tells it something
TellingGroup(d, g, r, l) ==
  [s \in Sessions |->
     LET m == Snapshot(s, g, r, l) IN
     IF l[s].in /\ Reached(s) /\ ~(d[s] = <<>> /\ Knows(s, m)) THEN Told(d[s], m) ELSE d[s]]

Room(d) == \A s \in Sessions : Len(d[s]) <= MaxOnWay

------------------------------------------------------------------------------
(* Sessions and connections *)

\* broker.probe, client.hello and registerClient.  A session that is not resumed is
\* refused: while the broker still has the old connection (session_in_use) it just
\* tries again; with a token of a forgotten session it drops the token first.
Connect(s) ==
  /\ link[s] = "down"
  /\ LET known == token[s] /\ inst[s] = epoch IN
     \/ /\ conn[s] = "off" /\ known
        /\ token' = [token EXCEPT ![s] = FALSE]
        /\ UNCHANGED <<conn, link, up, down>>
     \/ /\ conn[s] = "off" \/ known
        /\ conn[s] = "off" => ~known
        /\ conn' = [conn EXCEPT ![s] = "on"]
        /\ link' = [link EXCEPT ![s] = "hello"]
        /\ token' = [token EXCEPT ![s] = known]
        /\ up' = [up EXCEPT ![s] = <<>>]
        /\ down' = [down EXCEPT ![s] = <<Snapshot(s, group, row, live)>>]
  /\ UNCHANGED <<database, live, epoch, issued, inst, saved, want, here, astray, bounds>>

WelcomeOnWay(s) == \E i \in 1..Len(down[s]) : down[s][i].kind = "welcome"

\* The connection of session s breaks; the broker may still read what was sent.
Cut(s) ==
  /\ Fault /\ link[s] # "down"
  /\ link' = [link EXCEPT ![s] = "down"] /\ down' = [down EXCEPT ![s] = <<>>]
  /\ astray' = IF WelcomeOnWay(s) THEN astray \cup {s} ELSE astray
  /\ UNCHANGED <<database, memory, token, inst, saved, want, here, up, commands>>

\* handleUnexpectedDisconnect
Disconnected(s) ==
  /\ conn[s] = "on" /\ link[s] = "down"
  /\ conn' = [conn EXCEPT ![s] = "grace"] /\ up' = [up EXCEPT ![s] = <<>>]
  /\ UNCHANGED <<database, live, epoch, issued, extension, down, astray, bounds>>

\* The disconnectTimer of handleUnexpectedDisconnect
GraceEnds(s) ==
  /\ conn[s] = "grace"
  /\ conn' = [conn EXCEPT ![s] = "off"] /\ live' = [live EXCEPT ![s] = Out]
  /\ UNCHANGED <<database, epoch, issued, extension, up, down, astray, bounds>>

\* The broker stops and starts again; GroupState starts from the groups alone.
BrokerRestart ==
  /\ Fault /\ epoch' = epoch + 1
  /\ live' = [s \in Sessions |-> Out] /\ conn' = [s \in Sessions |-> "off"]
  /\ link' = [s \in Sessions |-> "down"]
  /\ up' = [s \in Sessions |-> <<>>] /\ down' = [s \in Sessions |-> <<>>]
  /\ astray' = astray \cup {s \in Sessions : WelcomeOnWay(s)}
  /\ UNCHANGED <<database, issued, token, inst, saved, want, here, commands>>

\* session_start: desiredMembership from the savedMembership of the branch
Started(m) == IF m.cred = 0 THEN NotWanted ELSE m.cred

\* Pi of session s ends and starts again, with or without session_shutdown, whose
\* client.goodbye follows what was sent before.
Reopen(s) ==
  /\ Fault
  /\ \/ UNCHANGED up
     \/ /\ link[s] = "up" /\ Len(up[s]) < MaxOnWay
        /\ up' = [up EXCEPT ![s] = Append(@, [op |-> "goodbye"])]
  /\ link' = [link EXCEPT ![s] = "down"] /\ token' = [token EXCEPT ![s] = FALSE]
  /\ inst' = [inst EXCEPT ![s] = 0] /\ here' = [here EXCEPT ![s] = "out"]
  /\ want' = [want EXCEPT ![s] = Started(saved[s])]
  /\ down' = [down EXCEPT ![s] = <<>>]
  /\ astray' = IF WelcomeOnWay(s) THEN astray \cup {s} ELSE astray
  /\ UNCHANGED <<database, memory, saved, commands>>

------------------------------------------------------------------------------
(* What the extension sends *)

CanSend(s) == link[s] = "up" /\ Len(up[s]) < MaxOnWay
Sent(s, m) == up' = [up EXCEPT ![s] = Append(@, m)]

\* pendingCreate and the action createGroup; a group for other computers starts with an
\* invite code, which group.visibility.update takes away.
SendCreate(s) ==
  /\ CanSend(s) /\ s \in Founders /\ group.phase = "unborn" /\ here[s] = "out"
  /\ \E n \in NameOf[s], near \in BOOLEAN :
       Sent(s, [op |-> "create", name |-> n, near |-> near, code |-> near])
  /\ want' = [want EXCEPT ![s] = 0]
  /\ UNCHANGED <<database, memory, link, token, inst, saved, here, down, astray, bounds>>

\* The action joinGroup, with the invite code of the day or without
SendJoin(s) ==
  /\ CanSend(s) /\ up[s] = <<>> /\ down[s] = <<>> /\ here[s] = "out" /\ group.phase # "unborn"
  /\ want' = [want EXCEPT ![s] = saved[s].cred]
  /\ IF saved[s].cred # 0 THEN Sent(s, [op |-> "return", cred |-> saved[s].cred])
     ELSE \E n \in NameOf[s], code \in BOOLEAN : Sent(s, [op |-> "enroll", name |-> n, code |-> code])
  /\ UNCHANGED <<database, memory, link, token, inst, saved, here, down, astray, bounds>>

\* The action leaveGroup; the saved membership is dropped before the broker decides.
SendLeave(s) ==
  /\ CanSend(s) /\ here[s] = "member"
  /\ Sent(s, [op |-> "leave"])
  /\ saved' = [saved EXCEPT ![s] = NothingSaved] /\ want' = [want EXCEPT ![s] = NotWanted]
  /\ astray' = astray \cup {s}
  /\ UNCHANGED <<database, memory, link, token, inst, here, down, bounds>>

\* A row that the owner's panel shows: a removed one hides behind a live member with
\* its name.
Shown(t) ==
  /\ row[t].status # "none"
  /\ row[t].status = "removed" =>
       \A u \in Sessions : ~(live[u].in /\ row[u].status = "active" /\ row[u].name = row[t].name)

\* recoverOwner, updateGroupVisibility, removeMember, allowMember and deleteGroup
SendCommand(s) ==
  /\ CanSend(s) /\ commands' = commands + 1 /\ commands' + faults <= MaxCommands
  /\ \/ /\ here[s] = "member" /\ s \in Local /\ saved[s].cred # 0
        /\ Sent(s, [op |-> "recover", cred |-> saved[s].cred])
     \/ /\ here[s] = "owner" /\ saved[s].key # 0
        /\ \/ \E near \in BOOLEAN : Sent(s, [op |-> "near", near |-> near, key |-> saved[s].key])
           \/ \E t \in Sessions \ {s} : Shown(t) /\
                Sent(s, [op |-> IF row[t].status = "removed" THEN "allow" ELSE "remove",
                         who |-> t, key |-> saved[s].key])
           \/ Sent(s, [op |-> "delete", key |-> saved[s].key])
  /\ UNCHANGED <<database, memory, extension, down, astray, faults>>

------------------------------------------------------------------------------
(* What the broker does with it *)

Reads(s, op) == conn[s] = "on" /\ up[s] # <<>> /\ Head(up[s]).op = op
Read(s) == up' = [up EXCEPT ![s] = Tail(@)]
Told1(d) == down' = d /\ Room(d)

\* An error that changes nothing in the extension
Refuse(s) == Read(s) /\ UNCHANGED <<database, memory, extension, down, astray, bounds>>

\* An error that makes the extension drop its saved membership: membership_invalid,
\* member_removed or group_deleted
RefuseForGood(s) ==
  /\ Read(s) /\ Told1(Telling(down, s, <<[kind |-> "forget"]>>))
  /\ UNCHANGED <<memory, extension, astray, bounds>>

\* The credential that session s is told now may be lost already.
LostOnWay(s) == IF Reached(s) THEN astray ELSE astray \cup {s}

\* The row of session s if it holds credential c: membershipByCredential
HasCredential(s, c) == row[s].status # "none" /\ row[s].cred = c

\* handleGroupCreate
Create(s) ==
  LET m == Head(up[s])
      g == [phase |-> "open", owner |-> s, key |-> issued + 2, near |-> m.near, code |-> m.code]
      r == [row EXCEPT ![s] = [status |-> "active", name |-> m.name, cred |-> issued + 1]]
      l == [live EXCEPT ![s] = Inside(m.name, TRUE)]
  IN
  /\ Reads(s, "create")
  /\ \/ (live[s].in \/ group.phase # "unborn") /\ Refuse(s)
     \/ /\ ~live[s].in /\ group.phase = "unborn" /\ issued + 2 <= MaxIssued
        /\ group' = g /\ row' = r /\ live' = l /\ issued' = issued + 2
        /\ Told1(Telling(down, s, <<[kind |-> "welcome", cred |-> issued + 1, key |-> issued + 2],
                                    Snapshot(s, g, r, l)>>))
        /\ Read(s) /\ astray' = LostOnWay(s)
        /\ UNCHANGED <<tomb, conn, epoch, extension, bounds>>

\* consumeGroupTombstone
TombTaken(s) == s \in tomb /\ tomb' = tomb \ {s} /\ UNCHANGED <<group, row>>

\* The group is not in the database: its tombstone is told once.
JoinGone(s) ==
  \/ TombTaken(s) /\ RefuseForGood(s)
  \/ s \notin tomb /\ Refuse(s)

\* rejectInvite closes the connection; nothing else was on its way to the session.
RejectInvite(s) ==
  /\ conn' = [conn EXCEPT ![s] = "grace"] /\ link' = [link EXCEPT ![s] = "down"]
  /\ up' = [up EXCEPT ![s] = <<>>] /\ down' = [down EXCEPT ![s] = <<>>]
  /\ UNCHANGED <<database, live, epoch, issued, token, inst, saved, want, here, astray, bounds>>

\* Mutant: a name is free when no live member has it.
FreeOfLive(n) == \A t \in Sessions : ~(live[t].in /\ live[t].name = n)

\* isMemberNameAvailable
NameFree(n) == \A t \in Sessions : ~(row[t].status = "active" /\ row[t].name = n)

\* Mutant: a row is replaced.
RowReplaced(s) == TRUE

\* The primary key of group_memberships: insertMembership replaces no row.
Insertable(s) == row[s].status = "none"

\* joinGroup of GroupState
Joinable(n) == \A t \in Sessions : ~(live[t].in /\ live[t].name = n)

\* handleGroupJoin without a credential
Enroll(s) ==
  LET m == Head(up[s])
      invited == (s \in Local /\ ~m.code) \/ (group.near /\ (group.code => m.code))
      free == NameFree(m.name) /\ Insertable(s)
      r == [row EXCEPT ![s] = [status |-> "active", name |-> m.name, cred |-> issued + 1]]
      l == [live EXCEPT ![s] = Inside(m.name, FALSE)]
  IN
  /\ Reads(s, "enroll")
  /\ \/ ~live[s].in /\ group.phase = "gone" /\ JoinGone(s)
     \/ ~live[s].in /\ group.phase = "open" /\ ~invited /\ RejectInvite(s)
     \/ (live[s].in \/ (group.phase = "open" /\ invited /\ ~free)) /\ Refuse(s)
     \/ /\ ~live[s].in /\ group.phase = "open" /\ invited /\ free /\ issued < MaxIssued
        /\ row' = r /\ issued' = issued + 1 /\ Read(s)
        /\ IF Joinable(m.name)
           THEN /\ live' = l /\ astray' = LostOnWay(s)
                /\ Told1(Telling(down, s, <<[kind |-> "welcome", cred |-> issued + 1, key |-> 0],
                                            Snapshot(s, group, r, l)>>))
           ELSE astray' = astray \cup {s} /\ UNCHANGED <<live, down>>
        /\ UNCHANGED <<group, tomb, conn, epoch, extension, bounds>>

MayReturn(s, c) == HasCredential(s, c) /\ row[s].status = "active"

\* handleGroupJoin with a credential
Return(s) ==
  LET m == Head(up[s])
      l == [live EXCEPT ![s] = Inside(row[s].name, group.owner = s)]
      near == s \in Local \/ group.near
  IN
  /\ Reads(s, "return")
  /\ \/ ~live[s].in /\ group.phase = "gone" /\ JoinGone(s)
     \/ ~live[s].in /\ group.phase = "open" /\ near /\ ~MayReturn(s, m.cred)
        /\ RefuseForGood(s) /\ UNCHANGED database
     \/ (live[s].in \/ (group.phase = "open" /\ (near => MayReturn(s, m.cred) /\ ~Joinable(row[s].name)))) /\ Refuse(s)
     \/ /\ ~live[s].in /\ group.phase = "open" /\ near
        /\ MayReturn(s, m.cred) /\ Joinable(row[s].name)
        /\ live' = l /\ Read(s)
        /\ Told1(Telling(down, s, <<Snapshot(s, group, row, l)>>))
        /\ UNCHANGED <<database, conn, epoch, issued, extension, astray, bounds>>

MayLeave(s) == live[s].in /\ group.owner # s

\* handleGroupLeave and leaveClientGroup, which deletes the row
Leave(s) ==
  LET r == [row EXCEPT ![s] = NoRow]
      l == [live EXCEPT ![s] = Out]
  IN
  /\ Reads(s, "leave")
  /\ \/ ~MayLeave(s) /\ Refuse(s)
     \/ /\ MayLeave(s) /\ row' = r /\ live' = l /\ Read(s)
        /\ Told1(Telling(down, s, <<Snapshot(s, group, r, l)>>))
        /\ UNCHANGED <<group, tomb, conn, epoch, issued, extension, astray, bounds>>

\* client.goodbye: removeClientSession and leaveClientGroup, which keeps the row
Goodbye(s) ==
  /\ Reads(s, "goodbye")
  /\ conn' = [conn EXCEPT ![s] = "off"] /\ live' = [live EXCEPT ![s] = Out]
  /\ up' = [up EXCEPT ![s] = <<>>]
  /\ UNCHANGED <<database, epoch, issued, extension, down, astray, bounds>>

\* requireOwner
IsOwner(s, k) == group.phase = "open" /\ group.owner = s /\ group.key = k

\* disconnectRemoteGroupMembers reaches those online.
Expelled == {t \in Sessions \ Local : live[t].in /\ conn[t] = "on"}

\* group.visibility.update
SetNearby(s) ==
  LET m == Head(up[s])
      g == [group EXCEPT !.near = m.near, !.code = FALSE]
      cut == IF m.near THEN {} ELSE Expelled
      l == [t \in Sessions |-> IF t \in cut THEN Out ELSE live[t]]
      d == [t \in Sessions |-> IF t \in cut /\ Reached(t) THEN Told(down[t], Snapshot(t, group, row, l))
                               ELSE down[t]]
  IN
  /\ Reads(s, "near")
  /\ \/ ~IsOwner(s, m.key) /\ Refuse(s)
     \/ /\ IsOwner(s, m.key) /\ group' = g /\ live' = l /\ Read(s)
        /\ Told1(TellingGroup(d, g, row, l))
        /\ UNCHANGED <<row, tomb, conn, epoch, issued, extension, astray, bounds>>

\* clientIdForSessionMember and removeIfJoined: the live member with the name of s
LiveAfter(s) ==
  [t \in Sessions |-> IF live[t].in /\ live[t].name = row[s].name THEN Out ELSE live[t]]

\* group.member.remove
Remove(s) ==
  LET m == Head(up[s])
      r == [row EXCEPT ![m.who].status = "removed"]
      l == LiveAfter(m.who)
      d == [t \in Sessions |->
              IF live[t].in /\ ~l[t].in /\ Reached(t)
              THEN Told(Append(down[t], [kind |-> "forget"]), Snapshot(t, group, r, l))
              ELSE down[t]]
  IN
  /\ Reads(s, "remove")
  /\ LET may == IsOwner(s, m.key) /\ m.who # group.owner /\ row[m.who].status # "none" IN
     \/ ~may /\ Refuse(s)
     \/ /\ may /\ row' = r /\ live' = l /\ Read(s)
        /\ Told1(TellingGroup(d, group, r, l))
        /\ astray' = astray \cup {t \in Sessions \ {m.who} : live[t].in /\ ~l[t].in}
        /\ UNCHANGED <<group, tomb, conn, epoch, issued, extension, bounds>>

\* group.member.allow deletes the row, whatever its status.
Allow(s) ==
  LET m == Head(up[s])
      r == [row EXCEPT ![m.who] = NoRow]
  IN
  /\ Reads(s, "allow")
  /\ \/ ~IsOwner(s, m.key) /\ Refuse(s)
     \/ /\ IsOwner(s, m.key) /\ row' = r /\ Read(s)
        /\ Told1(TellingGroup(down, group, r, live))
        /\ astray' = IF live[m.who].in THEN astray \cup {m.who} ELSE astray
        /\ UNCHANGED <<group, tomb, memory, extension, bounds>>

\* group.delete
Delete(s) ==
  LET m == Head(up[s])
      r == [t \in Sessions |-> NoRow]
      l == [t \in Sessions |-> Out]
      d == [t \in Sessions |-> IF live[t].in /\ Reached(t)
                               THEN Told(down[t], Snapshot(t, Gone, r, l)) ELSE down[t]]
  IN
  /\ Reads(s, "delete")
  /\ \/ ~IsOwner(s, m.key) /\ Refuse(s)
     \/ /\ IsOwner(s, m.key) /\ Read(s)
        /\ group' = Gone /\ row' = r /\ live' = l
        /\ tomb' = tomb \cup {t \in Sessions : row[t].status # "none"}
        /\ Told1(d)
        /\ UNCHANGED <<conn, epoch, issued, extension, astray, bounds>>

MayRecover(s, c) == HasCredential(s, c) /\ row[s].status = "active" /\ s \in Local

\* Mutant: the members in memory keep their flags.
FlagsKept(s) == live

\* setOwnerSession
OwnerFlags(s) == [t \in Sessions |-> [live[t] EXCEPT !.owner = live[t].in /\ t = s]]

\* group.owner.recover: a member on the broker's computer becomes the owner.
Recover(s) ==
  LET m == Head(up[s])
      g == [group EXCEPT !.owner = s, !.key = issued + 1]
      l == OwnerFlags(s)
      d == Telling(down, s, <<[kind |-> "ownerkey", key |-> issued + 1]>>)
  IN
  /\ Reads(s, "recover")
  /\ \/ ~MayRecover(s, m.cred) /\ RefuseForGood(s) /\ UNCHANGED database
     \/ /\ MayRecover(s, m.cred) /\ issued < MaxIssued
        /\ group' = g /\ live' = l /\ issued' = issued + 1 /\ Read(s)
        /\ Told1(TellingGroup(d, g, row, l))
        /\ UNCHANGED <<row, tomb, conn, epoch, extension, astray, bounds>>

------------------------------------------------------------------------------
(* What the extension does with the answers: handleBrokerMessage *)

Hears(s, kind) == link[s] # "down" /\ down[s] # <<>> /\ Head(down[s]).kind = kind
Heard(s) == down' = [down EXCEPT ![s] = Tail(@)]

\* Mutant: a snapshot without a group drops the saved membership.
SavedAfterAll(s, in) == IF in THEN saved[s] ELSE NothingSaved

\* What handleSnapshot leaves of the saved membership
SavedAfter(s, in) == saved[s]

\* desiredMembership after a snapshot: a member's own entry with its credential, or
\* nothing when the group was lost while the broker stayed.
WantAfter(s, m, restarted) ==
  CASE m.in /\ m.listed -> saved[s].cred
    [] ~m.in /\ here[s] # "out" /\ ~restarted -> NotWanted
    [] OTHER -> want[s]

\* client.welcome and handleSnapshot; a session outside its group asks to return.
HearSnapshot(s) ==
  LET m == Head(down[s])
      wanted == WantAfter(s, m, inst[s] \notin {0, epoch})
      asks == ~m.in /\ wanted > 0
  IN
  /\ Hears(s, "snapshot") /\ Heard(s)
  /\ link' = [link EXCEPT ![s] = "up"] /\ token' = [token EXCEPT ![s] = TRUE]
  /\ inst' = [inst EXCEPT ![s] = epoch]
  /\ here' = [here EXCEPT ![s] = CASE ~m.in -> "out" [] m.owner -> "owner" [] OTHER -> "member"]
  /\ want' = [want EXCEPT ![s] = wanted]
  /\ saved' = [saved EXCEPT ![s] = SavedAfter(s, m.in)]
  /\ IF asks THEN Len(up[s]) < MaxOnWay /\ Sent(s, [op |-> "return", cred |-> wanted])
     ELSE UNCHANGED up
  /\ UNCHANGED <<database, memory, astray, bounds>>

\* The credential at the head of what session s is told opens its row, and nothing
\* behind it takes it back.
Lasting(s) ==
  /\ HasCredential(s, Head(down[s]).cred)
  /\ \A i \in 2..Len(down[s]) : down[s][i].kind # "forget"

\* membership.welcome: saveMembership, which needs a desiredMembership
HearWelcome(s) ==
  LET m == Head(down[s]) IN
  /\ Hears(s, "welcome") /\ Heard(s)
  /\ IF want[s] = NotWanted
     THEN astray' = astray \cup {s} /\ UNCHANGED <<saved, want>>
     ELSE /\ saved' = [saved EXCEPT ![s] = [cred |-> m.cred, key |-> m.key]]
          /\ want' = [want EXCEPT ![s] = m.cred]
          /\ astray' = IF Lasting(s) THEN astray \ {s} ELSE astray
  /\ UNCHANGED <<database, memory, link, token, inst, here, up, bounds>>

\* group.owner.welcome
HearOwnerKey(s) ==
  /\ Hears(s, "ownerkey") /\ Heard(s)
  /\ saved' = IF saved[s].cred = 0 THEN saved
              ELSE [saved EXCEPT ![s].key = Head(down[s]).key]
  /\ UNCHANGED <<database, memory, link, token, inst, want, here, up, astray, bounds>>

\* clearSavedMembership
HearForget(s) ==
  /\ Hears(s, "forget") /\ Heard(s)
  /\ saved' = [saved EXCEPT ![s] = NothingSaved] /\ want' = [want EXCEPT ![s] = NotWanted]
  /\ UNCHANGED <<database, memory, link, token, inst, here, up, astray, bounds>>

------------------------------------------------------------------------------
Next ==
  \/ BrokerRestart
  \/ \E s \in Sessions :
       \/ Connect(s) \/ Cut(s) \/ Disconnected(s) \/ GraceEnds(s) \/ Reopen(s)
       \/ SendCreate(s) \/ SendJoin(s) \/ SendLeave(s) \/ SendCommand(s)
       \/ Create(s) \/ Enroll(s) \/ Return(s) \/ Leave(s) \/ Goodbye(s)
       \/ SetNearby(s) \/ Remove(s) \/ Allow(s) \/ Delete(s) \/ Recover(s)
       \/ HearSnapshot(s) \/ HearWelcome(s) \/ HearOwnerKey(s) \/ HearForget(s)

Spec == Init /\ [][Next]_vars

------------------------------------------------------------------------------
(* Properties *)

\* Every variable holds values of its kind.
TypeOK ==
  /\ group \in [phase : {"unborn", "open", "gone"}, owner : Sessions \cup {Nobody},
                key : 0..MaxIssued, near : BOOLEAN, code : BOOLEAN]
  /\ row \in [Sessions -> [status : Statuses, name : Names \cup {NoName}, cred : 0..MaxIssued]]
  /\ live \in [Sessions -> [in : BOOLEAN, name : Names \cup {NoName}, owner : BOOLEAN]]
  /\ conn \in [Sessions -> {"off", "on", "grace"}] /\ tomb \subseteq Sessions
  /\ epoch \in 1..MaxFaults + 1 /\ issued \in 0..MaxIssued
  /\ link \in [Sessions -> {"down", "hello", "up"}] /\ token \in [Sessions -> BOOLEAN]
  /\ inst \in [Sessions -> 0..epoch] /\ astray \subseteq Sessions
  /\ saved \in [Sessions -> [cred : 0..MaxIssued, key : 0..MaxIssued]]
  /\ want \in [Sessions -> NotWanted..MaxIssued]
  /\ here \in [Sessions -> {"out", "member", "owner"}]
  /\ \A s \in Sessions :
       /\ Len(up[s]) <= MaxOnWay /\ Len(down[s]) <= MaxOnWay
       /\ \A i \in 1..Len(down[s]) :
            LET m == down[s][i] IN m.kind = "snapshot" /\ (m.owner \/ m.listed) => m.in
  /\ commands \in 0..MaxCommands /\ faults \in 0..MaxFaults

\* Memory and database agree: the names of the rows in force and of the members
\* are each taken once, a session that is blocked or that the broker forgot is no
\* member, and a member has its own row under its own name, unless the owner
\* unblocked it twice (group.member.allow deletes the row of a member,
\* server.ts:1072).
SeatsAgree ==
  \A s \in Sessions :
    /\ row[s].status = "removed" \/ conn[s] = "off" => ~live[s].in
    /\ live[s].in /\ row[s].status # "none" => live[s].name = row[s].name
    /\ live[s].in => row[s].status = "active" \/ s \in astray
    /\ \A t \in Sessions \ {s} :
         /\ row[s].status = "active" => row[t].status # "active" \/ row[s].name # row[t].name
         /\ live[s].in => ~live[t].in \/ live[s].name # live[t].name

\* A session that was removed stays so until the owner unblocks it or dissolves the
\* group, whoever joins, leaves, takes the group over or restarts meanwhile.
BlocksHold ==
  [][\A s \in Sessions : row[s].status = "removed" /\ row'[s].status # "removed" =>
       \E o \in Sessions : group.owner = o /\ (Allow(o) \/ Delete(o))]_vars

\* A group in the database has one owner, whose membership is in force, and memory
\* marks exactly that session as the owner.
OwnerKeepsSeat ==
  group.phase = "open" =>
    /\ group.owner # Nobody /\ row[group.owner].status = "active"
    /\ \A s \in Sessions : live[s].owner <=> live[s].in /\ group.owner = s

\* Nothing on its way between session s and the broker
Settled(s) == link[s] = "up" /\ conn[s] = "on" /\ up[s] = <<>> /\ down[s] = <<>>

\* A saved credential opens the row in force, and a session whose membership is in
\* force has one, unless it went astray: it left (the extension drops the credential in
\* leaveGroup, index.ts:1849, before the broker answers), or the credential was lost
\* on its way, or a command of the owner took its row or the seat with its name.
SavedOpens ==
  \A s \in Sessions : row[s].status = "active" /\ Settled(s) =>
    saved[s].cred = row[s].cred \/ s \in astray

=============================================================================
