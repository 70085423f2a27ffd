-------------------------- MODULE AgentChains_proofs --------------------------
(***************************************************************************)
(* Theorems about AgentChains, for any Agents, limits and bounds.          *)
(***************************************************************************)
EXTENDS AgentChains, TLAPS

------------------------------------------------------------------------------
(* Paths *)

\* A path is a nonempty sequence of Agents.
LEMMA PathIsSequence == ASSUME NEW p \in Paths
                        PROVE  /\ p \in Seq(Agents)
                               /\ Len(p) \in Nat \ {0} /\ Len(p) <= Depth
                               /\ Target(p) \in Agents
  BY ConstantsAssumption DEF Paths, Target

\* Extending a path by an Agent and taking the parent are inverse.
LEMMA ParentOfChild == ASSUME NEW p \in Paths, NEW a
                       PROVE  Parent(Append(p, a)) = p
  BY PathIsSequence DEF Parent

LEMMA ChildOfParent == ASSUME NEW p \in Paths, NEW q \in Paths, Parent(p) = q
                       PROVE  p = Append(q, Target(p))
<1>1. /\ p \in Seq(Agents) /\ q \in Seq(Agents)
      /\ Len(p) \in Nat \ {0} /\ Len(q) \in Nat \ {0}
  BY PathIsSequence
<1>2. Len(q) = Len(p) - 1 /\ \A i \in 1..Len(q) : q[i] = p[i]
  BY <1>1 DEF Parent
<1>3. /\ Append(q, Target(p)) \in Seq(Agents)
      /\ Len(Append(q, Target(p))) = Len(p)
  BY <1>1, <1>2, PathIsSequence
<1>4. \A i \in 1..Len(p) : Append(q, Target(p))[i] = p[i]
  BY <1>1, <1>2 DEF Target
<1>. QED  BY <1>1, <1>3, <1>4

LEMMA ChildrenArePaths == ASSUME NEW p \in Paths \cup {NoPath}, NEW T \in SUBSET Agents
                          PROVE  Children(p, T) \in SUBSET Paths
  BY DEF Children

------------------------------------------------------------------------------
(* Types *)

RowType == /\ asked \in BOOLEAN
           /\ status \in [Paths -> Status]
           /\ round \in [Paths -> Nat] /\ limit \in [Paths -> Nat]
           /\ hasTask \in [Paths -> BOOLEAN]
           /\ route \in [Paths -> RouteStatus]
           /\ routeRequest \in [Paths -> Paths \cup {NoPath}]
           /\ held \in SUBSET Paths
PauseType == paused \in Pauses
SessionType == /\ joined \in [Agents -> BOOLEAN] /\ client \in [Agents -> Nat]
               /\ connected \in BOOLEAN /\ panel \in Paths \cup {NoPath}
               /\ decisions \in Seq({"continue", "end"})
               /\ continues \in Nat /\ faults \in Nat
News == [type : {"paused", "resolved"}, at : Paths]
NewsType == news \in Seq(News)

LEMMA TypeParts == TypeOK <=> RowType /\ PauseType /\ SessionType /\ NewsType
  BY DEF TypeOK, RowType, PauseType, SessionType, NewsType, News

\* A paused chain belongs to a path.
PauseAtPath == paused # NoPause => paused.at \in Paths

\* New rows have the types of rows.
LEMMA InsertType ==
  ASSUME NEW st \in [Paths -> Status], NEW S \in SUBSET Paths, NEW T \in SUBSET Agents,
         NEW out \in [T -> Status], \A p \in S : Target(p) \in T,
         NEW n \in Nat, NEW max \in Nat, NEW task \in BOOLEAN,
         RowType, Insert(st, S, out, n, max, task)
  PROVE  /\ status' \in [Paths -> Status]
         /\ round' \in [Paths -> Nat] /\ limit' \in [Paths -> Nat]
         /\ hasTask' \in [Paths -> BOOLEAN]
  BY DEF RowType, Insert

LEMMA TargetsOfChildren ==
  ASSUME NEW p \in Paths \cup {NoPath}, NEW T \in SUBSET Agents
  PROVE  \A q \in Children(p, T) : Target(q) \in T
<1>1. CASE p = NoPath
  BY <1>1 DEF Children, Target, NoPath
<1>2. CASE p \in Paths
  BY <1>2, PathIsSequence DEF Children, Target
<1>. QED  BY <1>1, <1>2

LEMMA SetRouteType ==
  ASSUME NEW r \in [Paths -> RouteStatus], NEW p \in Paths, NEW S \in SUBSET Paths,
         NEW unknown \in BOOLEAN, NEW out, RowType, SetRoute(r, p, S, unknown, out)
  PROVE  /\ route' \in [Paths -> RouteStatus]
         /\ routeRequest' \in [Paths -> Paths \cup {NoPath}]
<1>1. CASE ~unknown /\ \E q \in S : S = {q}
  <2>1. PICK c \in S : S = {c}
    BY <1>1
  <2>2. /\ route' = [r EXCEPT ![p] = IF out[Target(c)] \in Active THEN "open" ELSE "failed"]
        /\ routeRequest' = [routeRequest EXCEPT ![p] = c]
    BY <1>1, <2>1 DEF SetRoute
  <2>. QED  BY <2>1, <2>2 DEF RowType, RouteStatus
<1>2. CASE ~(~unknown /\ \E q \in S : S = {q})
  BY <1>2 DEF SetRoute, RowType, RouteStatus
<1>. QED  BY <1>1, <1>2

LEMMA FailType ==
  ASSUME NEW S, RowType, FailRequests(S)
  PROVE  /\ status' \in [Paths -> Status]
         /\ route' \in [Paths -> RouteStatus]
         /\ held' \in SUBSET Paths
  BY DEF RowType, FailRequests, FailedRoutes, Status, RouteStatus

LEMMA TellType ==
  ASSUME NEW msg \in News, NewsType, Tell(msg)
  PROVE  NewsType'
  BY DEF NewsType, Tell

LEMMA CompletedType ==
  ASSUME NEW p \in Paths, RowType
  PROVE  /\ CompletedRows(p) \in [Paths -> Status]
         /\ CompletedRoutes(p) \in [Paths -> RouteStatus]
  BY DEF RowType, CompletedRows, CompletedRoutes, Status, RouteStatus

TypeInv == RowType /\ PauseType /\ SessionType /\ NewsType /\ PauseAtPath

LEMMA InitType == Init => TypeInv
<1>. SUFFICES ASSUME Init PROVE TypeInv
  OBVIOUS
<1>1. RowType
  BY DEF Init, RowType, Status, RouteStatus
<1>2. PauseType
  BY DEF Init, PauseType, Pauses, NoPause
<1>3. SessionType
  BY ConstantsAssumption DEF Init, SessionType
<1>4. NewsType
  BY DEF Init, NewsType
<1>5. PauseAtPath
  BY DEF Init, PauseAtPath
<1>. QED  BY <1>1, <1>2, <1>3, <1>4, <1>5 DEF TypeInv

\* Actions that leave the rows and the pause alone.
LEMMA SessionsKeepRows ==
  ASSUME RowType, PauseType, PauseAtPath,
         UNCHANGED <<rows, routes, paused, held>>
  PROVE  RowType' /\ PauseType' /\ PauseAtPath'
  BY DEF RowType, PauseType, PauseAtPath, rows, routes

\* Actions that only fail requests.
LEMMA FailKeepsTypes ==
  ASSUME NEW S, RowType, PauseType, PauseAtPath, FailRequests(S),
         UNCHANGED <<asked, round, limit, hasTask, routeRequest, paused>>
  PROVE  RowType' /\ PauseType' /\ PauseAtPath'
<1>1. RowType'
  BY FailType DEF RowType
<1>. QED  BY <1>1 DEF PauseType, PauseAtPath

LEMMA ChatSendType == ASSUME TypeInv, ChatSend PROVE TypeInv'
<1>. USE DEF TypeInv
<1>. DEFINE first == 1
<1>1. PICK T \in (SUBSET Agents) \ {{}}, task \in BOOLEAN :
        \E out \in [T -> Status] :
          /\ Insert(status, Children(NoPath, T), out, first, RoundLimit, task)
          /\ held' = held \cup Delivered(Children(NoPath, T), out)
  BY DEF ChatSend
<1>. DEFINE S == Children(NoPath, T)
<1>2. PICK out \in [T -> Status] :
        /\ Insert(status, S, out, first, RoundLimit, task)
        /\ held' = held \cup Delivered(S, out)
  BY <1>1
<1>3. S \in SUBSET Paths /\ \A q \in S : Target(q) \in T
  BY ChildrenArePaths, TargetsOfChildren
<1>3a. /\ first \in Nat /\ RoundLimit \in Nat
       /\ status \in [Paths -> Status]
  BY ConstantsAssumption DEF RowType
<1>. HIDE DEF S, first
<1>4. /\ status' \in [Paths -> Status]
      /\ round' \in [Paths -> Nat] /\ limit' \in [Paths -> Nat]
      /\ hasTask' \in [Paths -> BOOLEAN]
  BY <1>2, <1>3, <1>3a, InsertType
<1>5. held' \in SUBSET Paths
  BY <1>2, <1>3 DEF RowType, Delivered
<1>6. RowType'
  BY <1>4, <1>5 DEF RowType, ChatSend, routes
<1>7. PauseType' /\ PauseAtPath' /\ SessionType' /\ NewsType'
  BY DEF ChatSend, ui, PauseType, PauseAtPath, SessionType, NewsType
<1>. QED  BY <1>6, <1>7

LEMMA DecisionsOnRequestsType ==
  ASSUME TypeInv, NEW p \in Paths, Approve(p) \/ Reject(p) \/ ResultFailed(p)
  PROVE  TypeInv'
<1>. USE DEF TypeInv
<1>1. SessionType' /\ NewsType'
  BY DEF Approve, Reject, ResultFailed, ui, SessionType, NewsType
<1>2. CASE Approve(p)
  <2>1. RowType'
    BY <1>2 DEF Approve, RowType, Status, Active, RouteStatus
  <2>. QED  BY <1>1, <1>2, <2>1 DEF Approve, PauseType, PauseAtPath
<1>3. CASE Reject(p) \/ ResultFailed(p)
  BY <1>1, <1>3, FailKeepsTypes DEF Reject, ResultFailed
<1>. QED  BY <1>2, <1>3

LEMMA PauseAfterType ==
  ASSUME TypeInv, NEW p \in Paths, NEW T \in SUBSET Agents, NEW unknown \in BOOLEAN,
         NEW task \in BOOLEAN, PauseAfter(p, T, unknown, task), asked' = asked
  PROVE  RowType' /\ PauseType' /\ PauseAtPath' /\ NewsType'
<1>. USE DEF TypeInv
<1>1. held' \in SUBSET Paths
  BY DEF PauseAfter, RowType
<1>2. CASE paused = NoPause
  <2>1. status' \in [Paths -> Status] /\ route' \in [Paths -> RouteStatus]
    BY <1>2, CompletedType DEF PauseAfter, RouteStatus
  <2>2. PauseType' /\ PauseAtPath'
    BY <1>2, PathIsSequence DEF PauseAfter, PauseType, PauseAtPath, Pauses, RowType, SessionType
  <2>3. NewsType'
    BY <1>2, TellType DEF PauseAfter, News
  <2>. QED  BY <1>1, <2>1, <2>2, <2>3 DEF PauseAfter, RowType
<1>3. CASE paused # NoPause
  BY <1>1, <1>3 DEF PauseAfter, RowType, PauseType, PauseAtPath, NewsType
<1>. QED  BY <1>2, <1>3

LEMMA RouteAfterType ==
  ASSUME TypeInv, NEW p \in Paths, NEW T \in SUBSET Agents, NEW unknown \in BOOLEAN,
         NEW task \in BOOLEAN, RouteAfter(p, T, unknown, task), asked' = asked
  PROVE  RowType' /\ PauseType' /\ PauseAtPath' /\ NewsType'
<1>. USE DEF TypeInv
<1>. DEFINE S == Children(p, T)
            n == round[p] + 1
            st == CompletedRows(p)
            r == CompletedRoutes(p)
<1>1. PICK out \in [T -> Status] :
        /\ Insert(st, S, out, n, limit[p], task)
        /\ SetRoute(r, p, S, unknown, out)
        /\ held' = (held \ {p}) \cup Delivered(S, out)
  BY DEF RouteAfter
<1>2. S \in SUBSET Paths /\ \A q \in S : Target(q) \in T
  BY ChildrenArePaths, TargetsOfChildren
<1>3. n \in Nat /\ limit[p] \in Nat
  BY DEF RowType
<1>4. st \in [Paths -> Status] /\ r \in [Paths -> RouteStatus]
  BY CompletedType
<1>. HIDE DEF S, n, st, r
<1>5. /\ status' \in [Paths -> Status]
      /\ round' \in [Paths -> Nat] /\ limit' \in [Paths -> Nat]
      /\ hasTask' \in [Paths -> BOOLEAN]
  BY <1>1, <1>2, <1>3, <1>4, InsertType
<1>6. /\ route' \in [Paths -> RouteStatus]
      /\ routeRequest' \in [Paths -> Paths \cup {NoPath}]
  BY <1>1, <1>2, <1>4, SetRouteType
<1>7. held' \in SUBSET Paths
  BY <1>1, <1>2 DEF RowType, Delivered
<1>8. RowType'
  BY <1>5, <1>6, <1>7 DEF RowType
<1>. QED  BY <1>8 DEF RouteAfter, PauseType, PauseAtPath, NewsType

LEMMA ResultOkType ==
  ASSUME TypeInv, NEW p \in Paths, NEW T \in SUBSET Agents, NEW unknown \in BOOLEAN,
         NEW task \in BOOLEAN, ResultOk(p, T, unknown, task)
  PROVE  TypeInv'
<1>1. RowType' /\ PauseType' /\ PauseAtPath' /\ NewsType'
  BY PauseAfterType, RouteAfterType DEF ResultOk
<1>2. SessionType'
  BY DEF ResultOk, TypeInv, SessionType
<1>. QED  BY <1>1, <1>2 DEF TypeInv

LEMMA HandleEndType == ASSUME TypeInv, HandleEnd PROVE TypeInv'
<1>. USE DEF TypeInv
<1>1. SessionType'
  BY DEF HandleEnd, Decision, SessionType
<1>2. CASE MayDecide
  <2>1. paused.at \in Paths
    BY <1>2 DEF MayDecide, PauseAtPath
  <2>2. RowType'
    BY <1>2 DEF HandleEnd, RowType, RouteStatus, rows
  <2>3. PauseType' /\ PauseAtPath'
    <3>1. paused' = NoPause
      BY <1>2 DEF HandleEnd
    <3>. QED  BY <3>1 DEF PauseType, PauseAtPath, Pauses, NoPause
  <2>4. NewsType'
    BY <1>2, <2>1, TellType DEF HandleEnd, News
  <2>. QED  BY <1>1, <2>2, <2>3, <2>4
<1>3. CASE ~MayDecide
  BY <1>1, <1>3 DEF HandleEnd, RowType, PauseType, PauseAtPath, NewsType, rows
<1>. QED  BY <1>2, <1>3

LEMMA HandleContinueType == ASSUME TypeInv, HandleContinue PROVE TypeInv'
<1>. USE DEF TypeInv
<1>1. CASE MayDecide
  <2>. DEFINE p == paused.at
              T == paused.targets
              S == Children(p, T)
              n == round[p] + 1
              max == paused.limit + RoundLimit
              task == paused.hasTask
              unknown == paused.unknown
  <2>1. /\ p \in Paths /\ T \in SUBSET Agents /\ unknown \in BOOLEAN
        /\ task \in BOOLEAN /\ paused.limit \in Nat
    BY <1>1 DEF MayDecide, PauseAtPath, PauseType, Pauses
  <2>2. PICK out \in [T -> Status] :
          /\ Insert(status, S, out, n, max, task)
          /\ SetRoute(route, p, S, unknown, out)
          /\ held' = held \cup Delivered(S, out)
    BY <1>1 DEF HandleContinue
  <2>3. S \in SUBSET Paths /\ \A q \in S : Target(q) \in T
    BY <2>1, ChildrenArePaths, TargetsOfChildren
  <2>4. PauseType' /\ PauseAtPath'
    <3>1. paused' = NoPause
      BY <1>1 DEF HandleContinue, PauseAfterContinue
    <3>. QED  BY <3>1 DEF PauseType, PauseAtPath, Pauses, NoPause
  <2>4a. NewsType'
    <3>1. [type |-> "resolved", at |-> p] \in News
      BY <2>1 DEF News
    <3>2. Tell([type |-> "resolved", at |-> p])
      BY <1>1 DEF HandleContinue
    <3>. QED  BY <3>1, <3>2, TellType
  <2>5. /\ n \in Nat /\ max \in Nat
        /\ status \in [Paths -> Status] /\ route \in [Paths -> RouteStatus]
    BY <2>1, ConstantsAssumption DEF RowType
  <2>. HIDE DEF p, S, T, n, max, task, unknown
  <2>6. /\ status' \in [Paths -> Status]
        /\ round' \in [Paths -> Nat] /\ limit' \in [Paths -> Nat]
        /\ hasTask' \in [Paths -> BOOLEAN]
    BY <2>1, <2>2, <2>3, <2>5, InsertType
  <2>7. /\ route' \in [Paths -> RouteStatus]
        /\ routeRequest' \in [Paths -> Paths \cup {NoPath}]
    <3>1. PICK from \in Paths, named \in BOOLEAN, X \in SUBSET Paths :
            from = p /\ named = unknown /\ X = S
      BY <2>1, <2>3
    <3>2. SetRoute(route, from, X, named, out)
      BY <2>2, <3>1
    <3>3. RowType
      OBVIOUS
    <3>. QED  BY <2>5, <3>2, <3>3, SetRouteType
  <2>8. held' \in SUBSET Paths
    BY <2>2, <2>3 DEF RowType, Delivered
  <2>9. RowType'
    BY <2>6, <2>7, <2>8 DEF RowType, HandleContinue
  <2>10. SessionType'
    BY <1>1 DEF HandleContinue, Decision, SessionType
  <2>. QED  BY <2>4, <2>4a, <2>9, <2>10
<1>2. CASE ~MayDecide
  BY <1>2 DEF HandleContinue, Decision, RowType, PauseType, PauseAtPath, NewsType,
       SessionType, routes
<1>. QED  BY <1>1, <1>2

LEMMA SessionStepType ==
  ASSUME TypeInv,
         \/ \E kind \in {"continue", "end"} : Decide(kind)
         \/ ReceiveNews \/ Disconnect \/ Resume \/ \E a \in Agents : Join(a)
  PROVE  TypeInv'
<1>. USE DEF TypeInv
<1>1. RowType' /\ PauseType' /\ PauseAtPath'
  BY SessionsKeepRows DEF Decide, ReceiveNews, Disconnect, Resume, Join
<1>2. paused.at \in Paths \cup {NoPath}
  BY DEF PauseType, Pauses
<1>3. SessionType' /\ NewsType'
  <2>1. CASE \E kind \in {"continue", "end"} : Decide(kind)
    BY <2>1 DEF Decide, SessionType, NewsType
  <2>2. CASE ReceiveNews
    <3>1. Head(news) \in News /\ Tail(news) \in Seq(News)
      BY <2>2 DEF ReceiveNews, NewsType
    <3>. QED  BY <2>2, <3>1 DEF ReceiveNews, SessionType, NewsType, News
  <2>3. CASE Disconnect
    <3>1. faults' \in Nat
      BY <2>3 DEF Disconnect, Fault, SessionType
    <3>2. decisions' \in Seq({"continue", "end"}) /\ news' \in Seq(News)
      BY <2>3 DEF Disconnect
    <3>. QED  BY <2>3, <3>1, <3>2 DEF Disconnect, SessionType, NewsType
  <2>4. CASE Resume
    BY <1>2, <2>4 DEF Resume, SessionType, NewsType
  <2>5. CASE \E a \in Agents : Join(a)
    <3>1. PICK a \in Agents : Join(a)
      BY <2>5
    <3>2. /\ joined' \in [Agents -> BOOLEAN]
          /\ client' \in [Agents -> Nat]
          /\ continues' \in Nat
      BY <3>1 DEF Join, SessionType
    <3>3. faults' = faults /\ faults \in Nat
      BY <3>1 DEF Join, SessionType
    <3>4. connected' \in BOOLEAN /\ panel' \in Paths \cup {NoPath}
      BY <1>2, <3>1 DEF Join, ui, SessionType
    <3>5. decisions' \in Seq({"continue", "end"}) /\ news' \in Seq(News)
      <4>1. CASE a = Initiator
        BY <3>1, <4>1 DEF Join
      <4>2. CASE a # Initiator
        BY <3>1, <4>2 DEF Join, ui, SessionType, NewsType
      <4>. QED  BY <4>1, <4>2
    <3>. QED  BY <3>2, <3>3, <3>4, <3>5 DEF SessionType, NewsType
  <2>. QED  BY <2>1, <2>2, <2>3, <2>4, <2>5
<1>. QED  BY <1>1, <1>3

LEMMA LeaveOrRestartType ==
  ASSUME TypeInv, (\E a \in Agents : Leave(a)) \/ Restart
  PROVE  TypeInv'
<1>. USE DEF TypeInv
<1>1. RowType' /\ PauseType' /\ PauseAtPath'
  BY FailKeepsTypes DEF Leave, Restart
<1>2. SessionType' /\ NewsType'
  <2>1. CASE \E a \in Agents : Leave(a)
    <3>1. PICK a \in Agents : Leave(a)
      BY <2>1
    <3>2. /\ joined' \in [Agents -> BOOLEAN]
          /\ client' \in [Agents -> Nat]
          /\ continues' \in Nat
      BY <3>1 DEF Leave, SessionType
    <3>3. faults' \in Nat
      BY <3>1 DEF Leave, Fault, SessionType
    <3>4. /\ connected' \in BOOLEAN /\ panel' \in Paths \cup {NoPath}
          /\ decisions' \in Seq({"continue", "end"}) /\ news' \in Seq(News)
      BY <3>1 DEF Leave, ui, SessionType, NewsType
    <3>. QED  BY <3>2, <3>3, <3>4 DEF SessionType, NewsType
  <2>2. CASE Restart
    <3>1. faults' \in Nat
      BY <2>2 DEF Restart, Fault, SessionType
    <3>2. decisions' \in Seq({"continue", "end"}) /\ news' \in Seq(News)
      BY <2>2 DEF Restart
    <3>. QED  BY <2>2, <3>1, <3>2 DEF Restart, SessionType, NewsType
  <2>. QED  BY <2>1, <2>2
<1>. QED  BY <1>1, <1>2

LEMMA NextType == TypeInv /\ [Next]_vars => TypeInv'
<1>. SUFFICES ASSUME TypeInv, [Next]_vars PROVE TypeInv'
  OBVIOUS
<1>1. CASE UNCHANGED vars
  BY <1>1 DEF vars, rows, routes, ui, TypeInv, RowType, PauseType, SessionType,
       NewsType, PauseAtPath
<1>2. CASE Next
  BY <1>2, ChatSendType, DecisionsOnRequestsType, ResultOkType, HandleEndType,
     HandleContinueType, SessionStepType, LeaveOrRestartType DEF Next
<1>. QED  BY <1>1, <1>2

\* Whatever is asked, answered, decided and interrupted, rows, pauses, panels
\* and messages keep their types.
THEOREM TypeCorrect == Spec => []TypeOK
<1>1. TypeInv => TypeOK
  BY TypeParts DEF TypeInv
<1>. QED  BY <1>1, InitType, NextType, PTL DEF Spec

------------------------------------------------------------------------------
(* The tree of requests, the pause and the routes *)

\* An answer leads to requests only when it is there, and to none while the
\* chain is paused behind it.
BehindCompleted ==
  \A q \in Paths : status[q] # "none" /\ Parent(q) \in Paths => status[Parent(q)] = "completed"
AskedFirst == ~asked => \A p \in Paths : status[p] = "none"
PausedDone == paused # NoPause => status[paused.at] = "completed"
NothingBehind ==
  paused # NoPause => \A q \in Paths : Parent(q) = paused.at => status[q] = "none"

\* The request that a route names is the only one that the answer led to.
RouteNames ==
  \A p \in Paths : routeRequest[p] # NoPath =>
    /\ Parent(routeRequest[p]) = p /\ status[routeRequest[p]] # "none"
    /\ \A q \in Paths : Parent(q) = p /\ status[q] # "none" => q = routeRequest[p]

Tree == BehindCompleted /\ AskedFirst /\ PausedDone /\ NothingBehind
Routes == RouteNames /\ PauseIsShown /\ RouteSettles
Shape == Tree /\ Routes

LEMMA ChildFacts ==
  ASSUME NEW p \in Paths \cup {NoPath}, NEW T \in SUBSET Agents
  PROVE  /\ Children(p, T) \in SUBSET Paths
         /\ \A q \in Children(p, T) : Parent(q) = p /\ Target(q) \in T
<1>1. \A q \in Children(p, T) : Parent(q) = p
  <2>1. CASE p = NoPath
    <3>. SUFFICES ASSUME NEW q \in Children(p, T) PROVE Parent(q) = p
      OBVIOUS
    <3>1. PICK a \in T : q = Append(<<>>, a)
      BY <2>1 DEF Children, NoPath
    <3>2. Len(q) = 1 /\ q \in Seq(T)
      BY <3>1
    <3>3. SubSeq(q, 1, 0) = <<>>
      BY <3>2
    <3>. QED  BY <2>1, <3>2, <3>3 DEF Parent, NoPath
  <2>2. CASE p \in Paths
    BY <2>2, ParentOfChild DEF Children
  <2>. QED  BY <2>1, <2>2
<1>. QED  BY <1>1, ChildrenArePaths, TargetsOfChildren

LEMMA NoPathIsNoPath == NoPath \notin Paths
  BY PathIsSequence DEF NoPath

LEMMA InitShape == Init => Shape
  BY DEF Init, Shape, Tree, Routes, BehindCompleted, AskedFirst, PausedDone, NothingBehind,
     RouteNames, PauseIsShown, RouteSettles, NoPause

\* Requests that fail were active, so no pause lies before them.
LEMMA FailKeepsShape ==
  ASSUME TypeInv, Shape, NEW S \in SUBSET Paths, \A p \in S : status[p] \in Active,
         FailRequests(S), UNCHANGED <<asked, routeRequest, paused>>
  PROVE  Shape'
<1>1. /\ status \in [Paths -> Status] /\ route \in [Paths -> RouteStatus]
      /\ routeRequest \in [Paths -> Paths \cup {NoPath}]
  BY DEF TypeInv, RowType
<1>2. \A q \in Paths : status'[q] = IF q \in S THEN "failed" ELSE status[q]
  BY DEF FailRequests
<1>3. \A q \in Paths : route'[q] = IF \E p \in S : Parent(p) = q THEN "failed" ELSE route[q]
  BY DEF FailRequests, FailedRoutes
<1>4. \A q \in S : status[q] \in {"open", "waiting"}
  BY DEF Active
<1>5. Tree'
  BY <1>1, <1>2, <1>4, NoPathIsNoPath DEF Shape, Tree, BehindCompleted, AskedFirst, PausedDone, NothingBehind,
     TypeInv, PauseAtPath
<1>6. RouteNames'
  BY <1>1, <1>2, <1>4 DEF Shape, Routes, RouteNames
<1>7. PauseIsShown'
  BY <1>1, <1>3, <1>4 DEF Shape, Tree, Routes, NothingBehind, PauseIsShown
<1>8. RouteSettles'
  <2>. SUFFICES ASSUME NEW p \in Paths, routeRequest[p] # NoPath
                PROVE  route'[p] = "open" <=> status'[routeRequest[p]] \in Active
    BY <1>1 DEF RouteSettles
  <2>1. \A q \in S : Parent(q) = p => q = routeRequest[p]
    BY <1>4 DEF Shape, Routes, RouteNames
  <2>2. routeRequest[p] \in Paths /\ Parent(routeRequest[p]) = p
    BY <1>1 DEF Shape, Routes, RouteNames
  <2>3. route[p] = "open" <=> status[routeRequest[p]] \in Active
    BY DEF Shape, Routes, RouteSettles
  <2>. QED  BY <1>2, <1>3, <2>1, <2>2, <2>3 DEF Active
<1>. QED  BY <1>5, <1>6, <1>7, <1>8 DEF Shape, Routes

LEMMA ApproveShape == ASSUME TypeInv, Shape, NEW p \in Paths, Approve(p) PROVE Shape'
<1>1. /\ status \in [Paths -> Status] /\ route \in [Paths -> RouteStatus]
      /\ routeRequest \in [Paths -> Paths \cup {NoPath}]
  BY DEF TypeInv, RowType
<1>2. /\ status[p] = "waiting" /\ status' = [status EXCEPT ![p] = "open"]
      /\ UNCHANGED <<asked, routeRequest, paused>>
  BY DEF Approve
<1>3. \A q \in Paths : route'[q] = IF Parent(p) = q THEN "open" ELSE route[q]
  BY DEF Approve
<1>4. \A q \in Paths : status'[q] = IF q = p THEN "open" ELSE status[q]
  BY <1>1, <1>2
<1>5. Tree'
  BY <1>1, <1>2, <1>4 DEF Shape, Tree, BehindCompleted, AskedFirst, PausedDone, NothingBehind,
     TypeInv, PauseAtPath
<1>6. RouteNames'
  BY <1>1, <1>2, <1>4 DEF Shape, Routes, RouteNames
<1>7. PauseIsShown'
  BY <1>1, <1>2, <1>3 DEF Shape, Tree, Routes, NothingBehind, PauseIsShown
<1>8. RouteSettles'
  BY <1>1, <1>2, <1>3, <1>4 DEF Shape, Routes, RouteNames, RouteSettles, Active
<1>. QED  BY <1>5, <1>6, <1>7, <1>8 DEF Shape, Routes

LEMMA NotOwnParent == ASSUME NEW p \in Paths PROVE Parent(p) # p
<1>1. p \in Seq(Agents) /\ Len(p) \in Nat \ {0}
  BY PathIsSequence
<1>. DEFINE m == Len(p) - 1
<1>2. m \in Nat /\ Len(p) = m + 1
  BY <1>1
<1>. HIDE DEF m
<1>3. Len(SubSeq(p, 1, m)) = m
  BY <1>1, <1>2
<1>4. SubSeq(p, 1, m) # p
  BY <1>2, <1>3
<1>. QED  BY <1>4 DEF Parent, m

\* Requests that are new or about to be created.
NewStatus == {"open", "waiting", "failed"}

LEMMA OutcomesAreNew == \A fails \in BOOLEAN, a \in Agents : Outcomes(fails, a) \in SUBSET NewStatus
  BY DEF Outcomes, NewStatus

\* Requests added behind an answer keep the tree, whether the answer is new or
\* its chain was paused.
LEMMA AddedTree ==
  ASSUME TypeInv, Shape, NEW p \in Paths, NEW S \in SUBSET Paths, NEW out,
         \A q \in S : Parent(q) = p /\ out[Target(q)] \in NewStatus,
         status[p] \in {"open", "completed"}, asked' = asked,
         \A q \in Paths : Parent(q) = p => status[q] = "none",
         \A q \in Paths : status'[q] = IF q \in S THEN out[Target(q)]
                                       ELSE IF q = p THEN "completed" ELSE status[q],
         paused' = NoPause \/ (paused' = paused /\ status[p] = "open")
  PROVE  Tree'
<1>1. p \notin S /\ \A q \in S : status[q] = "none"
  BY NotOwnParent
<1>2. BehindCompleted'
  <2>. SUFFICES ASSUME NEW q \in Paths, status'[q] # "none", Parent(q) \in Paths
                PROVE  status'[Parent(q)] = "completed"
    BY DEF BehindCompleted
  <2>1. CASE q \in S
    BY <1>1, <2>1
  <2>2. CASE q \notin S
    <3>1. status[q] # "none"
      BY <2>2
    <3>2. status[Parent(q)] = "completed"
      BY <3>1 DEF Shape, Tree, BehindCompleted
    <3>. QED  BY <1>1, <3>2
  <2>. QED  BY <2>1, <2>2
<1>3. AskedFirst'
  BY DEF Shape, Tree, AskedFirst
<1>4. PausedDone'
  BY <1>1 DEF Shape, Tree, PausedDone, TypeInv, PauseAtPath
<1>5. NothingBehind'
  BY <1>1 DEF Shape, Tree, PausedDone, NothingBehind
<1>. QED  BY <1>2, <1>3, <1>4, <1>5 DEF Tree

LEMMA AddedRoutes ==
  ASSUME TypeInv, Shape, NEW p \in Paths, NEW S \in SUBSET Paths, NEW out,
         \A q \in S : Parent(q) = p /\ out[Target(q)] \in NewStatus,
         \A q \in Paths : Parent(q) = p => status[q] = "none",
         status[p] # "none",
         \A q \in Paths : status'[q] = IF q \in S THEN out[Target(q)]
                                       ELSE IF q = p THEN "completed" ELSE status[q],
         NEW r \in [Paths -> RouteStatus], NEW unknown \in BOOLEAN,
         SetRoute(r, p, S, unknown, out),
         \A q \in Paths \ {p} : r[q] = "paused" <=> paused' # NoPause /\ paused'.at = q,
         paused' # NoPause => paused'.at # p,
         \A q \in Paths \ {p} : routeRequest[q] # NoPath =>
           (r[q] = "open" <=> status'[routeRequest[q]] \in Active)
  PROVE  Routes'
<1>1. routeRequest \in [Paths -> Paths \cup {NoPath}]
  BY DEF TypeInv, RowType
<1>2. \A q \in Paths \ {p} : route'[q] = r[q] /\ routeRequest'[q] = routeRequest[q]
  BY <1>1 DEF SetRoute
<1>3. route'[p] \in {"open", "failed", "none"}
  BY DEF SetRoute
<1>4. CASE routeRequest'[p] = NoPath
  <2>1. RouteNames'
    BY <1>1, <1>2, <1>4 DEF Shape, Routes, RouteNames
  <2>2. PauseIsShown'
    BY <1>2, <1>3 DEF PauseIsShown
  <2>3. RouteSettles'
    BY <1>2, <1>4 DEF RouteSettles
  <2>. QED  BY <2>1, <2>2, <2>3 DEF Routes
<1>5. CASE routeRequest'[p] # NoPath
  <2>1. ~unknown /\ \E c \in S : S = {c}
    BY <1>1, <1>5 DEF SetRoute
  <2>2. PICK c \in S : S = {c}
    BY <2>1
  <2>3. c \in Paths /\ c \in S /\ c # p
    BY <2>2, NotOwnParent
  <2>4. /\ routeRequest'[p] = c
        /\ route'[p] = IF out[Target(c)] \in Active THEN "open" ELSE "failed"
    BY <1>1, <2>1, <2>2 DEF SetRoute
  <2>5. RouteNames'
    <3>. SUFFICES ASSUME NEW x \in Paths, routeRequest'[x] # NoPath
                  PROVE  /\ Parent(routeRequest'[x]) = x /\ status'[routeRequest'[x]] # "none"
                         /\ \A q \in Paths : Parent(q) = x /\ status'[q] # "none"
                                               => q = routeRequest'[x]
      BY DEF RouteNames
    <3>1. CASE x = p
      BY <2>2, <2>3, <2>4, <3>1, NotOwnParent DEF NewStatus
    <3>2. CASE x # p
      BY <1>1, <1>2, <3>2 DEF Shape, Routes, RouteNames
    <3>. QED  BY <3>1, <3>2
  <2>6. PauseIsShown'
    BY <1>2, <1>3 DEF PauseIsShown
  <2>7. RouteSettles'
    <3>. SUFFICES ASSUME NEW x \in Paths, routeRequest'[x] # NoPath
                  PROVE  route'[x] = "open" <=> status'[routeRequest'[x]] \in Active
      BY DEF RouteSettles
    <3>1. CASE x = p
      BY <2>3, <2>4, <3>1
    <3>2. CASE x # p
      BY <1>2, <3>2
    <3>. QED  BY <3>1, <3>2
  <2>. QED  BY <2>5, <2>6, <2>7 DEF Routes
<1>. QED  BY <1>4, <1>5

LEMMA ChatSendShape == ASSUME TypeInv, Shape, ChatSend PROVE Shape'
<1>1. PICK T \in (SUBSET Agents) \ {{}}, task \in BOOLEAN :
        \E out \in [T -> Status] :
          Insert(status, Children(NoPath, T), out, 1, RoundLimit, task)
  BY DEF ChatSend
<1>. DEFINE S == Children(NoPath, T)
<1>2. PICK out \in [T -> Status] : Insert(status, S, out, 1, RoundLimit, task)
  BY <1>1
<1>3. S \in SUBSET Paths /\ \A q \in S : Parent(q) = NoPath
  BY ChildFacts
<1>. HIDE DEF S
<1>4. /\ ~asked /\ asked' = TRUE
      /\ UNCHANGED <<route, routeRequest, paused>>
  BY DEF ChatSend, routes
<1>5. \A q \in Paths : status[q] = "none" /\ (q \notin S => status'[q] = "none")
  BY <1>2, <1>4 DEF Insert, Shape, Tree, AskedFirst
<1>6. paused = NoPause
  BY <1>5 DEF Shape, Tree, PausedDone, TypeInv, PauseAtPath
<1>7. \A q \in Paths : routeRequest[q] = NoPath
  BY <1>5 DEF Shape, Routes, RouteNames, TypeInv, RowType
<1>8. Tree'
  BY <1>3, <1>4, <1>5, <1>6, NoPathIsNoPath
     DEF Tree, BehindCompleted, AskedFirst, PausedDone, NothingBehind
<1>9. Routes'
  BY <1>4, <1>7 DEF Shape, Routes, RouteNames, PauseIsShown, RouteSettles
<1>. QED  BY <1>8, <1>9 DEF Shape

LEMMA PauseAfterShape ==
  ASSUME TypeInv, Shape, NEW p \in Paths, NEW T \in SUBSET Agents, NEW unknown \in BOOLEAN,
         NEW task \in BOOLEAN, PauseAfter(p, T, unknown, task), asked' = asked,
         status[p] = "open"
  PROVE  Shape'
<1>1. CASE paused # NoPause
  BY <1>1 DEF PauseAfter, Shape, Tree, BehindCompleted, AskedFirst, PausedDone, NothingBehind,
     Routes, RouteNames, PauseIsShown, RouteSettles
<1>2. CASE paused = NoPause
  <2>1. /\ status \in [Paths -> Status] /\ route \in [Paths -> RouteStatus]
        /\ routeRequest \in [Paths -> Paths \cup {NoPath}]
    BY DEF TypeInv, RowType
  <2>2. /\ paused' # NoPause /\ paused'.at = p
        /\ routeRequest' = routeRequest
    BY <1>2, NoPathIsNoPath DEF PauseAfter, NoPause
  <2>3. \A q \in Paths : status'[q] = IF q = p THEN "completed" ELSE status[q]
    BY <1>2, <2>1 DEF PauseAfter, CompletedRows
  <2>4. \A q \in Paths : route'[q] = IF q = p THEN "paused"
                                     ELSE IF routeRequest[q] = p THEN "completed" ELSE route[q]
    BY <1>2, <2>1 DEF PauseAfter, CompletedRoutes
  <2>5. \A q \in Paths : Parent(q) = p => status[q] = "none"
    BY DEF Shape, Tree, BehindCompleted
  <2>6. BehindCompleted' /\ AskedFirst' /\ PausedDone'
    BY <2>1, <2>2, <2>3 DEF Shape, Tree, BehindCompleted, AskedFirst, PausedDone
  <2>7. NothingBehind'
    BY <2>2, <2>3, <2>5, NotOwnParent DEF NothingBehind
  <2>8. RouteNames'
    BY <2>1, <2>2, <2>3 DEF Shape, Routes, RouteNames
  <2>9. PauseIsShown'
    BY <1>2, <2>2, <2>4 DEF Shape, Routes, PauseIsShown
  <2>10. RouteSettles'
    <3>. SUFFICES ASSUME NEW q \in Paths, routeRequest[q] # NoPath
                  PROVE  route'[q] = "open" <=> status'[routeRequest[q]] \in Active
      BY <2>2 DEF RouteSettles
    <3>1. routeRequest[q] \in Paths /\ Parent(routeRequest[q]) = q
      BY <2>1 DEF Shape, Routes, RouteNames
    <3>2. q # p
      BY <2>1, <2>5, <3>1 DEF Shape, Routes, RouteNames
    <3>3. route[q] = "open" <=> status[routeRequest[q]] \in Active
      BY DEF Shape, Routes, RouteSettles
    <3>. QED  BY <2>3, <2>4, <3>1, <3>2, <3>3 DEF Active
  <2>. QED  BY <2>6, <2>7, <2>8, <2>9, <2>10 DEF Shape, Tree, Routes
<1>. QED  BY <1>1, <1>2

LEMMA RouteAfterShape ==
  ASSUME TypeInv, Shape, NEW p \in Paths, NEW T \in SUBSET Agents, NEW unknown \in BOOLEAN,
         NEW task \in BOOLEAN, RouteAfter(p, T, unknown, task), asked' = asked,
         status[p] = "open"
  PROVE  Shape'
<1>. DEFINE S == Children(p, T)
            n == round[p] + 1
            r == CompletedRoutes(p)
<1>1. PICK out \in [T -> Status] :
        /\ \A a \in T : out[a] \in Outcomes(Refused(p, a, task), a)
        /\ Insert(CompletedRows(p), S, out, n, limit[p], task)
        /\ SetRoute(r, p, S, unknown, out)
  BY DEF RouteAfter
<1>2. S \in SUBSET Paths /\ \A q \in S : Parent(q) = p /\ Target(q) \in T
  BY ChildFacts
<1>. HIDE DEF S, n
<1>3. /\ status \in [Paths -> Status] /\ route \in [Paths -> RouteStatus]
      /\ routeRequest \in [Paths -> Paths \cup {NoPath}]
  BY DEF TypeInv, RowType
<1>4. \A a \in T : out[a] \in NewStatus
  BY <1>1 DEF Outcomes, NewStatus
<1>5. \A q \in S : Parent(q) = p /\ out[Target(q)] \in NewStatus
  BY <1>2, <1>4
<1>6. \A q \in Paths : status'[q] = IF q \in S THEN out[Target(q)]
                                    ELSE IF q = p THEN "completed" ELSE status[q]
  BY <1>1, <1>2, <1>3 DEF Insert, CompletedRows
<1>7. \A q \in Paths : Parent(q) = p => status[q] = "none"
  BY DEF Shape, Tree, BehindCompleted
<1>8. \A q \in Paths : r[q] = IF routeRequest[q] = p THEN "completed" ELSE route[q]
  BY DEF CompletedRoutes
<1>9. r \in [Paths -> RouteStatus]
  BY CompletedType DEF TypeInv
<1>10. SetRoute(r, p, S, unknown, out)
  BY <1>1
<1>11. paused' = paused
  BY DEF RouteAfter
<1>12. paused # NoPause => paused.at # p
  BY DEF Shape, Tree, PausedDone
<1>13. \A q \in Paths \ {p} : r[q] = "paused" <=> paused # NoPause /\ paused.at = q
  <2>1. \A q \in Paths : routeRequest[q] = p => Parent(p) = q
    BY NoPathIsNoPath DEF Shape, Routes, RouteNames
  <2>2. \A q \in Paths : routeRequest[q] = p => ~(paused # NoPause /\ paused.at = q)
    BY <2>1 DEF Shape, Tree, NothingBehind
  <2>. QED  BY <1>8, <2>2 DEF Shape, Routes, PauseIsShown
<1>14. \A q \in Paths \ {p} : routeRequest[q] # NoPath =>
         (r[q] = "open" <=> status'[routeRequest[q]] \in Active)
  <2>. SUFFICES ASSUME NEW q \in Paths \ {p}, routeRequest[q] # NoPath
                PROVE  r[q] = "open" <=> status'[routeRequest[q]] \in Active
    OBVIOUS
  <2>1. routeRequest[q] \in Paths /\ Parent(routeRequest[q]) = q
    BY <1>3 DEF Shape, Routes, RouteNames
  <2>2. routeRequest[q] \notin S
    BY <1>2, <2>1
  <2>3. route[q] = "open" <=> status[routeRequest[q]] \in Active
    BY DEF Shape, Routes, RouteSettles
  <2>. QED  BY <1>6, <1>8, <2>1, <2>2, <2>3 DEF Active
<1>. HIDE DEF r
<1>15. Tree'
  BY <1>2, <1>5, <1>6, <1>7, <1>11, AddedTree
<1>16. Routes'
  BY <1>2, <1>5, <1>6, <1>7, <1>9, <1>10, <1>11, <1>12, <1>13, <1>14, AddedRoutes
<1>. QED  BY <1>15, <1>16 DEF Shape

LEMMA HandleEndShape == ASSUME TypeInv, Shape, HandleEnd PROVE Shape'
<1>1. CASE ~MayDecide
  BY <1>1 DEF HandleEnd, rows, Shape, Tree, BehindCompleted, AskedFirst, PausedDone,
     NothingBehind, Routes, RouteNames, PauseIsShown, RouteSettles
<1>2. CASE MayDecide
  <2>1. /\ paused.at \in Paths /\ paused # NoPause
        /\ route \in [Paths -> RouteStatus]
    BY <1>2 DEF MayDecide, TypeInv, PauseAtPath, RowType
  <2>2. /\ paused' = NoPause /\ route' = [route EXCEPT ![paused.at] = "ended"]
        /\ UNCHANGED <<asked, status, routeRequest>>
    BY <1>2 DEF HandleEnd, rows
  <2>3. Tree'
    BY <2>2 DEF Shape, Tree, BehindCompleted, AskedFirst, PausedDone, NothingBehind
  <2>4. RouteNames'
    BY <2>2 DEF Shape, Routes, RouteNames
  <2>5. PauseIsShown'
    BY <2>1, <2>2 DEF Shape, Routes, PauseIsShown
  <2>6. routeRequest[paused.at] = NoPath
    BY <2>1, NoPathIsNoPath DEF Shape, Tree, NothingBehind, Routes, RouteNames, TypeInv, RowType
  <2>7. RouteSettles'
    BY <2>1, <2>2, <2>6 DEF Shape, Routes, RouteSettles
  <2>. QED  BY <2>3, <2>4, <2>5, <2>7 DEF Shape, Routes
<1>. QED  BY <1>1, <1>2

LEMMA HandleContinueShape == ASSUME TypeInv, Shape, HandleContinue PROVE Shape'
<1>1. CASE ~MayDecide
  BY <1>1 DEF HandleContinue, routes, Shape, Tree, BehindCompleted, AskedFirst, PausedDone,
     NothingBehind, Routes, RouteNames, PauseIsShown, RouteSettles
<1>2. CASE MayDecide
  <2>1. PICK p \in Paths, T \in SUBSET Agents, unknown \in BOOLEAN, task \in BOOLEAN,
             n \in Nat, max \in Nat :
          /\ p = paused.at /\ T = paused.targets /\ unknown = paused.unknown
          /\ task = paused.hasTask /\ n = round[p] + 1 /\ max = paused.limit + RoundLimit
    BY <1>2, ConstantsAssumption
       DEF MayDecide, TypeInv, PauseAtPath, PauseType, Pauses, RowType
  <2>. DEFINE S == Children(p, T)
  <2>2. PICK out \in [T -> Status] :
          /\ \A a \in T : out[a] \in Outcomes(a = Target(p) /\ client[a] = paused.client, a)
          /\ Insert(status, S, out, n, max, task)
          /\ SetRoute(route, p, S, unknown, out)
    BY <1>2, <2>1 DEF HandleContinue
  <2>3. S \in SUBSET Paths /\ \A q \in S : Parent(q) = p /\ Target(q) \in T
    BY ChildFacts
  <2>. HIDE DEF S
  <2>4. /\ status \in [Paths -> Status] /\ route \in [Paths -> RouteStatus]
        /\ routeRequest \in [Paths -> Paths \cup {NoPath}]
    BY DEF TypeInv, RowType
  <2>5. \A q \in S : Parent(q) = p /\ out[Target(q)] \in NewStatus
    BY <2>2, <2>3 DEF Outcomes, NewStatus
  <2>6. /\ paused # NoPause /\ paused' = NoPause /\ asked' = asked
    BY <1>2 DEF MayDecide, HandleContinue, PauseAfterContinue
  <2>7. status[p] = "completed" /\ \A q \in Paths : Parent(q) = p => status[q] = "none"
    BY <2>1, <2>6 DEF Shape, Tree, PausedDone, NothingBehind
  <2>8. \A q \in Paths : status'[q] = IF q \in S THEN out[Target(q)]
                                      ELSE IF q = p THEN "completed" ELSE status[q]
    BY <2>2, <2>3, <2>4, <2>7 DEF Insert
  <2>9. SetRoute(route, p, S, unknown, out)
    BY <2>2
  <2>10. \A q \in Paths \ {p} : route[q] = "paused" <=> paused' # NoPause /\ paused'.at = q
    BY <2>1, <2>6 DEF Shape, Routes, PauseIsShown
  <2>11. \A q \in Paths \ {p} : routeRequest[q] # NoPath =>
           (route[q] = "open" <=> status'[routeRequest[q]] \in Active)
    <3>. SUFFICES ASSUME NEW q \in Paths \ {p}, routeRequest[q] # NoPath
                  PROVE  route[q] = "open" <=> status'[routeRequest[q]] \in Active
      OBVIOUS
    <3>1. routeRequest[q] \in Paths /\ Parent(routeRequest[q]) = q
      BY <2>4 DEF Shape, Routes, RouteNames
    <3>2. routeRequest[q] \notin S
      BY <2>3, <3>1
    <3>3. route[q] = "open" <=> status[routeRequest[q]] \in Active
      BY DEF Shape, Routes, RouteSettles
    <3>. QED  BY <2>7, <2>8, <3>1, <3>2, <3>3
  <2>12. Tree'
    <3>1. /\ status[p] \in {"open", "completed"}
          /\ paused' = NoPause \/ (paused' = paused /\ status[p] = "open")
      BY <2>6, <2>7
    <3>2. /\ asked' = asked
          /\ \A q \in Paths : Parent(q) = p => status[q] = "none"
      BY <2>6, <2>7
    <3>3. S \in SUBSET Paths
      BY <2>3
    <3>. QED  BY <2>5, <2>8, <3>1, <3>2, <3>3, AddedTree, SMTT(60)
  <2>13. Routes'
    BY <2>3, <2>4, <2>5, <2>6, <2>7, <2>8, <2>9, <2>10, <2>11, AddedRoutes
  <2>. QED  BY <2>12, <2>13 DEF Shape
<1>. QED  BY <1>1, <1>2

LEMMA KeptShape ==
  ASSUME TypeInv, Shape, UNCHANGED <<asked, status, route, routeRequest, paused>>
  PROVE  Shape'
  BY DEF Shape, Tree, BehindCompleted, AskedFirst, PausedDone, NothingBehind, Routes,
     RouteNames, PauseIsShown, RouteSettles

LEMMA NextShape == TypeInv /\ Shape /\ [Next]_vars => Shape'
<1>. SUFFICES ASSUME TypeInv, Shape, [Next]_vars PROVE Shape'
  OBVIOUS
<1>1. CASE ChatSend
  BY <1>1, ChatSendShape
<1>2. CASE \E p \in Paths : Approve(p)
  BY <1>2, ApproveShape
<1>3. ASSUME NEW p \in Paths, Reject(p) \/ ResultFailed(p) PROVE Shape'
  <2>1. /\ {p} \in SUBSET Paths /\ \A q \in {p} : status[q] \in Active
        /\ FailRequests({p}) /\ UNCHANGED <<asked, routeRequest, paused>>
    BY <1>3 DEF Reject, ResultFailed, Active
  <2>. QED  BY <2>1, FailKeepsShape
<1>4. ASSUME NEW p \in Paths, NEW T \in SUBSET Agents, NEW unknown \in BOOLEAN,
             NEW task \in BOOLEAN, ResultOk(p, T, unknown, task)
      PROVE  Shape'
  BY <1>4, PauseAfterShape, RouteAfterShape DEF ResultOk
<1>5. CASE HandleEnd
  BY <1>5, HandleEndShape
<1>6. CASE HandleContinue
  BY <1>6, HandleContinueShape
<1>7. CASE \/ \E kind \in {"continue", "end"} : Decide(kind)
           \/ ReceiveNews \/ Disconnect \/ Resume \/ \E a \in Agents : Join(a)
           \/ UNCHANGED vars
  BY <1>7, KeptShape DEF Decide, ReceiveNews, Disconnect, Resume, Join, vars, rows, routes
<1>8. ASSUME NEW a \in Agents, Leave(a) PROVE Shape'
  <2>. DEFINE S == {p \in Paths : Target(p) = a /\ status[p] \in Active}
  <2>1. FailRequests(S) /\ UNCHANGED <<asked, routeRequest, paused>>
    BY <1>8 DEF Leave
  <2>2. S \in SUBSET Paths /\ \A q \in S : status[q] \in Active
    OBVIOUS
  <2>. HIDE DEF S
  <2>. QED  BY <2>1, <2>2, FailKeepsShape
<1>9. CASE Restart
  <2>. DEFINE S == {p \in Paths : status[p] \in Active}
  <2>1. FailRequests(S) /\ UNCHANGED <<asked, routeRequest, paused>>
    BY <1>9 DEF Restart
  <2>2. S \in SUBSET Paths /\ \A q \in S : status[q] \in Active
    OBVIOUS
  <2>. HIDE DEF S
  <2>. QED  BY <2>1, <2>2, FailKeepsShape
<1>. QED  BY <1>1, <1>2, <1>3, <1>4, <1>5, <1>6, <1>7, <1>8, <1>9 DEF Next

\* The paused chain and the answer that shows it as paused are kept in two
\* tables, and stay together.
THEOREM PauseShown == Spec => []PauseIsShown
<1>1. Shape => PauseIsShown
  BY DEF Shape, Routes
<1>. QED  BY <1>1, InitType, NextType, InitShape, NextShape, PTL DEF Spec

\* An answer with one delivery shows it as going on exactly while it is.
THEOREM RoutesSettle == Spec => []RouteSettles
<1>1. Shape => RouteSettles
  BY DEF Shape, Routes
<1>. QED  BY <1>1, InitType, NextType, InitShape, NextShape, PTL DEF Spec

\* No request is created behind a paused answer before the initiator decides.
THEOREM NothingBehindThePause == Spec => []NothingBehindPause
<1>1. TypeInv /\ Shape => NothingBehindPause
  <2>. SUFFICES ASSUME TypeInv, Shape, paused # NoPause, NEW a \in Agents,
                       Append(paused.at, a) \in Paths
                PROVE  status[Append(paused.at, a)] = "none"
    BY DEF NothingBehindPause
  <2>1. PICK p \in Paths : p = paused.at
    BY DEF TypeInv, PauseAtPath
  <2>2. Parent(Append(p, a)) = p
    BY ParentOfChild
  <2>. QED  BY <2>1, <2>2 DEF Shape, Tree, NothingBehind
<1>. QED  BY <1>1, InitType, NextType, InitShape, NextShape, PTL DEF Spec

------------------------------------------------------------------------------
(* The rounds that were granted *)

\* The last round that the initiator has allowed so far.
Granted == RoundLimit * (1 + continues)

LimitsGranted == \A p \in Paths : limit[p] <= Granted
ActiveWithin == \A p \in Paths : status[p] \in Active => round[p] <= limit[p]
PausedWithin == paused # NoPause => paused.limit <= Granted /\ round[paused.at] <= paused.limit
Rounds == LimitsGranted /\ ActiveWithin /\ PausedWithin

\* Only a continue of the paused chain grants more, by one limit.
LEMMA GrantedSteps ==
  ASSUME TypeInv
  PROVE  /\ Granted \in Nat /\ RoundLimit <= Granted
         /\ continues' = continues => Granted' = Granted
         /\ continues' = continues + 1 => Granted' = Granted + RoundLimit
<1>1. continues \in Nat /\ RoundLimit \in Nat
  BY ConstantsAssumption DEF TypeInv, SessionType
<1>2. RoundLimit * continues \in Nat
  BY <1>1
<1>3. Granted = RoundLimit + RoundLimit * continues
  BY <1>1 DEF Granted
<1>4. ASSUME continues' = continues + 1 PROVE Granted' = Granted + RoundLimit
  <2>1. RoundLimit * (1 + (continues + 1)) = RoundLimit + RoundLimit * continues + RoundLimit
    BY <1>1
  <2>. QED  BY <1>3, <1>4, <2>1 DEF Granted
<1>5. ASSUME continues' = continues PROVE Granted' = Granted
  BY <1>5 DEF Granted
<1>. QED  BY <1>1, <1>2, <1>3, <1>4, <1>5

LEMMA InitRounds == Init => Rounds
<1>. SUFFICES ASSUME Init PROVE Rounds
  OBVIOUS
<1>1. Granted \in Nat
  BY InitType, GrantedSteps
<1>2. \A p \in Paths : limit[p] = 0 /\ status[p] = "none"
  BY DEF Init
<1>. QED  BY <1>1, <1>2 DEF Init, Rounds, LimitsGranted, ActiveWithin, PausedWithin, Active

\* Steps that create no request, grant nothing and pause nothing.
LEMMA KeptRounds ==
  ASSUME TypeInv, Rounds, UNCHANGED <<round, limit, continues>>,
         paused' = paused \/ paused' = NoPause,
         \A p \in Paths : status'[p] \in Active => status[p] \in Active
  PROVE  Rounds'
<1>1. Granted' = Granted
  BY GrantedSteps
<1>2. LimitsGranted'
  BY <1>1 DEF Rounds, LimitsGranted
<1>3. ActiveWithin'
  BY DEF Rounds, ActiveWithin
<1>4. PausedWithin'
  BY <1>1 DEF Rounds, PausedWithin
<1>. QED  BY <1>2, <1>3, <1>4 DEF Rounds

\* Requests of round n with limit max.
LEMMA InsertedRounds ==
  ASSUME TypeInv, Rounds, TypeInv', NEW S \in SUBSET Paths, NEW n \in Nat, NEW max \in Nat,
         S # {} => n <= max, max <= Granted', Granted <= Granted',
         \A p \in Paths : round'[p] = IF p \in S THEN n ELSE round[p],
         \A p \in Paths : limit'[p] = IF p \in S THEN max ELSE limit[p],
         \A p \in Paths \ S : status'[p] \in Active => status[p] \in Active,
         paused' = paused \/ paused' = NoPause, paused' # NoPause => paused.at \notin S
  PROVE  Rounds'
<1>1. /\ Granted \in Nat /\ Granted' \in Nat
      /\ round \in [Paths -> Nat] /\ limit \in [Paths -> Nat]
  <2>1. continues' \in Nat /\ RoundLimit \in Nat
    BY ConstantsAssumption DEF TypeInv, SessionType
  <2>2. Granted' \in Nat
    BY <2>1 DEF Granted
  <2>. QED  BY <2>2, GrantedSteps DEF TypeInv, RowType
<1>2. LimitsGranted'
  BY <1>1 DEF Rounds, LimitsGranted
<1>3. ActiveWithin'
  BY DEF Rounds, ActiveWithin
<1>4. PausedWithin'
  <2>. SUFFICES ASSUME paused' # NoPause
                PROVE  paused'.limit <= Granted' /\ round'[paused'.at] <= paused'.limit
    BY DEF PausedWithin
  <2>1. paused' = paused /\ paused.at \in Paths /\ paused.limit \in Nat
    BY DEF TypeInv, PauseAtPath, PauseType, Pauses
  <2>2. paused.limit <= Granted /\ round[paused.at] <= paused.limit
    BY <2>1 DEF Rounds, PausedWithin
  <2>. QED  BY <1>1, <2>1, <2>2
<1>. QED  BY <1>2, <1>3, <1>4 DEF Rounds

LEMMA ChatSendRounds ==
  ASSUME TypeInv, Shape, Rounds, TypeInv', ChatSend
  PROVE  Rounds'
<1>1. PICK T \in (SUBSET Agents) \ {{}}, task \in BOOLEAN :
        \E out \in [T -> Status] :
          Insert(status, Children(NoPath, T), out, 1, RoundLimit, task)
  BY DEF ChatSend
<1>. DEFINE S == Children(NoPath, T)
<1>2. PICK out \in [T -> Status] : Insert(status, S, out, 1, RoundLimit, task)
  BY <1>1
<1>3. S \in SUBSET Paths
  BY ChildFacts
<1>. HIDE DEF S
<1>4. Granted' = Granted /\ RoundLimit <= Granted /\ Granted \in Nat
  BY GrantedSteps DEF ChatSend
<1>5. /\ \A p \in Paths : round'[p] = IF p \in S THEN 1 ELSE round[p]
      /\ \A p \in Paths : limit'[p] = IF p \in S THEN RoundLimit ELSE limit[p]
      /\ \A p \in Paths \ S : status'[p] \in Active => status[p] \in Active
  BY <1>2 DEF Insert
<1>6. paused' = paused /\ paused = NoPause
  BY DEF ChatSend, Shape, Tree, AskedFirst, PausedDone, TypeInv, PauseAtPath
<1>7. 1 \in Nat /\ RoundLimit \in Nat /\ 1 <= RoundLimit
  BY ConstantsAssumption
<1>. QED  BY <1>3, <1>4, <1>5, <1>6, <1>7, InsertedRounds

LEMMA PauseAfterRounds ==
  ASSUME TypeInv, Rounds, NEW p \in Paths, NEW T \in SUBSET Agents, NEW unknown \in BOOLEAN,
         NEW task \in BOOLEAN, PauseAfter(p, T, unknown, task), continues' = continues,
         status[p] = "open"
  PROVE  Rounds'
<1>1. \A q \in Paths : status'[q] \in Active => status[q] \in Active
  BY DEF PauseAfter, CompletedRows, Active, TypeInv, RowType
<1>2. Granted' = Granted
  BY GrantedSteps
<1>3. UNCHANGED <<round, limit>>
  BY DEF PauseAfter
<1>4. LimitsGranted' /\ ActiveWithin'
  BY <1>1, <1>2, <1>3 DEF Rounds, LimitsGranted, ActiveWithin
<1>5. PausedWithin'
  <2>1. CASE paused' = paused
    BY <1>2, <1>3, <2>1 DEF Rounds, PausedWithin
  <2>2. CASE paused' # paused
    <3>1. paused'.at = p /\ paused'.limit = limit[p]
      BY <2>2 DEF PauseAfter
    <3>2. limit[p] <= Granted /\ round[p] <= limit[p]
      BY DEF Rounds, LimitsGranted, ActiveWithin, Active
    <3>. QED  BY <1>2, <1>3, <3>1, <3>2 DEF PausedWithin
  <2>. QED  BY <2>1, <2>2
<1>. QED  BY <1>4, <1>5 DEF Rounds

LEMMA RouteAfterRounds ==
  ASSUME TypeInv, Shape, Rounds, TypeInv', NEW p \in Paths, NEW T \in SUBSET Agents,
         NEW unknown \in BOOLEAN, NEW task \in BOOLEAN, RouteAfter(p, T, unknown, task),
         continues' = continues, status[p] = "open",
         T # {} => ~OverLimit(round[p] + 1, limit[p])
  PROVE  Rounds'
<1>. DEFINE S == Children(p, T)
<1>1. PICK n \in Nat, max \in Nat : n = round[p] + 1 /\ max = limit[p]
  BY DEF TypeInv, RowType
<1>2. PICK out \in [T -> Status] : Insert(CompletedRows(p), S, out, n, max, task)
  BY <1>1 DEF RouteAfter
<1>3. S \in SUBSET Paths /\ \A q \in S : Parent(q) = p
  BY ChildFacts
<1>4. S # {} => n <= max
  BY <1>1 DEF Children, OverLimit
<1>. HIDE DEF S
<1>5. max <= Granted' /\ Granted <= Granted'
  BY <1>1, GrantedSteps DEF Rounds, LimitsGranted
<1>6. /\ \A q \in Paths : round'[q] = IF q \in S THEN n ELSE round[q]
      /\ \A q \in Paths : limit'[q] = IF q \in S THEN max ELSE limit[q]
  BY <1>2 DEF Insert
<1>7. \A q \in Paths \ S : status'[q] \in Active => status[q] \in Active
  BY <1>2 DEF Insert, CompletedRows, Active, TypeInv, RowType
<1>8. paused' = paused
  BY DEF RouteAfter
<1>9. paused # NoPause => paused.at \notin S
  <2>. SUFFICES ASSUME paused # NoPause, paused.at \in S PROVE FALSE
    OBVIOUS
  <2>1. paused.at \in Paths /\ Parent(paused.at) = p /\ status[paused.at] = "completed"
    BY <1>3 DEF Shape, Tree, PausedDone
  <2>. QED  BY <2>1 DEF Shape, Tree, BehindCompleted
<1>. QED  BY <1>1, <1>3, <1>4, <1>5, <1>6, <1>7, <1>8, <1>9, InsertedRounds, SMTT(60)

LEMMA HandleContinueRounds ==
  ASSUME TypeInv, Shape, Rounds, TypeInv', HandleContinue
  PROVE  Rounds'
<1>1. CASE ~MayDecide
  BY <1>1, KeptRounds DEF HandleContinue
<1>2. CASE MayDecide
  <2>0. /\ paused.at \in Paths /\ paused.targets \in SUBSET Agents
        /\ paused.hasTask \in BOOLEAN /\ round[paused.at] + 1 \in Nat
        /\ paused.limit + RoundLimit \in Nat
    BY <1>2, ConstantsAssumption
       DEF MayDecide, TypeInv, PauseAtPath, PauseType, Pauses, RowType
  <2>1. PICK p \in Paths, T \in SUBSET Agents, task \in BOOLEAN, n \in Nat, max \in Nat :
          /\ p = paused.at /\ T = paused.targets /\ task = paused.hasTask
          /\ n = round[p] + 1 /\ max = paused.limit + RoundLimit
    BY <2>0
  <2>. DEFINE S == Children(p, T)
  <2>2. PICK out \in [T -> Status] : Insert(status, S, out, n, max, task)
    BY <1>2, <2>1 DEF HandleContinue
  <2>3. S \in SUBSET Paths
    BY ChildFacts
  <2>. HIDE DEF S
  <2>4. continues' = continues + 1 /\ paused' = NoPause /\ paused # NoPause
    BY <1>2 DEF HandleContinue, MayDecide, PauseAfterContinue
  <2>5. Granted' = Granted + RoundLimit /\ Granted \in Nat /\ RoundLimit \in Nat \ {0}
    BY <2>4, GrantedSteps, ConstantsAssumption
  <2>6. /\ paused.limit <= Granted /\ round[p] <= paused.limit
        /\ paused.limit \in Nat /\ round[p] \in Nat
    BY <2>1, <2>4 DEF Rounds, PausedWithin, TypeInv, PauseType, Pauses, RowType
  <2>7. n <= max /\ max <= Granted' /\ Granted <= Granted'
    BY <2>1, <2>5, <2>6
  <2>8. /\ \A q \in Paths : round'[q] = IF q \in S THEN n ELSE round[q]
        /\ \A q \in Paths : limit'[q] = IF q \in S THEN max ELSE limit[q]
        /\ \A q \in Paths \ S : status'[q] \in Active => status[q] \in Active
    BY <2>2 DEF Insert
  <2>. QED  BY <2>3, <2>4, <2>7, <2>8, InsertedRounds
<1>. QED  BY <1>1, <1>2

LEMMA FailKeepsRounds ==
  ASSUME TypeInv, Rounds, NEW S, FailRequests(S),
         UNCHANGED <<round, limit, paused, continues>>
  PROVE  Rounds'
<1>1. \A p \in Paths : status'[p] \in Active => status[p] \in Active
  BY DEF FailRequests, Active
<1>. QED  BY <1>1, KeptRounds

LEMMA NextRounds == TypeInv /\ Shape /\ Rounds /\ [Next]_vars => Rounds'
<1>. SUFFICES ASSUME TypeInv, Shape, Rounds, [Next]_vars PROVE Rounds'
  OBVIOUS
<1>0. TypeInv'
  BY NextType
<1>1. CASE ChatSend
  BY <1>0, <1>1, ChatSendRounds
<1>2. ASSUME NEW p \in Paths, Approve(p) PROVE Rounds'
  <2>1. \A q \in Paths : status'[q] \in Active => status[q] \in Active
    BY <1>2 DEF Approve, Active, TypeInv, RowType
  <2>. QED  BY <1>2, <2>1, KeptRounds DEF Approve
<1>3. ASSUME NEW p \in Paths, Reject(p) \/ ResultFailed(p) PROVE Rounds'
  BY <1>3, FailKeepsRounds DEF Reject, ResultFailed
<1>4. ASSUME NEW p \in Paths, NEW T \in SUBSET Agents, NEW unknown \in BOOLEAN,
             NEW task \in BOOLEAN, ResultOk(p, T, unknown, task)
      PROVE  Rounds'
  BY <1>0, <1>4, PauseAfterRounds, RouteAfterRounds DEF ResultOk
<1>5. CASE HandleEnd
  BY <1>5, KeptRounds DEF HandleEnd, rows
<1>6. CASE HandleContinue
  BY <1>0, <1>6, HandleContinueRounds
<1>7. CASE \/ \E kind \in {"continue", "end"} : Decide(kind)
           \/ ReceiveNews \/ Disconnect \/ Resume \/ \E a \in Agents : Join(a)
           \/ UNCHANGED vars
  BY <1>7, KeptRounds DEF Decide, ReceiveNews, Disconnect, Resume, Join, vars, rows
<1>8. CASE (\E a \in Agents : Leave(a)) \/ Restart
  BY <1>8, FailKeepsRounds DEF Leave, Restart
<1>. QED  BY <1>1, <1>2, <1>3, <1>4, <1>5, <1>6, <1>7, <1>8 DEF Next

\* However often Agents name one another, and whatever is lost or restarted on
\* the way, none works in a round that the initiator did not grant.
THEOREM WithinTheGrant == Spec => []WithinGrant
<1>1. TypeInv /\ Rounds => WithinGrant
  <2>. SUFFICES ASSUME TypeInv, Rounds, NEW p \in Paths, status[p] \in Active
                PROVE  round[p] <= Granted
    BY DEF WithinGrant, Granted
  <2>1. round[p] <= limit[p] /\ limit[p] <= Granted
    BY DEF Rounds, ActiveWithin, LimitsGranted
  <2>2. round[p] \in Nat /\ limit[p] \in Nat /\ Granted \in Nat
    BY GrantedSteps DEF TypeInv, RowType
  <2>. QED  BY <2>1, <2>2
<1>. QED  BY <1>1, InitType, NextType, InitShape, NextShape, InitRounds, NextRounds, PTL DEF Spec

------------------------------------------------------------------------------
(* The judged targets *)

\* What pauses has used up the first limit.
LimitsOfActive == \A p \in Paths : status[p] \in Active => RoundLimit <= limit[p]
PausedLate == paused # NoPause => RoundLimit <= round[paused.at]
Judged == LimitsOfActive /\ PausedLate /\ TargetsAreJudged

\* Request q has a task and is not for the Agent whose answer led to it.
Sensible(q, task) == task[q] /\ (Len(q) > 1 => Target(q) # Target(Parent(q)))

\* Steps that create no request and pause nothing
LEMMA KeptJudged ==
  ASSUME TypeInv, Judged, UNCHANGED <<round, limit, hasTask>>,
         paused' = paused \/ paused' = NoPause,
         \A p \in Paths : status'[p] \in Active => status[p] \in Active
  PROVE  Judged'
  BY DEF Judged, LimitsOfActive, PausedLate, TargetsAreJudged

LEMMA InsertedJudged ==
  ASSUME TypeInv, Judged, NEW S \in SUBSET Paths, NEW n \in Nat, NEW max \in Nat,
         NEW task \in BOOLEAN,
         \A p \in Paths : round'[p] = IF p \in S THEN n ELSE round[p],
         \A p \in Paths : limit'[p] = IF p \in S THEN max ELSE limit[p],
         \A p \in Paths : hasTask'[p] = IF p \in S THEN task ELSE hasTask[p],
         \A p \in Paths \ S : status'[p] \in Active => status[p] \in Active,
         paused' = paused \/ paused' = NoPause, paused' # NoPause => paused.at \notin S,
         RoundLimit <= max,
         \A q \in S : status'[q] \in Active /\ n <= RoundLimit => Sensible(q, hasTask')
  PROVE  Judged'
<1>1. LimitsOfActive'
  BY DEF Judged, LimitsOfActive
<1>2. PausedLate'
  BY DEF Judged, PausedLate, TypeInv, PauseAtPath
<1>3. TargetsAreJudged'
  BY DEF Judged, TargetsAreJudged, Sensible
<1>. QED  BY <1>1, <1>2, <1>3 DEF Judged

LEMMA ChatSendJudged ==
  ASSUME TypeInv, Shape, Judged, ChatSend
  PROVE  Judged'
<1>1. PICK T \in (SUBSET Agents) \ {{}}, task \in BOOLEAN :
        \E out \in [T -> Status] :
          /\ \A a \in T : out[a] \in Outcomes(~task, a)
          /\ Insert(status, Children(NoPath, T), out, 1, RoundLimit, task)
  BY DEF ChatSend
<1>. DEFINE S == Children(NoPath, T)
<1>2. PICK out \in [T -> Status] :
        /\ \A a \in T : out[a] \in Outcomes(~task, a)
        /\ Insert(status, S, out, 1, RoundLimit, task)
  BY <1>1
<1>3. S \in SUBSET Paths /\ \A q \in S : Target(q) \in T
  BY ChildFacts
<1>4. \A q \in S : Len(q) = 1
  BY DEF Children, NoPath
<1>. HIDE DEF S
<1>5. /\ \A p \in Paths : round'[p] = IF p \in S THEN 1 ELSE round[p]
      /\ \A p \in Paths : limit'[p] = IF p \in S THEN RoundLimit ELSE limit[p]
      /\ \A p \in Paths : hasTask'[p] = IF p \in S THEN task ELSE hasTask[p]
      /\ \A p \in Paths \ S : status'[p] \in Active => status[p] \in Active
      /\ \A q \in S : status'[q] = out[Target(q)]
  BY <1>2, <1>3 DEF Insert
<1>6. \A q \in S : status'[q] \in Active /\ 1 <= RoundLimit => Sensible(q, hasTask')
  <2>. SUFFICES ASSUME NEW q \in S, status'[q] \in Active PROVE Sensible(q, hasTask')
    OBVIOUS
  <2>1. out[Target(q)] \in Active /\ out[Target(q)] \in Outcomes(~task, Target(q))
    BY <1>2, <1>3, <1>5
  <2>2. task
    BY <2>1 DEF Outcomes, Active
  <2>3. q \in Paths /\ hasTask'[q] = task
    BY <1>3, <1>5
  <2>4. hasTask'[q]
    BY <2>2, <2>3, Zenon
  <2>5. ~(Len(q) > 1)
    BY <1>4
  <2>. QED  BY <2>4, <2>5, Zenon DEF Sensible
<1>7. paused' = paused /\ paused = NoPause
  BY DEF ChatSend, Shape, Tree, AskedFirst, PausedDone, TypeInv, PauseAtPath
<1>8. 1 \in Nat /\ RoundLimit \in Nat /\ RoundLimit <= RoundLimit
  BY ConstantsAssumption
<1>. QED  BY <1>3, <1>5, <1>6, <1>7, <1>8, InsertedJudged

LEMMA PauseAfterJudged ==
  ASSUME TypeInv, Judged, NEW p \in Paths, NEW T \in SUBSET Agents, NEW unknown \in BOOLEAN,
         NEW task \in BOOLEAN, PauseAfter(p, T, unknown, task), status[p] = "open",
         OverLimit(round[p] + 1, limit[p])
  PROVE  Judged'
<1>1. \A q \in Paths : status'[q] \in Active => status[q] \in Active
  BY DEF PauseAfter, CompletedRows, Active, TypeInv, RowType
<1>2. UNCHANGED <<round, limit, hasTask>>
  BY DEF PauseAfter
<1>3. LimitsOfActive' /\ TargetsAreJudged'
  BY <1>1, <1>2 DEF Judged, LimitsOfActive, TargetsAreJudged
<1>4. PausedLate'
  <2>1. CASE paused' = paused
    BY <1>2, <2>1 DEF Judged, PausedLate
  <2>2. CASE paused' # paused
    <3>1. paused'.at = p
      BY <2>2 DEF PauseAfter
    <3>2. RoundLimit <= limit[p] /\ limit[p] < round[p] + 1
      BY DEF Judged, LimitsOfActive, Active, OverLimit, TypeInv, RowType
    <3>3. round[p] \in Nat /\ limit[p] \in Nat /\ RoundLimit \in Nat
      BY ConstantsAssumption DEF TypeInv, RowType
    <3>. QED  BY <1>2, <3>1, <3>2, <3>3 DEF PausedLate
  <2>. QED  BY <2>1, <2>2
<1>. QED  BY <1>3, <1>4 DEF Judged

LEMMA RouteAfterJudged ==
  ASSUME TypeInv, Shape, Judged, NEW p \in Paths, NEW T \in SUBSET Agents,
         NEW unknown \in BOOLEAN, NEW task \in BOOLEAN, RouteAfter(p, T, unknown, task),
         status[p] = "open"
  PROVE  Judged'
<1>. DEFINE S == Children(p, T)
<1>1. PICK n \in Nat, max \in Nat : n = round[p] + 1 /\ max = limit[p]
  BY DEF TypeInv, RowType
<1>2. PICK out \in [T -> Status] : /\ \A a \in T : out[a] \in Outcomes(Refused(p, a, task), a)
                                   /\ Insert(CompletedRows(p), S, out, n, max, task)
  BY <1>1 DEF RouteAfter
<1>3. S \in SUBSET Paths /\ \A q \in S : Parent(q) = p /\ Target(q) \in T
  BY ChildFacts
<1>. HIDE DEF S
<1>4. /\ \A q \in Paths : round'[q] = IF q \in S THEN n ELSE round[q]
      /\ \A q \in Paths : limit'[q] = IF q \in S THEN max ELSE limit[q]
      /\ \A q \in Paths : hasTask'[q] = IF q \in S THEN task ELSE hasTask[q]
      /\ \A q \in S : status'[q] = out[Target(q)]
  BY <1>2, <1>3 DEF Insert
<1>5. \A q \in Paths \ S : status'[q] \in Active => status[q] \in Active
  BY <1>2 DEF Insert, CompletedRows, Active, TypeInv, RowType
<1>6. paused' = paused
  BY DEF RouteAfter
<1>7. paused # NoPause => paused.at \notin S
  <2>. SUFFICES ASSUME paused # NoPause, paused.at \in S PROVE FALSE
    OBVIOUS
  <2>1. paused.at \in Paths /\ Parent(paused.at) = p /\ status[paused.at] = "completed"
    BY <1>3 DEF Shape, Tree, PausedDone
  <2>. QED  BY <2>1 DEF Shape, Tree, BehindCompleted
<1>8. \A q \in S : status'[q] \in Active /\ n <= RoundLimit => Sensible(q, hasTask')
  <2>. SUFFICES ASSUME NEW q \in S, status'[q] \in Active PROVE Sensible(q, hasTask')
    OBVIOUS
  <2>1. out[Target(q)] \in Active /\ out[Target(q)] \in Outcomes(Refused(p, Target(q), task), Target(q))
    BY <1>2, <1>3, <1>4
  <2>2. task /\ Target(q) # Target(p)
    BY <2>1 DEF Outcomes, Active, Refused
  <2>. QED  BY <1>3, <1>4, <2>2 DEF Sensible
<1>9. RoundLimit <= max
  BY <1>1 DEF Judged, LimitsOfActive, Active
<1>. QED  BY <1>3, <1>4, <1>5, <1>6, <1>7, <1>8, <1>9, InsertedJudged

\* The first limit is used up, so that nothing is promised of what follows.
LEMMA HandleContinueJudged ==
  ASSUME TypeInv, Judged, HandleContinue
  PROVE  Judged'
<1>1. CASE ~MayDecide
  BY <1>1, KeptJudged DEF HandleContinue
<1>2. CASE MayDecide
  <2>1. /\ paused # NoPause /\ paused.at \in Paths /\ paused.targets \in SUBSET Agents
        /\ paused.hasTask \in BOOLEAN /\ round[paused.at] \in Nat /\ paused.limit \in Nat
        /\ RoundLimit \in Nat /\ RoundLimit <= round[paused.at]
    BY <1>2, ConstantsAssumption
       DEF MayDecide, TypeInv, PauseAtPath, PauseType, Pauses, RowType, Judged, PausedLate
  <2>2. PICK p \in Paths, T \in SUBSET Agents, task \in BOOLEAN, n \in Nat, max \in Nat :
          /\ p = paused.at /\ T = paused.targets /\ task = paused.hasTask
          /\ n = round[p] + 1 /\ max = paused.limit + RoundLimit
    BY <2>1
  <2>. DEFINE S == Children(p, T)
  <2>3. PICK out \in [T -> Status] : Insert(status, S, out, n, max, task)
    BY <1>2, <2>2 DEF HandleContinue
  <2>4. S \in SUBSET Paths
    BY ChildFacts
  <2>. HIDE DEF S
  <2>5. /\ \A q \in Paths : round'[q] = IF q \in S THEN n ELSE round[q]
        /\ \A q \in Paths : limit'[q] = IF q \in S THEN max ELSE limit[q]
        /\ \A q \in Paths : hasTask'[q] = IF q \in S THEN task ELSE hasTask[q]
        /\ \A q \in Paths \ S : status'[q] \in Active => status[q] \in Active
    BY <2>3 DEF Insert
  <2>6. paused' = NoPause
    BY <1>2 DEF HandleContinue, PauseAfterContinue
  <2>7. ~(n <= RoundLimit) /\ RoundLimit <= max
    BY <2>1, <2>2
  <2>. QED  BY <2>4, <2>5, <2>6, <2>7, InsertedJudged
<1>. QED  BY <1>1, <1>2

LEMMA FailKeepsJudged ==
  ASSUME TypeInv, Judged, NEW S, FailRequests(S), UNCHANGED <<round, limit, hasTask, paused>>
  PROVE  Judged'
<1>1. \A p \in Paths : status'[p] \in Active => status[p] \in Active
  BY DEF FailRequests, Active
<1>. QED  BY <1>1, KeptJudged

LEMMA NextJudged == TypeInv /\ Shape /\ Judged /\ [Next]_vars => Judged'
<1>. SUFFICES ASSUME TypeInv, Shape, Judged, [Next]_vars PROVE Judged'
  OBVIOUS
<1>1. CASE ChatSend
  BY <1>1, ChatSendJudged
<1>2. ASSUME NEW p \in Paths, Approve(p) PROVE Judged'
  <2>1. \A q \in Paths : status'[q] \in Active => status[q] \in Active
    BY <1>2 DEF Approve, Active, TypeInv, RowType
  <2>. QED  BY <1>2, <2>1, KeptJudged DEF Approve
<1>3. ASSUME NEW p \in Paths, Reject(p) \/ ResultFailed(p) PROVE Judged'
  BY <1>3, FailKeepsJudged DEF Reject, ResultFailed
<1>4. ASSUME NEW p \in Paths, NEW T \in SUBSET Agents, NEW unknown \in BOOLEAN,
             NEW task \in BOOLEAN, ResultOk(p, T, unknown, task)
      PROVE  Judged'
  BY <1>4, PauseAfterJudged, RouteAfterJudged DEF ResultOk
<1>5. CASE HandleEnd
  BY <1>5, KeptJudged DEF HandleEnd, rows
<1>6. CASE HandleContinue
  BY <1>6, HandleContinueJudged
<1>7. CASE \/ \E kind \in {"continue", "end"} : Decide(kind)
           \/ ReceiveNews \/ Disconnect \/ Resume \/ \E a \in Agents : Join(a)
           \/ UNCHANGED vars
  BY <1>7, KeptJudged DEF Decide, ReceiveNews, Disconnect, Resume, Join, vars, rows
<1>8. CASE (\E a \in Agents : Leave(a)) \/ Restart
  BY <1>8, FailKeepsJudged DEF Leave, Restart
<1>. QED  BY <1>1, <1>2, <1>3, <1>4, <1>5, <1>6, <1>7, <1>8 DEF Next

LEMMA InitJudged == Init => Judged
  BY DEF Init, Judged, LimitsOfActive, PausedLate, TargetsAreJudged, Active

\* TargetsAreJudged: completeAndRoute and handleAgentResult (server.ts) hold the
\* empty task and the Agent's own name off for every request up to the limit,
\* also when branches pause, continue and end beside one another.
THEOREM JudgedTargets == Spec => []TargetsAreJudged
<1>1. Judged => TargetsAreJudged
  BY DEF Judged
<1>. QED  BY <1>1, InitType, NextType, InitShape, NextShape, InitJudged, NextJudged, PTL DEF Spec

------------------------------------------------------------------------------
(* The panel *)

\* What the panel shows when everything on its way has arrived
Shows(msg) == IF msg.type = "paused" THEN msg.at ELSE NoPath
AtLast == IF news = <<>> THEN panel ELSE Shows(news[Len(news)])

PanelInv ==
  /\ ~connected => news = <<>>
  /\ connected /\ joined[Initiator] => AtLast = paused.at

\* The session is told of the chain that is paused now.
LEMMA TellPanel ==
  ASSUME TypeInv, PanelInv, NEW msg \in News, Tell(msg), Shows(msg) = paused'.at,
         UNCHANGED <<connected, panel>>
  PROVE  PanelInv'
<1>1. CASE connected
  <2>1. news' = Append(news, msg) /\ news \in Seq(News)
    BY <1>1 DEF Tell, TypeInv, NewsType
  <2>2. news' # <<>> /\ news'[Len(news')] = msg
    BY <2>1
  <2>. QED  BY <1>1, <2>2 DEF PanelInv, AtLast
<1>2. CASE ~connected
  BY <1>2 DEF Tell, PanelInv
<1>. QED  BY <1>1, <1>2

LEMMA KeptPanel ==
  ASSUME PanelInv, UNCHANGED <<connected, panel, news, paused>>, joined'[Initiator] => joined[Initiator]
  PROVE  PanelInv'
  BY DEF PanelInv, AtLast

LEMMA NextPanel == TypeInv /\ PanelInv /\ [Next]_vars => PanelInv'
<1>. SUFFICES ASSUME TypeInv, PanelInv, [Next]_vars PROVE PanelInv'
  OBVIOUS
<1>1. CASE ChatSend
  BY <1>1, KeptPanel DEF ChatSend, ui
<1>2. ASSUME NEW p \in Paths, Approve(p) \/ Reject(p) \/ ResultFailed(p) PROVE PanelInv'
  BY <1>2, KeptPanel DEF Approve, Reject, ResultFailed, ui
<1>3. ASSUME NEW p \in Paths, NEW T \in SUBSET Agents, NEW unknown \in BOOLEAN,
             NEW task \in BOOLEAN, ResultOk(p, T, unknown, task)
      PROVE  PanelInv'
  <2>1. UNCHANGED <<joined, connected, panel>>
    BY <1>3 DEF ResultOk
  <2>2. CASE PauseAfter(p, T, unknown, task) /\ paused = NoPause
    <3>. DEFINE msg == [type |-> "paused", at |-> p]
    <3>1. Tell(msg) /\ paused'.at = p
      BY <2>2 DEF PauseAfter
    <3>2. msg \in News /\ Shows(msg) = p
      BY DEF News, Shows
    <3>. HIDE DEF msg
    <3>. QED  BY <2>1, <3>1, <3>2, TellPanel
  <2>3. CASE RouteAfter(p, T, unknown, task) \/ (PauseAfter(p, T, unknown, task) /\ paused # NoPause)
    <3>1. UNCHANGED <<news, paused>>
      BY <2>3 DEF RouteAfter, PauseAfter
    <3>. QED  BY <2>1, <3>1, KeptPanel
  <2>. QED  BY <1>3, <2>2, <2>3 DEF ResultOk
<1>4. CASE HandleEnd \/ HandleContinue
  <2>1. UNCHANGED <<joined, connected, panel>>
    BY <1>4 DEF HandleEnd, HandleContinue
  <2>2. CASE ~MayDecide
    BY <1>4, <2>1, <2>2, KeptPanel DEF HandleEnd, HandleContinue
  <2>3. CASE MayDecide
    <3>1. paused.at \in Paths
      BY <2>3 DEF MayDecide, TypeInv, PauseAtPath
    <3>. DEFINE msg == [type |-> "resolved", at |-> paused.at]
    <3>2. Tell(msg) /\ paused' = NoPause
      BY <1>4, <2>3 DEF HandleEnd, HandleContinue, PauseAfterContinue
    <3>3. msg \in News /\ Shows(msg) = NoPath
      BY <3>1 DEF News, Shows
    <3>4. paused'.at = NoPath
      BY <3>2 DEF NoPause
    <3>. HIDE DEF msg
    <3>. QED  BY <2>1, <3>2, <3>3, <3>4, TellPanel
  <2>. QED  BY <2>2, <2>3
<1>5. ASSUME NEW kind, Decide(kind) PROVE PanelInv'
  BY <1>5, KeptPanel DEF Decide
<1>6. CASE ReceiveNews
  <2>1. /\ connected /\ news # <<>> /\ news' = Tail(news) /\ panel' = Shows(Head(news))
        /\ UNCHANGED <<connected, joined, paused>>
    BY <1>6 DEF ReceiveNews, Shows
  <2>2. news \in Seq(News)
    BY DEF TypeInv, NewsType
  <2>3. CASE Len(news) = 1
    <3>1. news' = <<>> /\ Head(news) = news[Len(news)]
      BY <2>1, <2>2, <2>3
    <3>. QED  BY <2>1, <3>1 DEF PanelInv, AtLast
  <2>4. CASE Len(news) # 1
    <3>. PICK q \in Seq(News) : q = news
      BY <2>2
    <3>0. q # <<>> /\ news' = Tail(q) /\ Len(q) # 1
      BY <2>1, <2>4
    <3>1. Len(q) \in Nat /\ Len(q) > 1 /\ Len(Tail(q)) = Len(q) - 1
      <4>1. Len(q) \in Nat /\ Len(q) # 0
        BY <3>0
      <4>2. Len(Tail(q)) = Len(q) - 1
        BY <3>0
      <4>. QED  BY <3>0, <4>1, <4>2
    <3>2. Tail(q)[Len(q) - 1] = q[Len(q)]
      <4>1. \A i \in 1..(Len(q) - 1) : Tail(q)[i] = q[i + 1]
        OBVIOUS
      <4>2. Len(q) - 1 \in 1..(Len(q) - 1) /\ (Len(q) - 1) + 1 = Len(q)
        BY <3>1
      <4>. QED  BY <4>1, <4>2
    <3>3. news' # <<>> /\ news'[Len(news')] = news[Len(news)]
      BY <3>0, <3>1, <3>2
    <3>. QED  BY <2>1, <3>3 DEF PanelInv, AtLast
  <2>. QED  BY <2>3, <2>4
<1>7. CASE Disconnect \/ Restart
  BY <1>7 DEF Disconnect, Restart, PanelInv
<1>8. CASE Resume
  BY <1>8 DEF Resume, PanelInv, AtLast
<1>9. ASSUME NEW a \in Agents, Leave(a) PROVE PanelInv'
  <2>1. joined' = [joined EXCEPT ![a] = FALSE] /\ paused' = paused /\ joined \in [Agents -> BOOLEAN]
    BY <1>9 DEF Leave, TypeInv, SessionType
  <2>2. CASE a = Initiator
    BY <1>9, <2>1, <2>2, ConstantsAssumption DEF Leave, PanelInv
  <2>3. CASE a # Initiator
    BY <1>9, <2>1, <2>3, KeptPanel, ConstantsAssumption DEF Leave, ui
  <2>. QED  BY <2>2, <2>3
<1>10. ASSUME NEW a \in Agents, Join(a) PROVE PanelInv'
  <2>1. CASE a = Initiator
    BY <1>10, <2>1 DEF Join, PanelInv, AtLast
  <2>2. CASE a # Initiator
    <3>1. joined'[Initiator] = joined[Initiator]
      BY <1>10, <2>2, ConstantsAssumption DEF Join, TypeInv, SessionType
    <3>. QED  BY <1>10, <2>2, <3>1, KeptPanel DEF Join, ui
  <2>. QED  BY <2>1, <2>2
<1>11. CASE UNCHANGED vars
  BY <1>11, KeptPanel DEF vars, ui
<1>. QED
  BY <1>1, <1>2, <1>3, <1>4, <1>5, <1>6, <1>7, <1>8, <1>9, <1>10, <1>11 DEF Next

LEMMA InitPanel == Init => PanelInv
  BY DEF Init, PanelInv, AtLast, NoPause

\* PanelShowsPause: whatever chain.paused and chain.resolved overtakes, is lost
\* with the connection or comes with a snapshot (index.ts, handleSnapshot), the
\* initiator decides about the chain that is paused.
THEOREM PanelRight == Spec => []PanelShowsPause
<1>1. PanelInv => PanelShowsPause
  BY DEF PanelInv, AtLast, PanelShowsPause
<1>. QED  BY <1>1, InitType, NextType, InitPanel, NextPanel, PTL DEF Spec

------------------------------------------------------------------------------
(* AgentChains implements RequestPromise *)

\* What a step may do to the statuses: approve a request, end some, let the
\* message m ask the requests S, or answer p with a message that asks S.
ApproveRow(p) == status[p] = "waiting" /\ status' = [status EXCEPT ![p] = "open"]
EndRows(S) ==
  /\ \A p \in S : status[p] \in Active
  /\ \A p \in Paths : status'[p] = IF p \in S THEN "failed" ELSE status[p]
NewRows(m, S) ==
  /\ \A p \in Paths : Parent(p) = m => status[p] = "none"
  /\ \A p \in S : Parent(p) = m /\ status'[p] \in NewStatus
AskRows(m, S) == NewRows(m, S) /\ \A p \in Paths \ S : status'[p] = status[p]
ReplyRows(p, S) ==
  /\ status[p] = "open" /\ status'[p] = "completed"
  /\ NewRows(p, S)
  /\ \A q \in Paths \ (S \cup {p}) : status'[q] = status[q]

RowStep ==
  \/ UNCHANGED status
  \/ \E p \in Paths : ApproveRow(p)
  \/ \E S \in SUBSET Paths : EndRows(S)
  \/ \E m \in Paths \cup {NoPath}, S \in SUBSET Paths : AskRows(m, S)
  \/ \E p \in Paths, S \in SUBSET Paths : ReplyRows(p, S)

LEMMA ChatSendRows == ASSUME TypeInv, Shape, ChatSend PROVE RowStep
<1>1. PICK T \in (SUBSET Agents) \ {{}}, task \in BOOLEAN :
        \E out \in [T -> Status] :
          /\ \A a \in T : out[a] \in Outcomes(~task, a)
          /\ Insert(status, Children(NoPath, T), out, 1, RoundLimit, task)
  BY DEF ChatSend
<1>2. PICK out \in [T -> Status] :
        /\ \A a \in T : out[a] \in Outcomes(~task, a)
        /\ Insert(status, Children(NoPath, T), out, 1, RoundLimit, task)
  BY <1>1
<1>. DEFINE S == Children(NoPath, T)
<1>3. S \in SUBSET Paths /\ \A q \in S : Parent(q) = NoPath /\ Target(q) \in T
  BY ChildFacts
<1>4. \A a \in T : out[a] \in NewStatus
  BY <1>2 DEF Outcomes, NewStatus
<1>5. \A q \in Paths : status[q] = "none"
  BY DEF ChatSend, Shape, Tree, AskedFirst
<1>6. \A q \in Paths : status'[q] = IF q \in S THEN out[Target(q)] ELSE status[q]
  BY <1>2 DEF Insert
<1>. HIDE DEF S
<1>7. AskRows(NoPath, S)
  BY <1>3, <1>4, <1>5, <1>6 DEF AskRows, NewRows
<1>. QED  BY <1>3, <1>7 DEF RowStep

LEMMA ResultRows ==
  ASSUME TypeInv, Shape, NEW p \in Paths, NEW T \in SUBSET Agents, NEW unknown \in BOOLEAN,
         NEW task \in BOOLEAN, ResultOk(p, T, unknown, task)
  PROVE  RowStep
<1>. DEFINE S == Children(p, T)
<1>1. status[p] = "open" /\ status \in [Paths -> Status]
  BY DEF ResultOk, TypeInv, RowType
<1>2. \A q \in Paths : Parent(q) = p => status[q] = "none"
  BY <1>1 DEF Shape, Tree, BehindCompleted
<1>3. CASE PauseAfter(p, T, unknown, task)
  <2>1. CASE paused = NoPause
    <3>1. status' = [status EXCEPT ![p] = "completed"]
      BY <1>3, <2>1 DEF PauseAfter, CompletedRows
    <3>2. ReplyRows(p, {})
      BY <1>1, <1>2, <3>1 DEF ReplyRows, NewRows
    <3>. QED  BY <3>2 DEF RowStep
  <2>2. CASE paused # NoPause
    BY <1>3, <2>2 DEF PauseAfter, RowStep
  <2>. QED  BY <2>1, <2>2
<1>4. CASE RouteAfter(p, T, unknown, task)
  <2>1. PICK out \in [T -> Status] :
          /\ \A a \in T : out[a] \in Outcomes(Refused(p, a, task), a)
          /\ Insert(CompletedRows(p), S, out, round[p] + 1, limit[p], task)
    BY <1>4 DEF RouteAfter
  <2>2. S \in SUBSET Paths /\ \A q \in S : Parent(q) = p /\ Target(q) \in T
    BY ChildFacts
  <2>3. p \notin S
    BY <2>2, NotOwnParent
  <2>4. \A a \in T : out[a] \in NewStatus
    BY <2>1 DEF Outcomes, NewStatus
  <2>. HIDE DEF S
  <2>5. \A q \in Paths : status'[q] = IF q \in S THEN out[Target(q)]
                                      ELSE IF q = p THEN "completed" ELSE status[q]
    BY <1>1, <2>1 DEF Insert, CompletedRows
  <2>6. ReplyRows(p, S)
    BY <1>1, <1>2, <2>2, <2>3, <2>4, <2>5 DEF ReplyRows, NewRows
  <2>. QED  BY <2>2, <2>6 DEF RowStep
<1>. QED  BY <1>3, <1>4 DEF ResultOk

LEMMA ContinueRows == ASSUME TypeInv, Shape, HandleContinue PROVE RowStep
<1>1. CASE ~MayDecide
  BY <1>1 DEF HandleContinue, RowStep
<1>2. CASE MayDecide
  <2>1. PICK p \in Paths, T \in SUBSET Agents, task \in BOOLEAN, n \in Nat, max \in Nat :
          /\ p = paused.at /\ T = paused.targets
          /\ task = paused.hasTask /\ n = round[p] + 1 /\ max = paused.limit + RoundLimit
    <3>1. /\ paused.at \in Paths /\ paused.targets \in SUBSET Agents
          /\ paused.hasTask \in BOOLEAN /\ paused.limit \in Nat
      BY <1>2 DEF MayDecide, TypeInv, PauseAtPath, PauseType, Pauses
    <3>2. round[paused.at] + 1 \in Nat /\ paused.limit + RoundLimit \in Nat
      BY <3>1, ConstantsAssumption DEF TypeInv, RowType
    <3>. QED  BY <3>1, <3>2
  <2>. DEFINE S == Children(p, T)
  <2>2. PICK out \in [T -> Status] :
          /\ \A a \in T : out[a] \in Outcomes(a = Target(p) /\ client[a] = paused.client, a)
          /\ Insert(status, S, out, n, max, task)
    BY <1>2, <2>1 DEF HandleContinue
  <2>3. S \in SUBSET Paths /\ \A q \in S : Parent(q) = p /\ Target(q) \in T
    BY ChildFacts
  <2>4. \A a \in T : out[a] \in NewStatus
    BY <2>2 DEF Outcomes, NewStatus
  <2>5. \A q \in Paths : Parent(q) = p => status[q] = "none"
    BY <1>2, <2>1 DEF MayDecide, Shape, Tree, NothingBehind
  <2>6. \A q \in Paths : status'[q] = IF q \in S THEN out[Target(q)] ELSE status[q]
    BY <2>2 DEF Insert
  <2>. HIDE DEF S
  <2>7. AskRows(p, S)
    BY <2>3, <2>4, <2>5, <2>6 DEF AskRows, NewRows
  <2>. QED  BY <2>3, <2>7 DEF RowStep
<1>. QED  BY <1>1, <1>2

LEMMA EndingRows ==
  ASSUME NEW S \in SUBSET Paths, \A p \in S : status[p] \in Active, FailRequests(S)
  PROVE  RowStep
<1>1. EndRows(S)
  BY DEF FailRequests, EndRows
<1>. QED  BY <1>1 DEF RowStep

LEMMA NextRowStep == TypeInv /\ Shape /\ [Next]_vars => RowStep
<1>. SUFFICES ASSUME TypeInv, Shape, [Next]_vars PROVE RowStep
  OBVIOUS
<1>1. CASE ChatSend
  BY <1>1, ChatSendRows
<1>2. CASE \E p \in Paths : Approve(p)
  BY <1>2 DEF Approve, ApproveRow, RowStep
<1>3. ASSUME NEW p \in Paths, Reject(p) \/ ResultFailed(p) PROVE RowStep
  <2>1. FailRequests({p}) /\ \A q \in {p} : status[q] \in Active
    BY <1>3 DEF Reject, ResultFailed, Active
  <2>. QED  BY <2>1, EndingRows
<1>4. ASSUME NEW p \in Paths, NEW T \in SUBSET Agents, NEW unknown \in BOOLEAN,
             NEW task \in BOOLEAN, ResultOk(p, T, unknown, task)
      PROVE  RowStep
  BY <1>4, ResultRows
<1>5. CASE HandleContinue
  BY <1>5, ContinueRows
<1>6. CASE \/ HandleEnd
           \/ \E kind \in {"continue", "end"} : Decide(kind)
           \/ ReceiveNews \/ Disconnect \/ Resume \/ \E a \in Agents : Join(a)
           \/ UNCHANGED vars
  BY <1>6 DEF HandleEnd, Decide, ReceiveNews, Disconnect, Resume, Join, vars, rows, RowStep
<1>7. ASSUME NEW a \in Agents, Leave(a) PROVE RowStep
  <2>. DEFINE S == {p \in Paths : Target(p) = a /\ status[p] \in Active}
  <2>1. FailRequests(S) /\ S \in SUBSET Paths /\ \A q \in S : status[q] \in Active
    BY <1>7 DEF Leave
  <2>. HIDE DEF S
  <2>. QED  BY <2>1, EndingRows
<1>8. CASE Restart
  <2>. DEFINE S == {p \in Paths : status[p] \in Active}
  <2>1. FailRequests(S) /\ S \in SUBSET Paths /\ \A q \in S : status[q] \in Active
    BY <1>8 DEF Restart
  <2>. HIDE DEF S
  <2>. QED  BY <2>1, EndingRows
<1>. QED  BY <1>1, <1>2, <1>3, <1>4, <1>5, <1>6, <1>7, <1>8 DEF Next

\* A request is the message that asks and its target.
Pairs == Askers \X Agents
Of(r) == Append(r[1], r[2])

LEMMA PathOfPair ==
  /\ \A r \in Pairs : Of(r) \in Paths /\ Parent(Of(r)) = r[1] /\ Target(Of(r)) = r[2]
  /\ \A p \in Paths : /\ <<Parent(p), Target(p)>> \in Pairs
                      /\ Of(<<Parent(p), Target(p)>>) = p
<1>1. ASSUME NEW p \in Paths, NEW a \in Agents
      PROVE  /\ Append(Parent(p), a) \in Paths
             /\ Parent(Append(Parent(p), a)) = Parent(p)
             /\ Target(Append(Parent(p), a)) = a
  <2>1. p \in Seq(Agents) /\ Len(p) \in Nat \ {0} /\ Len(p) <= Depth /\ Depth \in Nat
    BY PathIsSequence, ConstantsAssumption
  <2>. DEFINE m == Len(p) - 1
              q == SubSeq(p, 1, m)
              c == Append(q, a)
  <2>2. m \in Nat /\ Len(p) = m + 1
    BY <2>1
  <2>. HIDE DEF m
  <2>3. q \in Seq(Agents) /\ Len(q) = m
    BY <2>1, <2>2
  <2>. HIDE DEF q
  <2>4. c \in Seq(Agents) /\ Len(c) = m + 1 /\ c[m + 1] = a /\ SubSeq(c, 1, m) = q
    BY <2>2, <2>3
  <2>. HIDE DEF c
  <2>5. c \in [1..Len(p) -> Agents]
    BY <2>2, <2>4
  <2>6. c \in Paths
    BY <2>1, <2>5 DEF Paths
  <2>7. Parent(p) = q /\ Parent(c) = q /\ Target(c) = a
    BY <2>2, <2>4 DEF Parent, Target, m, q
  <2>. QED  BY <2>6, <2>7 DEF c
<1>2. ASSUME NEW p \in Paths PROVE Append(Parent(p), Target(p)) = p
  <2>1. p \in Seq(Agents) /\ Len(p) \in Nat \ {0}
    BY PathIsSequence
  <2>. DEFINE m == Len(p) - 1
              q == SubSeq(p, 1, m)
  <2>2. m \in Nat /\ Len(p) = m + 1
    BY <2>1
  <2>. HIDE DEF m
  <2>3. q \in Seq(Agents) /\ Len(q) = m /\ \A i \in 1..m : q[i] = p[i]
    BY <2>1, <2>2
  <2>. HIDE DEF q
  <2>4. p[m + 1] \in Agents
    BY <2>1, <2>2
  <2>5. /\ Append(q, p[m + 1]) \in Seq(Agents) /\ Len(Append(q, p[m + 1])) = Len(p)
        /\ \A i \in 1..Len(p) : Append(q, p[m + 1])[i] = p[i]
    BY <2>2, <2>3, <2>4
  <2>6. Append(q, p[m + 1]) = p
    BY <2>1, <2>5
  <2>7. Parent(p) = q /\ Target(p) = p[m + 1]
    BY <2>2 DEF Parent, Target, m, q
  <2>. QED  BY <2>6, <2>7
<1>3. ASSUME NEW r \in Pairs
      PROVE  Of(r) \in Paths /\ Parent(Of(r)) = r[1] /\ Target(Of(r)) = r[2]
  <2>1. r[1] \in Askers /\ r[2] \in Agents
    BY DEF Pairs
  <2>2. PICK p \in Paths : r[1] = Parent(p)
    BY <2>1 DEF Askers
  <2>. QED  BY <1>1, <2>1, <2>2 DEF Of
<1>4. ASSUME NEW p \in Paths
      PROVE  <<Parent(p), Target(p)>> \in Pairs /\ Of(<<Parent(p), Target(p)>>) = p
  <2>1. Parent(p) \in Askers /\ Target(p) \in Agents
    BY PathIsSequence DEF Askers
  <2>. QED  BY <1>2, <2>1 DEF Pairs, Of
<1>. QED  BY <1>3, <1>4
LEMMA PhaseOfRow ==
  ASSUME NEW st \in Status
  PROVE  /\ Phase(st) = "unasked"  <=> st = "none"
         /\ Phase(st) = "waiting"  <=> st = "waiting"
         /\ Phase(st) = "open"     <=> st = "open"
         /\ Phase(st) = "answered" <=> st = "completed"
         /\ Phase(st) = "refused"  <=> st = "failed"
  BY DEF Phase, Status, Active

Phases == [r \in Pairs |-> Phase(status[Of(r)])]
Published == [r \in Pairs |-> IF status[Of(r)] = "completed" THEN 1 ELSE 0]

PromiseStep == [Promise!Next]_(Promise!vars)

\* The step of RequestPromise is seen through what it does to each request.
LEMMA PhaseStep ==
  ASSUME TypeInv, TypeInv', RowStep
  PROVE  PromiseStep
<1>. DEFINE phase == Phases
            published == Published
<1>1. /\ Promise!Requests = Pairs
      /\ Promise!vars = <<phase, published>> /\ (Promise!vars)' = <<phase', published'>>
  BY DEF Promise!Requests, Promise!vars, Pairs, Phases, Published, Of
<1>2. /\ status \in [Paths -> Status] /\ status' \in [Paths -> Status]
  BY DEF TypeInv, RowType
<1>3. /\ \A r \in Pairs : phase[r] = Phase(status[Of(r)]) /\ phase'[r] = Phase(status'[Of(r)])
      /\ \A r \in Pairs : published[r] = IF status[Of(r)] = "completed" THEN 1 ELSE 0
      /\ \A r \in Pairs : published'[r] = IF status'[Of(r)] = "completed" THEN 1 ELSE 0
      /\ phase = [r \in Pairs |-> phase[r]] /\ phase' = [r \in Pairs |-> phase'[r]]
      /\ published = [r \in Pairs |-> published[r]]
      /\ published' = [r \in Pairs |-> published'[r]]
  BY DEF Phases, Published
<1>4. \A r \in Pairs : Of(r) \in Paths /\ Parent(Of(r)) = r[1] /\ Target(Of(r)) = r[2]
  BY PathOfPair
<1>5. \A r \in Pairs, s \in Pairs : Of(r) = Of(s) => r = s
  BY <1>4 DEF Pairs
<1>6. \A m \in Askers, a \in Agents : <<m, a>> \in Pairs
  BY DEF Pairs
<1>7. CASE UNCHANGED status
  <2>1. phase' = phase /\ published' = published
    BY <1>7 DEF Phases, Published
  <2>. QED  BY <1>1, <2>1 DEF PromiseStep
<1>8. ASSUME NEW p \in Paths, ApproveRow(p) PROVE Promise!Next
  <2>1. PICK r \in Pairs : Of(r) = p
    BY PathOfPair
  <2>2. phase[r] = "waiting" /\ phase'[r] = "open"
    BY <1>2, <1>3, <1>8, <2>1 DEF ApproveRow, Phase
  <2>3. \A s \in Pairs : s # r => phase'[s] = phase[s]
    BY <1>2, <1>3, <1>4, <1>5, <1>8, <2>1 DEF ApproveRow
  <2>4. \A s \in Pairs : published'[s] = published[s]
    BY <1>2, <1>3, <1>4, <1>8, <2>1 DEF ApproveRow
  <2>5. published' = published
    BY <1>3, <2>4
  <2>6. phase' = [phase EXCEPT ![r] = "open"]
    BY <1>3, <2>2, <2>3
  <2>7. Promise!Approve(r)
    BY <2>2, <2>5, <2>6 DEF Promise!Approve, Phases, Published, Pairs, Of
  <2>. QED  BY <1>1, <2>7 DEF Promise!Next
<1>9. ASSUME NEW S \in SUBSET Paths, EndRows(S) PROVE Promise!Next
  <2>. DEFINE R == {r \in Pairs : Of(r) \in S}
  <2>1. \A r \in R : phase[r] \in {"waiting", "open"} /\ phase'[r] = "refused"
    BY <1>3, <1>4, <1>9 DEF EndRows, Phase, Active
  <2>2. \A r \in Pairs \ R : phase'[r] = phase[r]
    BY <1>3, <1>4, <1>9 DEF EndRows
  <2>3. \A r \in Pairs : published'[r] = published[r]
    BY <1>3, <1>4, <1>9 DEF EndRows, Active
  <2>4. published' = published
    BY <1>3, <2>3
  <2>5. R \in SUBSET Pairs
    OBVIOUS
  <2>. HIDE DEF R
  <2>6. phase' = [r \in Pairs |-> IF r \in R THEN "refused" ELSE phase[r]]
    BY <1>3, <2>1, <2>2, <2>5
  <2>7. Promise!Refuse(R)
    BY <1>1, <2>1, <2>4, <2>6 DEF Promise!Refuse, Phases, Published, Pairs, Of
  <2>. QED  BY <1>1, <2>5, <2>7 DEF Promise!Next
<1>10. ASSUME NEW m \in Askers, NEW S \in SUBSET Paths, NewRows(m, S),
              \A p \in Paths \ S : Parent(p) = m => status'[p] = status[p]
       PROVE  /\ \A a \in Agents : phase[<<m, a>>] = "unasked"
              /\ \A a \in Agents : phase'[<<m, a>>] \in {"unasked", "waiting", "open", "refused"}
              /\ \A r \in Pairs : r[1] # m => Of(r) \notin S
              /\ \A p \in S : status[p] = "none" /\ status'[p] # "completed"
  <2>1. ASSUME NEW a \in Agents
        PROVE  /\ phase[<<m, a>>] = "unasked"
               /\ phase'[<<m, a>>] \in {"unasked", "waiting", "open", "refused"}
    <3>1. PICK p \in Paths : p = Of(<<m, a>>) /\ Parent(p) = m
      BY <1>4, <1>6
    <3>2. status[p] = "none" /\ status'[p] \in NewStatus \cup {"none"}
      BY <1>10, <3>1 DEF NewRows
    <3>3. phase[<<m, a>>] = Phase(status[p]) /\ phase'[<<m, a>>] = Phase(status'[p])
      BY <1>3, <1>6, <3>1
    <3>. QED  BY <3>2, <3>3 DEF Phase, NewStatus
  <2>2. \A r \in Pairs : r[1] # m => Of(r) \notin S
    BY <1>4, <1>10 DEF NewRows
  <2>3. \A p \in S : status[p] = "none" /\ status'[p] # "completed"
    BY <1>10 DEF NewRows, NewStatus
  <2>. QED  BY <2>1, <2>2, <2>3
<1>11. ASSUME NEW m \in Paths \cup {NoPath}, NEW S \in SUBSET Paths, AskRows(m, S)
       PROVE  PromiseStep
  <2>1. CASE S = {}
    <3>1. UNCHANGED status
      BY <1>2, <1>11, <2>1 DEF AskRows
    <3>. QED  BY <1>7, <3>1
  <2>2. CASE S # {}
    <3>1. m \in Askers
      BY <1>11, <2>2 DEF AskRows, NewRows, Askers
    <3>. DEFINE choice == [a \in Agents |-> phase'[<<m, a>>]]
    <3>2. /\ \A a \in Agents : phase[<<m, a>>] = "unasked"
          /\ \A a \in Agents : phase'[<<m, a>>] \in {"unasked", "waiting", "open", "refused"}
          /\ \A r \in Pairs : r[1] # m => Of(r) \notin S
          /\ \A p \in S : status[p] = "none" /\ status'[p] # "completed"
      BY <1>10, <1>11, <3>1 DEF AskRows
    <3>3. choice \in [Agents -> {"unasked", "waiting", "open", "refused"}]
      BY <3>2
    <3>4. \A r \in Pairs : phase'[r] = IF r[1] = m THEN choice[r[2]] ELSE phase[r]
      <4>1. \A r \in Pairs : r[1] # m => phase'[r] = phase[r]
        BY <1>3, <1>4, <1>11, <3>2 DEF AskRows
      <4>2. \A r \in Pairs : r[1] = m => r = <<m, r[2]>> /\ r[2] \in Agents
        BY DEF Pairs
      <4>. QED  BY <4>1, <4>2
    <3>5. \A r \in Pairs : published'[r] = published[r]
      BY <1>3, <1>4, <1>11, <3>2 DEF AskRows
    <3>6. published' = published
      BY <1>3, <3>5
    <3>. HIDE DEF choice
    <3>7. phase' = [r \in Pairs |-> IF r[1] = m THEN choice[r[2]] ELSE phase[r]]
      BY <1>3, <3>4
    <3>8. Promise!Ask(m)
      BY <1>1, <3>2, <3>3, <3>6, <3>7 DEF Promise!Ask, Phases, Published, Pairs, Of
    <3>. QED  BY <3>1, <3>8 DEF Promise!Next, PromiseStep
  <2>. QED  BY <2>1, <2>2
<1>12. ASSUME NEW p \in Paths, NEW S \in SUBSET Paths, ReplyRows(p, S)
       PROVE  Promise!Next
  <2>1. PICK r \in Pairs : Of(r) = p
    BY PathOfPair
  <2>2. status[p] = "open" /\ status'[p] = "completed" /\ p \notin S
    BY <1>12, NotOwnParent DEF ReplyRows, NewRows
  <2>3. phase[r] = "open" /\ phase'[r] = "answered" /\ published[r] = 0 /\ published'[r] = 1
    BY <1>3, <2>1, <2>2 DEF Phase
  <2>4. \A s \in Pairs : s # r /\ Of(s) \notin S =>
          phase'[s] = phase[s] /\ published'[s] = published[s]
    BY <1>3, <1>4, <1>5, <1>12, <2>1 DEF ReplyRows
  <2>5. \A s \in Pairs : Of(s) \in S => published'[s] = published[s]
    BY <1>3, <1>12 DEF ReplyRows, NewRows, NewStatus
  <2>6. \A s \in Pairs : published'[s] = IF s = r THEN published[r] + 1 ELSE published[s]
    BY <2>3, <2>4, <2>5
  <2>7. published' = [published EXCEPT ![r] = @ + 1]
    BY <1>3, <2>6
  <2>8. CASE S = {}
    <3>1. \A s \in Pairs : phase'[s] = IF s = r THEN "answered" ELSE phase[s]
      BY <2>3, <2>4, <2>8
    <3>2. phase' = [phase EXCEPT ![r] = "answered"]
      BY <1>3, <3>1
    <3>3. Promise!Answer(r)
      BY <2>3, <2>7, <3>2 DEF Promise!Answer, Phases, Published, Pairs, Of
    <3>. QED  BY <1>1, <3>3 DEF Promise!Next
  <2>9. CASE S # {}
    <3>1. p \in Askers
      BY <1>12, <2>9 DEF ReplyRows, NewRows, Askers
    <3>. DEFINE choice == [a \in Agents |-> phase'[<<p, a>>]]
    <3>2. \A q \in Paths \ S : Parent(q) = p => status'[q] = status[q]
      BY <1>12, NotOwnParent DEF ReplyRows
    <3>3. /\ \A a \in Agents : phase[<<p, a>>] = "unasked"
          /\ \A a \in Agents : phase'[<<p, a>>] \in {"unasked", "waiting", "open", "refused"}
          /\ \A s \in Pairs : s[1] # p => Of(s) \notin S
      BY <1>10, <1>12, <3>1, <3>2 DEF ReplyRows
    <3>4. choice \in [Agents -> {"unasked", "waiting", "open", "refused"}]
      BY <3>3
    <3>5. \A s \in Pairs : phase'[s] = IF s = r THEN "answered"
                                       ELSE IF s[1] = p THEN choice[s[2]] ELSE phase[s]
      <4>1. \A s \in Pairs : s # r /\ s[1] # p => phase'[s] = phase[s]
        BY <2>4, <3>3
      <4>2. \A s \in Pairs : s[1] = p => s = <<p, s[2]>> /\ s[2] \in Agents
        BY DEF Pairs
      <4>. QED  BY <2>3, <4>1, <4>2
    <3>. HIDE DEF choice
    <3>6. phase' = [s \in Pairs |-> IF s = r THEN "answered"
                                    ELSE IF s[1] = p THEN choice[s[2]] ELSE phase[s]]
      BY <1>3, <3>5
    <3>7. Promise!Reply(r, p)
      BY <1>1, <2>3, <2>7, <3>3, <3>4, <3>6 DEF Promise!Reply, Phases, Published, Pairs, Of
    <3>. QED  BY <1>1, <3>1, <3>7 DEF Promise!Next
  <2>. QED  BY <2>8, <2>9
<1>. QED  BY <1>7, <1>8, <1>9, <1>11, <1>12 DEF RowStep, PromiseStep

\* However a chain branches, pauses, is continued, ended and interrupted, it
\* keeps RequestPromise: an answer asks once, also when the initiator decides
\* twice or the chain paused before; each Agent that it names is judged on its
\* own; and every request ends once, answered or refused.
THEOREM KeepsPromise == Spec => PromiseSpec
<1>1. Init => Promise!Init
  <2>. SUFFICES ASSUME Init PROVE Promise!Init
    OBVIOUS
  <2>1. \A r \in Askers \X Agents : status[Append(r[1], r[2])] = "none"
    BY PathOfPair DEF Init, Pairs, Of
  <2>. QED  BY <2>1 DEF Promise!Init, Promise!Requests, Phase
<1>2. TypeInv /\ TypeInv' /\ Shape /\ [Next]_vars => [Promise!Next]_(Promise!vars)
  BY NextRowStep, PhaseStep DEF PromiseStep
<1>. QED  BY <1>1, <1>2, InitType, NextType, InitShape, NextShape, PTL
          DEF Spec, PromiseSpec, Promise!Spec

=============================================================================
