--------------------------- MODULE ProactiveAnswers ---------------------------
(***************************************************************************)
(* Invitations of the broker to Agents and what becomes of their answers:  *)
(* ProactiveCoordinator from the choice of the router to the publication   *)
(* (src/src/broker/proactive-coordinator.ts, server.ts) and the extension  *)
(* that accepts, works on or declines an invitation.                       *)
(*                                                                         *)
(* One group is followed; "other" stands for any other one.  Results are   *)
(* processed one after the other (#resultQueue) but each waits several     *)
(* times, for a summary and for the freshness call, and everything else    *)
(* goes on meanwhile.  An offer is the n-th invitation of an Agent.  What  *)
(* an answer addresses next is in AgentChains.                             *)
(***************************************************************************)
EXTENDS Integers, Sequences, FiniteSets

CONSTANTS Agents,    \* sessions, each with an Agent
          Texts,     \* normalised texts of answers
          NoOffer,   \* no offer
          NoText,    \* what a person writes, or a silent answer
          MaxOffers, \* bound: offers to each Agent
          Window,    \* how many of the newest public messages #isDuplicate reads
          MaxSaid,   \* bound: messages that are not answers to offers
          OtherSeen, \* sequence number seen in the other group
          MaxFaults  \* bound: moves, toggles, broken links, changes of the key;
                     \* the first one takes the place of a message

Offers == Agents \X (1..MaxOffers)

ASSUME ConstantsAssumption ==
  /\ MaxOffers \in Nat /\ Window \in Nat \ {0} /\ MaxSaid \in Nat /\ OtherSeen \in Nat /\ MaxFaults \in Nat
  /\ NoOffer \notin Offers /\ NoText \notin Texts

NoEntry == [held |-> FALSE, observed |-> 0, acked |-> FALSE]
NoRoute == [targets |-> {}, observed |-> 0, version |-> 0]
NoJob == [offer |-> NoOffer, observed |-> 0, text |-> NoText, phase |-> "none",
          version |-> 0, judged |-> 0]

VARIABLES
  said,      \* public messages of the group; their number is groupSeq
  config,    \* key ready, its configVersion
  member,    \* GroupState of each client: group, online, idle, enabled
  cursor,    \* proactiveCursors
  route,     \* #route after the router answered: targets that are invited next
  pending,   \* #pending
  next,      \* next offer of each Agent (randomUUID)
  queue,     \* #resultQueue: results behind the one that is processed
  job,       \* the result that is processed
  cooling,   \* Agents in #cooldownUntil
  toBroker, toAgent,  \* messages in flight
  ext,       \* each extension: group, offer it works on, local switch, seen, linked
  cancelled, \* history: offers declined, expired or cancelled
  faults

vars == <<said, config, member, cursor, route, pending, next, queue, job, cooling,
          toBroker, toAgent, ext, cancelled, faults>>
coordinator == <<route, pending, next, queue, job, cooling, cancelled>>

Init ==
  /\ said = <<>>
  /\ config = [ready |-> TRUE, version |-> 1]
  /\ member = [a \in Agents |-> [group |-> "here", online |-> TRUE, idle |-> TRUE, enabled |-> TRUE]]
  /\ cursor = [a \in Agents |-> 0]
  /\ route = NoRoute
  /\ pending = [o \in Offers |-> NoEntry]
  /\ next = [a \in Agents |-> 1]
  /\ queue = <<>> /\ job = NoJob
  /\ cooling = {}
  /\ toBroker = [a \in Agents |-> <<>>] /\ toAgent = [a \in Agents |-> <<>>]
  /\ ext = [a \in Agents |-> [at |-> "here", active |-> NoOffer, allowed |-> TRUE,
                              seen |-> 0, linked |-> TRUE]]
  /\ cancelled = {} /\ faults = 0

Latest == Len(said)
Ordinary == {i \in 1..Latest : said[i].offer = NoOffer}
MostSaid == IF faults = 0 THEN MaxSaid ELSE MaxSaid - 1
Fault == faults < MaxFaults /\ faults' = faults + 1 /\ Cardinality(Ordinary) < MaxSaid

\* Somebody writes, or an Agent answers a request.
Say(text) ==
  /\ Cardinality(Ordinary) < MostSaid
  /\ said' = Append(said, [offer |-> NoOffer, observed |-> Latest, judged |-> Latest, text |-> text])
  /\ UNCHANGED <<config, member, cursor, coordinator, toBroker, toAgent, ext, faults>>

------------------------------------------------------------------------------
(* Invitations *)

\* The filter of candidates, and eligibleCandidates
Eligible(a) ==
  /\ member[a].group = "here" /\ member[a].online /\ member[a].idle /\ member[a].enabled
  /\ a \notin cooling

\* The router answers: its choice is looked up among the candidates.
Select(targets) ==
  /\ route = NoRoute /\ config.ready
  /\ targets # {} /\ Cardinality(targets) <= 3
  /\ \A a \in targets : Eligible(a) /\ next[a] <= MaxOffers
  /\ route' = [targets |-> targets, observed |-> Latest, version |-> config.version]
  /\ UNCHANGED <<said, config, member, cursor, pending, next, queue, job, cooling,
                 toBroker, toAgent, ext, cancelled, faults>>

\* The check in the callback deliver; it asks for some group, not for this one.
Reachable(a) ==
  member[a].group # "none" /\ member[a].online /\ member[a].idle /\ member[a].enabled

\* The rest of #route.  It comes later when something was said since the context
\* was prepared: then it waits once more, perhaps for a summary.
Deliver ==
  /\ route # NoRoute /\ route' = NoRoute
  /\ LET sent == {a \in route.targets : Reachable(a)}
     IN  /\ pending' = [o \in Offers |->
              IF o[1] \in sent /\ o[2] = next[o[1]]
              THEN [held |-> TRUE, observed |-> route.observed, acked |-> FALSE]
              ELSE pending[o]]
         /\ toAgent' = [a \in Agents |->
              IF a \in sent
              THEN Append(toAgent[a], [type |-> "deliver", offer |-> <<a, next[a]>>, seq |-> Latest])
              ELSE toAgent[a]]
         /\ next' = [a \in Agents |-> IF a \in sent THEN next[a] + 1 ELSE next[a]]
  /\ UNCHANGED <<said, config, member, cursor, queue, job, cooling, toBroker, ext, cancelled, faults>>

\* Mutant: offers that were acknowledged are kept.
CancelUnacked(S) ==
  /\ pending' = [o \in Offers |-> IF o \in S /\ ~pending[o].acked THEN NoEntry ELSE pending[o]]
  /\ cancelled' = cancelled \cup {o \in S : pending[o].held}

\* decline, cancelForClient, clear: the offers in S are no longer expected.
Cancel(S) ==
  /\ pending' = [o \in Offers |-> IF o \in S THEN NoEntry ELSE pending[o]]
  /\ cancelled' = cancelled \cup {o \in S : pending[o].held}

OffersOf(a) == {o \in Offers : o[1] = a}

\* The timer of an offer that was not acknowledged
Expire(o) ==
  /\ pending[o].held /\ ~pending[o].acked
  /\ Cancel({o})
  /\ UNCHANGED <<said, config, member, cursor, route, next, queue, job, cooling,
                 toBroker, toAgent, ext, faults>>

------------------------------------------------------------------------------
(* Results *)

\* publishProactiveAnswer: who is no longer a member of the group says nothing.
Publish(o, observed, judged, text) ==
  said' = IF member[o[1]].group = "here"
          THEN Append(said, [offer |-> o, observed |-> observed, judged |-> judged, text |-> text])
          ELSE said

\* Mutant: only the last message is compared.
SameAsLast(text) == Latest > 0 /\ said[Latest].text = text

\* #messages(groupId, 0, 20)
Recent == {i \in 1..Latest : i > Latest - Window}

\* #isDuplicate: some recent message of an Agent says the same.
IsDuplicate(text) == \E i \in Recent : said[i].text = text

\* Mutant: the entry was read when the result arrived.
Expected(o) == TRUE

\* A result counts while its offer is pending.
IsPending(o) == pending[o].held

\* Mutant: answers are published as they come.
NothingNew(observed) == TRUE

\* Nothing was said since the offer.
UpToDate(observed) == Latest = observed

\* The first part of the task in #resultQueue, up to the first await
StartResult ==
  /\ job = NoJob /\ queue # <<>>
  /\ queue' = Tail(queue)
  /\ LET o == Head(queue).offer
         text == Head(queue).text
         observed == pending[o].observed
     IN  IF ~IsPending(o) THEN UNCHANGED <<said, pending, job, cooling>>
         ELSE /\ pending' = [pending EXCEPT ![o] = NoEntry]
              /\ cooling' = cooling \cup {o[1]}
              /\ IF text = NoText \/ IsDuplicate(text)
                 THEN UNCHANGED <<said, job>>
                 ELSE IF UpToDate(observed)
                      THEN Publish(o, observed, observed, text) /\ UNCHANGED job
                      ELSE /\ UNCHANGED said
                           /\ job' = IF ~config.ready THEN NoJob
                                     ELSE [offer |-> o, observed |-> observed, text |-> text,
                                           phase |-> "context", version |-> config.version,
                                           judged |-> observed]
  /\ UNCHANGED <<config, member, cursor, route, next, toBroker, toAgent, ext, cancelled, faults>>

\* The context is there, with or without what the answer missed.
ContextReady(complete) ==
  /\ job.phase = "context"
  /\ job' = IF config.ready /\ config.version = job.version /\ complete
            THEN [job EXCEPT !.phase = "queued"] ELSE NoJob
  /\ UNCHANGED <<said, config, member, cursor, route, pending, next, queue, cooling,
                 toBroker, toAgent, ext, cancelled, faults>>

\* The scheduler runs the call, for the first time or again: it reads what is
\* new at that moment.
AskFreshness ==
  /\ job.phase \in {"queued", "asked"}
  /\ job' = [job EXCEPT !.phase = "asked", !.judged = Latest]
  /\ UNCHANGED <<said, config, member, cursor, route, pending, next, queue, cooling,
                 toBroker, toAgent, ext, cancelled, faults>>

\* The key is the one that the call was made with.
SameKey == config.version = job.version

FreshnessAnswers(publish) ==
  /\ job.phase = "asked" /\ job' = NoJob
  /\ IF publish /\ SameKey
     THEN Publish(job.offer, job.observed, job.judged, job.text)
     ELSE UNCHANGED said
  /\ UNCHANGED <<config, member, cursor, route, pending, next, queue, cooling,
                 toBroker, toAgent, ext, cancelled, faults>>

\* The call fails, is aborted, or its key is rejected and becomes invalid.  The
\* pause after failed calls does not hold back results: see ProactiveBatches.
FreshnessFails(kind) ==
  /\ job.phase \in {"queued", "asked"} /\ job' = NoJob
  /\ IF ~SameKey \/ kind # "invalid_key" THEN UNCHANGED config
     ELSE config' = [config EXCEPT !.ready = FALSE, !.version = @ + 1]
  /\ UNCHANGED <<said, member, cursor, route, pending, next, queue, cooling,
                 toBroker, toAgent, ext, cancelled, faults>>

CooldownEnds(a) ==
  /\ a \in cooling /\ cooling' = cooling \ {a}
  /\ UNCHANGED <<said, config, member, cursor, route, pending, next, queue, job,
                 toBroker, toAgent, ext, cancelled, faults>>

\* The key is deleted, whatever its status: abortAll, clear.  What runs ends as a
\* failed call.
DeleteKey ==
  /\ Fault
  /\ config' = [config EXCEPT !.ready = FALSE, !.version = @ + 1]
  /\ pending' = [o \in Offers |-> NoEntry]
  /\ cancelled' = cancelled \cup {o \in Offers : pending[o].held \/ job.offer = o}
  /\ cooling' = {}
  /\ UNCHANGED <<said, member, cursor, route, next, queue, job, toBroker, toAgent, ext>>

\* Another call or a validation finds the key invalid: markInvalid.  If calls are
\* aborted with it, the freshness call ends as a failed one.
KeyInvalid ==
  /\ Fault /\ config.ready
  /\ config' = [config EXCEPT !.ready = FALSE, !.version = @ + 1]
  /\ UNCHANGED <<said, member, cursor, coordinator, toBroker, toAgent, ext>>

\* A key is saved, the first one or another one.
SaveKey ==
  /\ Fault
  /\ config' = [config EXCEPT !.ready = TRUE, !.version = @ + 1]
  /\ UNCHANGED <<said, member, cursor, coordinator, toBroker, toAgent, ext>>

------------------------------------------------------------------------------
(* Messages to the broker *)

Message(a) == Head(toBroker[a])
Receive(a, type) ==
  /\ toBroker[a] # <<>> /\ Message(a).type = type
  /\ toBroker' = [toBroker EXCEPT ![a] = Tail(@)]

\* An acknowledgement counts while its offer is pending.
Acked(o) == pending[o].held

\* acknowledge
HandleAck(a) ==
  /\ Receive(a, "ack")
  /\ pending' = [pending EXCEPT ![Message(a).offer].acked = Acked(Message(a).offer)]
  /\ UNCHANGED <<said, config, member, cursor, route, next, queue, job, cooling, toAgent, ext,
                 cancelled, faults>>

\* decline
HandleDecline(a) ==
  /\ Receive(a, "decline")
  /\ Cancel({Message(a).offer})
  /\ UNCHANGED <<said, config, member, cursor, route, next, queue, job, cooling, toAgent, ext, faults>>

\* result: an answer to an offer that is not pending is not taken.
HandleResult(a) ==
  /\ Receive(a, "result")
  /\ queue' = IF pending[Message(a).offer].held
              THEN Append(queue, [offer |-> Message(a).offer, text |-> Message(a).text])
              ELSE queue
  /\ UNCHANGED <<said, config, member, cursor, route, pending, next, job, cooling, toAgent, ext,
                 cancelled, faults>>

\* proactive.update
HandleUpdate(a) ==
  /\ Receive(a, "update")
  /\ IF member[a].group # Message(a).group THEN UNCHANGED <<member, cursor, pending, cancelled>>
     ELSE /\ member' = [member EXCEPT ![a].enabled = Message(a).enabled]
          /\ cursor' = [cursor EXCEPT ![a] = Message(a).seq]
          /\ Cancel(IF Message(a).enabled THEN {} ELSE OffersOf(a))
  /\ UNCHANGED <<said, config, route, next, queue, job, cooling, toAgent, ext, faults>>

\* agent.status
HandleStatus(a) ==
  /\ Receive(a, "status")
  /\ member' = [member EXCEPT ![a].idle = Message(a).idle]
  /\ UNCHANGED <<said, config, cursor, coordinator, toAgent, ext, faults>>

\* group.leave
HandleLeave(a) ==
  /\ Receive(a, "leave")
  /\ member' = [member EXCEPT ![a].group = "none"]
  /\ Cancel(OffersOf(a))
  /\ UNCHANGED <<said, config, cursor, route, next, queue, job, cooling, toAgent, ext, faults>>

\* group.join: a new membership starts with Proactive on.
HandleJoin(a) ==
  /\ Receive(a, "join")
  /\ member' = [member EXCEPT ![a] =
       [group |-> Message(a).group, online |-> TRUE, idle |-> TRUE, enabled |-> TRUE]]
  /\ toAgent' = [toAgent EXCEPT ![a] = Append(@, [type |-> "snapshot", group |-> Message(a).group])]
  /\ UNCHANGED <<said, config, cursor, coordinator, ext, faults>>

------------------------------------------------------------------------------
(* The extension *)

Send(a, messages) == toBroker' = [toBroker EXCEPT ![a] = @ \o messages]

Update(a, group, enabled, seq) ==
  [type |-> "update", group |-> group, enabled |-> enabled, seq |-> seq]
Status(idle) == [type |-> "status", idle |-> idle]
Decline(o) == [type |-> "decline", offer |-> o]
Interrupt(a) == IF ext[a].active = NoOffer THEN <<>> ELSE <<Decline(ext[a].active)>>

\* handleProactiveDelivery declines: switched off, busy, other work, expired.
DeclineOffer(a) ==
  /\ toAgent[a] # <<>> /\ Head(toAgent[a]).type = "deliver"
  /\ toAgent' = [toAgent EXCEPT ![a] = Tail(@)]
  /\ Send(a, <<Decline(Head(toAgent[a]).offer)>>)
  /\ UNCHANGED <<said, config, member, cursor, coordinator, ext, faults>>

\* It accepts: the observation is put into the session.
AcceptOffer(a) ==
  /\ toAgent[a] # <<>> /\ Head(toAgent[a]).type = "deliver"
  /\ ext[a].allowed /\ ext[a].active = NoOffer
  /\ toAgent' = [toAgent EXCEPT ![a] = Tail(@)]
  /\ LET d == Head(toAgent[a])
     IN  /\ ext' = [ext EXCEPT ![a].active = d.offer, ![a].seen = d.seq]
         /\ Send(a, <<[type |-> "ack", offer |-> d.offer],
                      Update(a, "here", TRUE, d.seq), Status(FALSE)>>)
  /\ UNCHANGED <<said, config, member, cursor, coordinator, faults>>

\* agent_settled: the answer goes out, once.
Answer(a, text) ==
  /\ ext[a].active # NoOffer
  /\ Send(a, <<[type |-> "result", offer |-> ext[a].active, text |-> text], Status(TRUE)>>)
  /\ ext' = [ext EXCEPT ![a].active = NoOffer]
  /\ UNCHANGED <<said, config, member, cursor, coordinator, toAgent, faults>>

\* The user or an explicit request interrupts the work, or it has no text.
GiveUp(a) ==
  /\ ext[a].active # NoOffer
  /\ Send(a, <<Decline(ext[a].active), Status(TRUE)>>)
  /\ ext' = [ext EXCEPT ![a].active = NoOffer]
  /\ UNCHANGED <<said, config, member, cursor, coordinator, toAgent, faults>>

\* updateProactive
Toggle(a) ==
  /\ Fault /\ ext[a].linked /\ ext[a].at = "here"
  /\ ext' = [ext EXCEPT ![a].allowed = ~@, ![a].active = IF ext[a].allowed THEN NoOffer ELSE @]
  /\ Send(a, (IF ext[a].allowed THEN Interrupt(a) ELSE <<>>)
             \o <<Update(a, "here", ~ext[a].allowed, ext[a].seen)>>)
  /\ UNCHANGED <<said, config, member, cursor, coordinator, toAgent>>

\* leaveGroup
Leave(a) ==
  /\ Fault /\ ext[a].linked /\ ext[a].at \in {"here", "other"}
  /\ ext' = [ext EXCEPT ![a].at = "none", ![a].active = NoOffer]
  /\ Send(a, Interrupt(a) \o <<[type |-> "leave"]>>)
  /\ UNCHANGED <<said, config, member, cursor, coordinator, toAgent>>

Join(a, group) ==
  /\ ext[a].linked /\ ext[a].at = "none"
  /\ ext' = [ext EXCEPT ![a].at = "joining"]
  /\ Send(a, <<[type |-> "join", group |-> group]>>)
  /\ UNCHANGED <<said, config, member, cursor, coordinator, toAgent, faults>>

\* handleSnapshot sends the switch and the cursor that the session kept.
Restored(a, group) ==
  IF group = "here" THEN <<Update(a, group, ext[a].allowed, ext[a].seen), Status(TRUE)>>
  ELSE IF group = "other" THEN <<Update(a, group, TRUE, OtherSeen), Status(TRUE)>>
  ELSE <<Status(TRUE)>>

ReceiveSnapshot(a) ==
  /\ toAgent[a] # <<>> /\ Head(toAgent[a]).type = "snapshot"
  /\ toAgent' = [toAgent EXCEPT ![a] = Tail(@)]
  /\ ext' = [ext EXCEPT ![a].at = Head(toAgent[a]).group]
  /\ Send(a, Restored(a, Head(toAgent[a]).group))
  /\ UNCHANGED <<said, config, member, cursor, coordinator, faults>>

\* The connection breaks: onDisconnected, handleUnexpectedDisconnect.
Break(a) ==
  /\ Fault /\ ext[a].linked
  /\ ext' = [ext EXCEPT ![a].linked = FALSE, ![a].active = NoOffer]
  /\ toBroker' = [toBroker EXCEPT ![a] = <<>>] /\ toAgent' = [toAgent EXCEPT ![a] = <<>>]
  /\ member' = [member EXCEPT ![a].online = FALSE]
  /\ Cancel(OffersOf(a))
  /\ UNCHANGED <<said, config, cursor, route, next, queue, job, cooling>>

\* The session comes back within its grace period.
Resume(a) ==
  /\ ~ext[a].linked
  /\ member' = [member EXCEPT ![a].online = TRUE]
  /\ ext' = [ext EXCEPT ![a].linked = TRUE, ![a].at = member[a].group]
  /\ Send(a, Restored(a, member[a].group))
  /\ UNCHANGED <<said, config, cursor, coordinator, toAgent, faults>>

------------------------------------------------------------------------------

BrokerReceives(a) ==
  \/ HandleAck(a) \/ HandleDecline(a) \/ HandleResult(a) \/ HandleUpdate(a)
  \/ HandleStatus(a) \/ HandleLeave(a) \/ HandleJoin(a)

ExtensionReceives(a) == DeclineOffer(a) \/ AcceptOffer(a) \/ ReceiveSnapshot(a)

Works(a) == GiveUp(a) \/ \E text \in Texts \cup {NoText} : Answer(a, text)

ResultSteps ==
  \/ StartResult
  \/ \E complete \in BOOLEAN : ContextReady(complete)
  \/ \E publish \in BOOLEAN : FreshnessAnswers(publish)
  \/ \E kind \in {"invalid_key", "other"} : FreshnessFails(kind)

Next ==
  \/ \E text \in Texts \cup {NoText} : Say(text)
  \/ \E targets \in SUBSET Agents : Select(targets)
  \/ Deliver
  \/ \E o \in Offers : Expire(o)
  \/ ResultSteps \/ AskFreshness
  \/ DeleteKey \/ KeyInvalid \/ SaveKey
  \/ \E a \in Agents :
       \/ BrokerReceives(a) \/ ExtensionReceives(a) \/ Works(a)
       \/ CooldownEnds(a) \/ Toggle(a) \/ Leave(a) \/ Break(a) \/ Resume(a)
       \/ \E group \in {"here", "other"} : Join(a, group)

Spec == Init /\ [][Next]_vars

------------------------------------------------------------------------------
(* Properties *)

Groups == {"here", "other", "none"}

TypeOK ==
  /\ \A i \in 1..Latest :
       /\ said[i].offer \in Offers \cup {NoOffer}
       /\ said[i].observed \in 0..(i - 1) /\ said[i].judged \in said[i].observed..(i - 1)
  /\ member \in [Agents -> [group : Groups, online : BOOLEAN, idle : BOOLEAN, enabled : BOOLEAN]]
  /\ \A a \in Agents : ext[a].at \in Groups \cup {"joining"} /\ ext[a].active \in OffersOf(a) \cup {NoOffer}
  /\ pending \in [Offers -> [held : BOOLEAN, observed : 0..Latest, acked : BOOLEAN]]
  /\ \A o \in Offers : (pending[o].held => o[2] < next[o[1]]) /\ (pending[o].acked => pending[o].held)
  /\ job.phase \in {"none", "context", "queued", "asked"}
  /\ route.targets \in SUBSET Agents /\ cooling \in SUBSET Agents /\ cancelled \in SUBSET Offers

\* Every answer was made or judged with all proactive answers before it in
\* view, in whatever order results come and calls to the model end.
LaterSeesEarlier ==
  \A i, j \in 1..Latest :
    i < j /\ said[i].offer # NoOffer /\ said[j].offer # NoOffer => i <= said[j].judged

\* No proactive answer repeats one of the Window messages before it that is a
\* proactive answer too or was there when it was invited, although duplicates are
\* looked for only before the answer waits.
NoTwins ==
  \A i, j \in 1..Latest :
    /\ i < j /\ said[j].offer # NoOffer /\ said[i].text = said[j].text
    /\ said[i].offer # NoOffer \/ i <= said[j].observed
    => j - i > Window

\* What was declined, cancelled or deleted with the key is never published,
\* even if its result was already on the way or in the queue.
CancelledStaysSilent ==
  \A i \in 1..Latest : said[i].offer \notin cancelled

\* The timer of an offer stops with its acknowledgement.  From then on the
\* broker waits for something that comes: its extension works on the offer, or
\* its answer or its refusal is on the way.
AckedIsInHand ==
  \A o \in Offers : pending[o].acked =>
    \/ ext[o[1]].active = o
    \/ \E i \in DOMAIN toBroker[o[1]] :
         LET msg == toBroker[o[1]][i] IN msg.type \in {"decline", "result"} /\ msg.offer = o
    \/ \E i \in DOMAIN queue : queue[i].offer = o

=============================================================================
