---------------------- MODULE ProactiveAnswers_proofs ----------------------
(***************************************************************************)
(* Theorems of ProactiveAnswers for any agents, texts and bounds: types,   *)
(* and what is published of the answers to invitations.                    *)
(***************************************************************************)
EXTENDS ProactiveAnswers, TLAPS

------------------------------------------------------------------------------
(* Sequences of messages, seen as what is on its way. *)

On(s) == {s[i] : i \in DOMAIN s}

LEMMA OnEmpty == On(<<>>) = {}
  BY DEF On

LEMMA OnAppend ==
  ASSUME NEW S, NEW s \in Seq(S), NEW x \in S
  PROVE  On(Append(s, x)) = On(s) \cup {x}
<1>1. /\ DOMAIN Append(s, x) = 1..(Len(s) + 1)
      /\ DOMAIN s = 1..Len(s) /\ Len(s) \in Nat
      /\ \A i \in 1..Len(s) : Append(s, x)[i] = s[i]
      /\ Append(s, x)[Len(s) + 1] = x
  OBVIOUS
<1>2. ASSUME NEW y \in On(Append(s, x)) PROVE y \in On(s) \cup {x}
  <2>1. PICK i \in 1..(Len(s) + 1) : y = Append(s, x)[i]
    BY <1>1, <1>2 DEF On
  <2>2. i \in 1..Len(s) \/ i = Len(s) + 1
    BY <1>1
  <2> QED BY <1>1, <2>1, <2>2 DEF On
<1>3. ASSUME NEW y \in On(s) \cup {x} PROVE y \in On(Append(s, x))
  <2>1. CASE y = x
    <3>1. Len(s) + 1 \in 1..(Len(s) + 1)
      BY <1>1
    <3> QED BY <1>1, <2>1, <3>1 DEF On
  <2>2. CASE y \in On(s)
    <3>1. PICK i \in 1..Len(s) : y = s[i]
      BY <1>1, <2>2 DEF On
    <3>2. i \in 1..(Len(s) + 1)
      BY <1>1
    <3> QED BY <1>1, <3>1, <3>2 DEF On
  <2> QED BY <1>3, <2>1, <2>2
<1> QED BY <1>2, <1>3

LEMMA OnTail ==
  ASSUME NEW S, NEW s \in Seq(S), s # <<>>
  PROVE  /\ Head(s) \in On(s)
         /\ On(s) = On(Tail(s)) \cup {Head(s)}
<1>1. /\ Len(s) \in Nat \ {0} /\ DOMAIN s = 1..Len(s)
      /\ Head(s) = s[1]
      /\ DOMAIN Tail(s) = 1..(Len(s) - 1)
      /\ \A i \in 1..(Len(s) - 1) : Tail(s)[i] = s[i + 1]
  OBVIOUS
<1>2. 1 \in DOMAIN s
  BY <1>1
<1>3. ASSUME NEW y \in On(Tail(s)) PROVE y \in On(s)
  <2>1. PICK i \in 1..(Len(s) - 1) : y = s[i + 1]
    BY <1>1, <1>3 DEF On
  <2>2. i + 1 \in 1..Len(s)
    BY <1>1
  <2> QED BY <1>1, <2>1, <2>2 DEF On
<1>4. ASSUME NEW y \in On(s), y # Head(s) PROVE y \in On(Tail(s))
  <2>1. PICK i \in 1..Len(s) : y = s[i]
    BY <1>1, <1>4 DEF On
  <2>2. i # 1
    BY <1>1, <1>4, <2>1
  <2>3. i - 1 \in 1..(Len(s) - 1) /\ (i - 1) + 1 = i
    BY <1>1, <2>2
  <2>4. Tail(s)[i - 1] = s[i]
    BY <1>1, <2>3
  <2> QED BY <1>1, <2>1, <2>3, <2>4 DEF On
<1>5. Head(s) \in On(s)
  BY <1>1, <1>2 DEF On
<1> QED BY <1>3, <1>4, <1>5

LEMMA OnConcat ==
  ASSUME NEW S, NEW s \in Seq(S), NEW t \in Seq(S)
  PROVE  On(s \o t) = On(s) \cup On(t)
<1>1. /\ Len(s) \in Nat /\ Len(t) \in Nat
      /\ DOMAIN s = 1..Len(s) /\ DOMAIN t = 1..Len(t)
      /\ DOMAIN (s \o t) = 1..(Len(s) + Len(t))
      /\ \A i \in 1..(Len(s) + Len(t)) :
           (s \o t)[i] = IF i <= Len(s) THEN s[i] ELSE t[i - Len(s)]
  OBVIOUS
<1>2. ASSUME NEW y \in On(s \o t) PROVE y \in On(s) \cup On(t)
  <2>1. PICK i \in 1..(Len(s) + Len(t)) : y = (s \o t)[i]
    BY <1>1, <1>2 DEF On
  <2>2. CASE i <= Len(s)
    <3>1. i \in 1..Len(s) /\ y = s[i]
      BY <1>1, <2>1, <2>2
    <3> QED BY <1>1, <3>1 DEF On
  <2>3. CASE ~(i <= Len(s))
    <3>1. i - Len(s) \in 1..Len(t) /\ y = t[i - Len(s)]
      BY <1>1, <2>1, <2>3
    <3> QED BY <1>1, <3>1 DEF On
  <2> QED BY <2>2, <2>3
<1>3. ASSUME NEW y \in On(s) PROVE y \in On(s \o t)
  <2>1. PICK i \in 1..Len(s) : y = s[i]
    BY <1>1, <1>3 DEF On
  <2>2. i \in 1..(Len(s) + Len(t)) /\ (s \o t)[i] = s[i]
    BY <1>1
  <2> QED BY <1>1, <2>1, <2>2 DEF On
<1>4. ASSUME NEW y \in On(t) PROVE y \in On(s \o t)
  <2>1. PICK i \in 1..Len(t) : y = t[i]
    BY <1>1, <1>4 DEF On
  <2>2. Len(s) + i \in 1..(Len(s) + Len(t)) /\ ~(Len(s) + i <= Len(s)) /\ (Len(s) + i) - Len(s) = i
    BY <1>1
  <2>3. (s \o t)[Len(s) + i] = t[i]
    BY <1>1, <2>2
  <2> QED BY <1>1, <2>1, <2>2, <2>3 DEF On
<1> QED BY <1>2, <1>3, <1>4

LEMMA OnLists ==
  /\ \A x : On(<<x>>) = {x}
  /\ \A x, y : On(<<x, y>>) = {x, y}
  /\ \A x, y, z : On(<<x, y, z>>) = {x, y, z}
<1>1. ASSUME NEW x PROVE On(<<x>>) = {x}
  <2> DEFINE s == <<x>>
  <2>1. DOMAIN s = {1} /\ s[1] = x
    OBVIOUS
  <2> HIDE DEF s
  <2>2. On(s) = {x}
    BY <2>1 DEF On
  <2> QED BY <2>2 DEF s
<1>2. ASSUME NEW x, NEW y PROVE On(<<x, y>>) = {x, y}
  <2> DEFINE s == <<x, y>>
  <2>1. DOMAIN s = {1, 2} /\ s[1] = x /\ s[2] = y
    OBVIOUS
  <2> HIDE DEF s
  <2>2. On(s) = {x, y}
    BY <2>1 DEF On
  <2> QED BY <2>2 DEF s
<1>3. ASSUME NEW x, NEW y, NEW z PROVE On(<<x, y, z>>) = {x, y, z}
  <2> DEFINE s == <<x, y, z>>
  <2>1. DOMAIN s = {1, 2, 3} /\ s[1] = x /\ s[2] = y /\ s[3] = z
    OBVIOUS
  <2> HIDE DEF s
  <2>2. On(s) = {x, y, z}
    BY <2>1 DEF On
  <2> QED BY <2>2 DEF s
<1> QED BY <1>1, <1>2, <1>3

------------------------------------------------------------------------------
(* Types of messages and state *)

AllTexts == Texts \cup {NoText}
Utterances == [offer : Offers \cup {NoOffer}, observed : Nat, judged : Nat, text : AllTexts]
Results == [offer : Offers, text : AllTexts]
Jobs == {NoJob} \cup [offer : Offers, observed : Nat, text : Texts,
                      phase : {"context", "queued", "asked"}, version : Nat, judged : Nat]
ToBroker == [type : {"ack", "decline"}, offer : Offers]
              \cup [type : {"result"}, offer : Offers, text : AllTexts]
              \cup [type : {"update"}, group : Groups, enabled : BOOLEAN, seq : Nat]
              \cup [type : {"status"}, idle : BOOLEAN]
              \cup [type : {"leave"}]
              \cup [type : {"join"}, group : {"here", "other"}]
ToAgent == [type : {"deliver"}, offer : Offers, seq : Nat]
             \cup [type : {"snapshot"}, group : {"here", "other"}]
Members == [group : Groups, online : BOOLEAN, idle : BOOLEAN, enabled : BOOLEAN]
Extensions == [at : Groups \cup {"joining"}, active : Offers \cup {NoOffer},
               allowed : BOOLEAN, seen : Nat, linked : BOOLEAN]

\* The group and the coordinator
GroupType ==
  /\ said \in Seq(Utterances)
  /\ config \in [ready : BOOLEAN, version : Nat]
  /\ member \in [Agents -> Members]
  /\ cooling \in SUBSET Agents

CoordinatorType ==
  /\ route \in [targets : SUBSET Agents, observed : Nat, version : Nat]
  /\ pending \in [Offers -> [held : BOOLEAN, observed : Nat, acked : BOOLEAN]]
  /\ next \in [Agents -> Nat \ {0}]
  /\ queue \in Seq(Results)
  /\ job \in Jobs
  /\ cancelled \in SUBSET Offers

NetworkType ==
  /\ toBroker \in [Agents -> Seq(ToBroker)]
  /\ toAgent \in [Agents -> Seq(ToAgent)]
  /\ ext \in [Agents -> Extensions]

\* An invitation and what is answered to it stay between the broker and the
\* Agent that is invited, and an Agent is invited only while it has offers left.
Addressed ==
  /\ \A a \in Agents :
       /\ \A x \in On(toBroker[a]) : x.type \in {"ack", "decline", "result"} => x.offer[1] = a
       /\ \A x \in On(toAgent[a]) : x.type = "deliver" => x.offer[1] = a
       /\ ext[a].active # NoOffer => ext[a].active[1] = a
  /\ \A a \in route.targets : next[a] <= MaxOffers

Types == GroupType /\ CoordinatorType /\ NetworkType /\ Addressed

------------------------------------------------------------------------------
(* What becomes of an offer *)

Known(o) == o[2] < next[o[1]]
Answered(o) == \E i \in 1..Len(said) : said[i].offer = o

\* An offer that nobody has been sent yet is nowhere; one that is pending was
\* neither cancelled nor answered; the one whose answer is judged was not
\* answered, and if it was cancelled since, the key is another one.
BookOf(o) ==
  /\ pending[o].held => Known(o) /\ o \notin cancelled /\ ~Answered(o) /\ job.offer # o
  /\ pending[o].acked => pending[o].held
  /\ o \in cancelled => Known(o)
  /\ Answered(o) => Known(o) /\ o \notin cancelled /\ job.offer # o
  /\ job.offer = o => Known(o) /\ (o \in cancelled => job.version # config.version)

SentBefore ==
  \A a \in Agents :
    /\ \A x \in On(toBroker[a]) : x.type = "ack" => Known(x.offer)
    /\ \A x \in On(toAgent[a]) : x.type = "deliver" => Known(x.offer)

BooksInv == /\ \A o \in Offers : BookOf(o)
            /\ SentBefore
            /\ job.version <= config.version

\* The times at which a message is known
TimesInv ==
  /\ \A i \in 1..Len(said) :
       /\ said[i].observed <= said[i].judged /\ said[i].judged < i
  /\ route.observed <= Len(said)
  /\ \A o \in Offers : pending[o].observed <= Len(said)
  /\ job.observed <= job.judged /\ job.judged <= Len(said)

\* The answer that is judged has no twin among the newest messages, and once the
\* call reads what was said only people speak until its answer is there.
JobInv ==
  job # NoJob =>
    /\ \A i \in 1..Len(said) :
         (said[i].offer # NoOffer \/ i <= job.observed) /\ said[i].text = job.text =>
           i + Window <= Len(said)
    /\ job.phase = "asked" =>
         \A i \in 1..Len(said) : said[i].offer # NoOffer => i <= job.judged

SpeechInv == JobInv /\ LaterSeesEarlier /\ NoTwins

\* An offer is in hand where something will come of it.
Closing(o) == \E x \in On(toBroker[o[1]]) : x.type \in {"decline", "result"} /\ x.offer = o
InHand(o) == \/ ext[o[1]].active = o
             \/ Closing(o)
             \/ \E x \in On(queue) : x.offer = o
Acking(o) == \E x \in On(toBroker[o[1]]) : x.type = "ack" /\ x.offer = o

HandInv == \A o \in Offers : pending[o].held /\ (pending[o].acked \/ Acking(o)) => InHand(o)

------------------------------------------------------------------------------
(* Steps of an extension *)

Invited(a, o) == \E x \in On(toAgent[a]) : x.type = "deliver" /\ x.offer = o

\* An extension reads invitations in order, acknowledges the one it now works
\* on and never drops one it works on without a word.
ExtensionStep(a) ==
  /\ NetworkType'
  /\ \A b \in Agents : On(toAgent'[b]) \subseteq On(toAgent[b])
  /\ \A b \in Agents \ {a} : toBroker'[b] = toBroker[b] /\ ext'[b] = ext[b]
  /\ On(toBroker[a]) \subseteq On(toBroker'[a])
  /\ \A x \in On(toBroker'[a]) \ On(toBroker[a]) :
       /\ x.type \in {"ack", "decline", "result"} => x.offer[1] = a
       /\ x.type = "ack" => Invited(a, x.offer) /\ ext'[a].active = x.offer
  /\ \/ ext'[a].active = ext[a].active
     \/ ext[a].active = NoOffer /\ Invited(a, ext'[a].active)
     \/ /\ ext'[a].active = NoOffer
        /\ \E x \in On(toBroker'[a]) : x.type \in {"decline", "result"} /\ x.offer = ext[a].active

LEMMA Speaks ==
  ASSUME NetworkType, NEW a \in Agents, NEW msgs \in Seq(ToBroker), Send(a, msgs),
         toAgent' \in [Agents -> Seq(ToAgent)],
         \A b \in Agents : On(toAgent'[b]) \subseteq On(toAgent[b]),
         ext' \in [Agents -> Extensions], \A b \in Agents \ {a} : ext'[b] = ext[b],
         \A x \in On(msgs) :
           /\ x.type \in {"ack", "decline", "result"} => x.offer[1] = a
           /\ x.type = "ack" => Invited(a, x.offer) /\ ext'[a].active = x.offer,
         \/ ext'[a].active = ext[a].active
         \/ ext[a].active = NoOffer /\ Invited(a, ext'[a].active)
         \/ /\ ext'[a].active = NoOffer
            /\ \E x \in On(msgs) : x.type \in {"decline", "result"} /\ x.offer = ext[a].active
  PROVE  ExtensionStep(a)
<1>1. toBroker[a] \in Seq(ToBroker) /\ toBroker[a] \o msgs \in Seq(ToBroker)
  BY DEF NetworkType
<1>2. /\ toBroker' \in [Agents -> Seq(ToBroker)]
      /\ toBroker'[a] = toBroker[a] \o msgs
      /\ \A b \in Agents \ {a} : toBroker'[b] = toBroker[b]
  BY <1>1 DEF NetworkType, Send
<1>3. On(toBroker'[a]) = On(toBroker[a]) \cup On(msgs)
  BY <1>1, <1>2, OnConcat
<1>4. NetworkType'
  BY <1>2 DEF NetworkType
<1> QED BY <1>2, <1>3, <1>4 DEF ExtensionStep

LEMMA HeadOfAgent ==
  ASSUME NetworkType, Addressed, NEW a \in Agents, toAgent[a] # <<>>,
         toAgent' = [toAgent EXCEPT ![a] = Tail(@)]
  PROVE  /\ toAgent' \in [Agents -> Seq(ToAgent)]
         /\ \A b \in Agents : On(toAgent'[b]) \subseteq On(toAgent[b])
         /\ Head(toAgent[a]) \in ToAgent
         /\ Head(toAgent[a]).type = "deliver" => /\ Invited(a, Head(toAgent[a]).offer)
                                                 /\ Head(toAgent[a]).offer \in Offers
                                                 /\ Head(toAgent[a]).offer[1] = a
                                                 /\ Head(toAgent[a]).seq \in Nat
<1>1. toAgent[a] \in Seq(ToAgent) /\ Tail(toAgent[a]) \in Seq(ToAgent) /\ Head(toAgent[a]) \in ToAgent
  BY DEF NetworkType
<1>2. Head(toAgent[a]) \in On(toAgent[a]) /\ On(Tail(toAgent[a])) \subseteq On(toAgent[a])
  BY <1>1, OnTail
<1>3. \A b \in Agents : toAgent'[b] = IF b = a THEN Tail(toAgent[a]) ELSE toAgent[b]
  BY DEF NetworkType
<1>4. toAgent' \in [Agents -> Seq(ToAgent)]
  BY <1>1 DEF NetworkType
<1>5. Head(toAgent[a]).type = "deliver" =>
        Head(toAgent[a]).offer \in Offers /\ Head(toAgent[a]).seq \in Nat
  BY <1>1 DEF ToAgent
<1> QED BY <1>1, <1>2, <1>3, <1>4, <1>5 DEF Addressed, Invited

\* The messages of an extension
LEMMA OfferMessages ==
  ASSUME NEW o \in Offers
  PROVE  /\ Decline(o) \in ToBroker /\ Decline(o).type = "decline" /\ Decline(o).offer = o
         /\ [type |-> "ack", offer |-> o] \in ToBroker
         /\ \A text \in AllTexts : [type |-> "result", offer |-> o, text |-> text] \in ToBroker
  BY DEF Decline, ToBroker

LEMMA UpdateType ==
  ASSUME NEW a, NEW g \in Groups, NEW e \in BOOLEAN, NEW n \in Nat
  PROVE  Update(a, g, e, n) \in ToBroker /\ Update(a, g, e, n).type = "update"
  BY DEF Update, ToBroker

LEMMA StatusType ==
  ASSUME NEW idle \in BOOLEAN
  PROVE  Status(idle) \in ToBroker /\ Status(idle).type = "status"
  BY DEF Status, ToBroker

\* One, two or three messages
LEMMA ListTypes ==
  ASSUME NEW S
  PROVE  /\ \A x \in S : <<x>> \in Seq(S)
         /\ \A x, y \in S : <<x, y>> \in Seq(S)
         /\ \A x, y, z \in S : <<x, y, z>> \in Seq(S)
  OBVIOUS

LEMMA DeclineOfferSteps ==
  ASSUME NetworkType, Addressed, NEW a \in Agents, DeclineOffer(a)
  PROVE  ExtensionStep(a)
<1> DEFINE d == Head(toAgent[a])
<1>1. /\ toAgent[a] # <<>> /\ d.type = "deliver"
      /\ toAgent' = [toAgent EXCEPT ![a] = Tail(@)]
      /\ Send(a, <<Decline(d.offer)>>) /\ UNCHANGED ext
  BY DEF DeclineOffer
<1>2. /\ toAgent' \in [Agents -> Seq(ToAgent)]
      /\ \A b \in Agents : On(toAgent'[b]) \subseteq On(toAgent[b])
      /\ d.offer \in Offers /\ d.offer[1] = a
  BY <1>1, HeadOfAgent
<1> HIDE DEF d
<1>3. /\ Decline(d.offer) \in ToBroker /\ Decline(d.offer).type = "decline"
      /\ Decline(d.offer).offer = d.offer
  BY <1>2, OfferMessages
<1>4. <<Decline(d.offer)>> \in Seq(ToBroker) /\ On(<<Decline(d.offer)>>) = {Decline(d.offer)}
  BY <1>3, ListTypes, OnLists
<1> QED BY <1>1, <1>2, <1>3, <1>4, Speaks DEF NetworkType

LEMMA AcceptOfferSteps ==
  ASSUME NetworkType, Addressed, NEW a \in Agents, AcceptOffer(a)
  PROVE  ExtensionStep(a)
<1> DEFINE d == Head(toAgent[a])
           ack == [type |-> "ack", offer |-> d.offer]
           update == Update(a, "here", TRUE, d.seq)
           status == Status(FALSE)
<1>1. /\ toAgent[a] # <<>> /\ d.type = "deliver" /\ ext[a].active = NoOffer
      /\ toAgent' = [toAgent EXCEPT ![a] = Tail(@)]
      /\ ext' = [ext EXCEPT ![a].active = d.offer, ![a].seen = d.seq]
      /\ Send(a, <<ack, update, status>>)
  BY DEF AcceptOffer
<1>2. /\ toAgent' \in [Agents -> Seq(ToAgent)]
      /\ \A b \in Agents : On(toAgent'[b]) \subseteq On(toAgent[b])
      /\ Invited(a, d.offer) /\ d.offer \in Offers /\ d.offer[1] = a /\ d.seq \in Nat
  BY <1>1, HeadOfAgent
<1>3. /\ update \in ToBroker /\ update.type = "update"
      /\ status \in ToBroker /\ status.type = "status"
      /\ ack \in ToBroker /\ ack.type = "ack" /\ ack.offer = d.offer
  BY ZenonT(60), <1>2, UpdateType, StatusType, OfferMessages DEF Groups
<1> HIDE DEF d, ack, update, status
<1>4. /\ <<ack, update, status>> \in Seq(ToBroker)
      /\ On(<<ack, update, status>>) = {ack, update, status}
  BY <1>3, ListTypes, OnLists
<1>5. /\ ext' \in [Agents -> Extensions] /\ ext'[a].active = d.offer
      /\ \A b \in Agents \ {a} : ext'[b] = ext[b]
  <2> DEFINE e == [ext[a] EXCEPT !.active = d.offer, !.seen = d.seq]
  <2>1. ext' = [ext EXCEPT ![a] = e]
    BY <1>1
  <2>2. e \in Extensions /\ e.active = d.offer
    BY ZenonT(60), <1>2 DEF NetworkType, Extensions
  <2> HIDE DEF e
  <2> QED BY <2>1, <2>2 DEF NetworkType
<1> QED BY ZenonT(60), <1>1, <1>2, <1>3, <1>4, <1>5, Speaks

\* Work on an invitation ends with a message that closes it.
LEMMA CloseSteps ==
  ASSUME NetworkType, Addressed, NEW a \in Agents, ext[a].active # NoOffer,
         NEW closing \in ToBroker, closing.type \in {"decline", "result"},
         closing.offer = ext[a].active,
         Send(a, <<closing, Status(TRUE)>>), ext' = [ext EXCEPT ![a].active = NoOffer],
         UNCHANGED toAgent
  PROVE  ExtensionStep(a)
<1> DEFINE status == Status(TRUE)
<1>1. status \in ToBroker /\ status.type = "status"
  BY StatusType
<1>2. Send(a, <<closing, status>>)
  OBVIOUS
<1> HIDE DEF status
<1>3. <<closing, status>> \in Seq(ToBroker) /\ On(<<closing, status>>) = {closing, status}
  BY <1>1, ListTypes, OnLists
<1>4. /\ ext' \in [Agents -> Extensions] /\ ext'[a].active = NoOffer
      /\ \A b \in Agents \ {a} : ext'[b] = ext[b]
  BY DEF NetworkType, Extensions
<1>5. ext[a].active[1] = a
  BY DEF Addressed
<1>6. \A x \in On(<<closing, status>>) :
        x.type \in {"ack", "decline", "result"} => x.type # "ack" /\ x.offer[1] = a
  BY <1>1, <1>3, <1>5
<1>7. \E x \in On(<<closing, status>>) :
        x.type \in {"decline", "result"} /\ x.offer = ext[a].active
  BY <1>3
<1> QED BY <1>2, <1>3, <1>4, <1>6, <1>7, Speaks DEF NetworkType

LEMMA AnswerSteps ==
  ASSUME NetworkType, Addressed, NEW a \in Agents, NEW text \in AllTexts, Answer(a, text)
  PROVE  ExtensionStep(a)
<1> DEFINE result == [type |-> "result", offer |-> ext[a].active, text |-> text]
<1>1. /\ ext[a].active # NoOffer /\ Send(a, <<result, Status(TRUE)>>)
      /\ ext' = [ext EXCEPT ![a].active = NoOffer] /\ UNCHANGED toAgent
  BY DEF Answer
<1>2. ext[a].active \in Offers
  BY <1>1 DEF NetworkType, Extensions
<1>3. result \in ToBroker /\ result.type = "result" /\ result.offer = ext[a].active
  BY <1>2, OfferMessages
<1> HIDE DEF result
<1> QED BY <1>1, <1>3, CloseSteps

LEMMA GiveUpSteps ==
  ASSUME NetworkType, Addressed, NEW a \in Agents, GiveUp(a)
  PROVE  ExtensionStep(a)
<1> DEFINE decline == Decline(ext[a].active)
<1>1. /\ ext[a].active # NoOffer /\ Send(a, <<decline, Status(TRUE)>>)
      /\ ext' = [ext EXCEPT ![a].active = NoOffer] /\ UNCHANGED toAgent
  BY DEF GiveUp
<1>2. ext[a].active \in Offers
  BY <1>1 DEF NetworkType, Extensions
<1>3. decline \in ToBroker /\ decline.type = "decline" /\ decline.offer = ext[a].active
  BY <1>2, OfferMessages
<1> HIDE DEF decline
<1> QED BY <1>1, <1>3, CloseSteps

\* Work that is interrupted is declined before anything else is said.
LEMMA InterruptSays ==
  ASSUME NetworkType, Addressed, NEW a \in Agents
  PROVE  /\ Interrupt(a) \in Seq(ToBroker)
         /\ \A x \in On(Interrupt(a)) : x.type = "decline" /\ x.offer = ext[a].active /\ x.offer[1] = a
         /\ ext[a].active # NoOffer =>
              \E x \in On(Interrupt(a)) : x.type = "decline" /\ x.offer = ext[a].active
<1>1. CASE ext[a].active = NoOffer
  <2>1. Interrupt(a) = <<>>
    BY <1>1 DEF Interrupt
  <2> QED BY <1>1, <2>1, OnEmpty
<1>2. CASE ext[a].active # NoOffer
  <2> DEFINE decline == Decline(ext[a].active)
  <2>1. ext[a].active \in Offers /\ ext[a].active[1] = a
    BY <1>2 DEF NetworkType, Extensions, Addressed
  <2>2. decline \in ToBroker /\ decline.type = "decline" /\ decline.offer = ext[a].active
    BY <2>1, OfferMessages
  <2>3. Interrupt(a) = <<decline>>
    BY <1>2 DEF Interrupt
  <2> HIDE DEF decline
  <2>4. <<decline>> \in Seq(ToBroker) /\ On(<<decline>>) = {decline}
    BY <2>2, ListTypes, OnLists
  <2> QED BY <1>2, <2>1, <2>2, <2>3, <2>4
<1> QED BY <1>1, <1>2

LEMMA ToggleSteps ==
  ASSUME NetworkType, Addressed, NEW a \in Agents, Toggle(a)
  PROVE  ExtensionStep(a)
<1> DEFINE update == Update(a, "here", ~ext[a].allowed, ext[a].seen)
           first == IF ext[a].allowed THEN Interrupt(a) ELSE <<>>
           active == IF ext[a].allowed THEN NoOffer ELSE ext[a].active
<1>1. /\ Send(a, first \o <<update>>) /\ UNCHANGED toAgent
      /\ ext' = [ext EXCEPT ![a].allowed = ~@, ![a].active = active]
  BY DEF Toggle
<1>2. ext[a] \in Extensions
  BY DEF NetworkType
<1>3. update \in ToBroker /\ update.type = "update"
  <2>1. (~ext[a].allowed) \in BOOLEAN /\ ext[a].seen \in Nat /\ "here" \in Groups
    BY <1>2 DEF Extensions, Groups
  <2> QED BY <2>1, UpdateType
<1>4. /\ first \in Seq(ToBroker)
      /\ \A x \in On(first) : x.type = "decline" /\ x.offer[1] = a
      /\ ext[a].allowed /\ ext[a].active # NoOffer =>
           \E x \in On(first) : x.type = "decline" /\ x.offer = ext[a].active
  BY InterruptSays, OnEmpty
<1>5. active \in Offers \cup {NoOffer} /\ ext[a].allowed \in BOOLEAN
      /\ (active = ext[a].active \/ (active = NoOffer /\ ext[a].allowed /\ ext[a].active # NoOffer))
  BY <1>2 DEF Extensions
<1> HIDE DEF update, first, active
<1> DEFINE last == <<update>>
           msgs == first \o last
<1>6. last \in Seq(ToBroker) /\ On(last) = {update}
  BY <1>3, ListTypes, OnLists
<1>6a. Send(a, msgs)
  BY <1>1
<1> HIDE DEF last
<1>7. msgs \in Seq(ToBroker) /\ On(msgs) = On(first) \cup {update}
  BY <1>4, <1>6, OnConcat
<1> HIDE DEF msgs
<1>8. /\ ext' \in [Agents -> Extensions] /\ ext'[a].active = active
      /\ \A b \in Agents \ {a} : ext'[b] = ext[b]
  BY <1>1, <1>2, <1>5 DEF NetworkType, Extensions
<1>9. \A x \in On(msgs) :
        /\ x.type \in {"ack", "decline", "result"} => x.offer[1] = a
        /\ x.type # "ack"
  BY <1>3, <1>4, <1>7
<1>10. \/ ext'[a].active = ext[a].active
       \/ /\ ext'[a].active = NoOffer
          /\ \E x \in On(msgs) :
               x.type \in {"decline", "result"} /\ x.offer = ext[a].active
  BY <1>4, <1>5, <1>7, <1>8
<1> QED BY <1>1, <1>6a, <1>7, <1>8, <1>9, <1>10, Speaks DEF NetworkType

LEMMA LeaveSteps ==
  ASSUME NetworkType, Addressed, NEW a \in Agents, Leave(a)
  PROVE  ExtensionStep(a)
<1> DEFINE leave == [type |-> "leave"]
<1>1. /\ Send(a, Interrupt(a) \o <<leave>>) /\ UNCHANGED toAgent
      /\ ext' = [ext EXCEPT ![a].at = "none", ![a].active = NoOffer]
  BY DEF Leave
<1>2. leave \in ToBroker /\ leave.type = "leave"
  BY DEF ToBroker
<1> HIDE DEF leave
<1> DEFINE last == <<leave>>
           msgs == Interrupt(a) \o last
<1>3. last \in Seq(ToBroker) /\ On(last) = {leave}
  BY <1>2, ListTypes, OnLists
<1>6. Send(a, msgs)
  BY <1>1
<1> HIDE DEF last
<1>4. msgs \in Seq(ToBroker) /\ On(msgs) = On(Interrupt(a)) \cup {leave}
  BY <1>3, InterruptSays, OnConcat
<1>5. /\ ext' \in [Agents -> Extensions] /\ ext'[a].active = NoOffer
      /\ \A b \in Agents \ {a} : ext'[b] = ext[b]
  BY ZenonT(60), <1>1 DEF NetworkType, Extensions, Groups
<1> HIDE DEF msgs
<1>7. \A x \in On(msgs) : x.type # "ack" /\ (x.type \in {"ack", "decline", "result"} => x.offer[1] = a)
  BY <1>2, <1>4, InterruptSays
<1>8. \/ ext'[a].active = ext[a].active
      \/ /\ ext'[a].active = NoOffer
         /\ \E x \in On(msgs) : x.type \in {"decline", "result"} /\ x.offer = ext[a].active
  BY <1>4, <1>5, InterruptSays
<1> QED BY <1>1, <1>4, <1>5, <1>6, <1>7, <1>8, Speaks DEF NetworkType

LEMMA JoinSteps ==
  ASSUME NetworkType, NEW a \in Agents, NEW group \in {"here", "other"}, Join(a, group)
  PROVE  ExtensionStep(a)
<1> DEFINE join == [type |-> "join", group |-> group]
<1>1. /\ Send(a, <<join>>) /\ UNCHANGED toAgent /\ ext' = [ext EXCEPT ![a].at = "joining"]
  BY DEF Join
<1>2. join \in ToBroker /\ join.type = "join"
  BY DEF ToBroker
<1> HIDE DEF join
<1>3. <<join>> \in Seq(ToBroker) /\ On(<<join>>) = {join}
  BY <1>2, ListTypes, OnLists
<1>4. /\ ext' \in [Agents -> Extensions] /\ ext'[a].active = ext[a].active
      /\ \A b \in Agents \ {a} : ext'[b] = ext[b]
  BY <1>1 DEF NetworkType, Extensions
<1> QED BY <1>1, <1>2, <1>3, <1>4, Speaks DEF NetworkType

LEMMA RestoredSays ==
  ASSUME NetworkType, ConstantsAssumption, NEW a \in Agents, NEW group
  PROVE  /\ Restored(a, group) \in Seq(ToBroker)
         /\ \A x \in On(Restored(a, group)) : x.type \in {"update", "status"}
<1> DEFINE status == Status(TRUE)
           here == Update(a, group, ext[a].allowed, ext[a].seen)
           other == Update(a, group, TRUE, OtherSeen)
<1>1. status \in ToBroker /\ status.type = "status"
  BY StatusType
<1>2. Restored(a, group) = IF group = "here" THEN <<here, status>>
                           ELSE IF group = "other" THEN <<other, status>> ELSE <<status>>
  BY DEF Restored
<1>3. ext[a].allowed \in BOOLEAN /\ ext[a].seen \in Nat
  BY DEF NetworkType, Extensions
<1>4. group = "here" => here \in ToBroker /\ here.type = "update"
  BY <1>3, UpdateType DEF Groups
<1>5. group = "other" => other \in ToBroker /\ other.type = "update"
  BY UpdateType, ConstantsAssumption DEF Groups
<1> HIDE DEF status, here, other
<1>6. CASE group = "here"
  BY <1>1, <1>2, <1>4, <1>6, ListTypes, OnLists
<1>7. CASE group = "other"
  BY <1>1, <1>2, <1>5, <1>7, ListTypes, OnLists
<1>8. CASE group \notin {"here", "other"}
  BY <1>1, <1>2, <1>8, ListTypes, OnLists
<1> QED BY <1>6, <1>7, <1>8

LEMMA ReceiveSnapshotSteps ==
  ASSUME NetworkType, Addressed, NEW a \in Agents, ReceiveSnapshot(a)
  PROVE  ExtensionStep(a)
<1> DEFINE d == Head(toAgent[a])
<1>1. /\ toAgent[a] # <<>> /\ d.type = "snapshot"
      /\ toAgent' = [toAgent EXCEPT ![a] = Tail(@)]
      /\ ext' = [ext EXCEPT ![a].at = d.group]
      /\ Send(a, Restored(a, d.group))
  BY DEF ReceiveSnapshot
<1>2. /\ toAgent' \in [Agents -> Seq(ToAgent)]
      /\ \A b \in Agents : On(toAgent'[b]) \subseteq On(toAgent[b])
      /\ d \in ToAgent
  BY <1>1, HeadOfAgent
<1>3. d.group \in Groups
  BY <1>1, <1>2 DEF ToAgent, Groups
<1> HIDE DEF d
<1>4. /\ ext' \in [Agents -> Extensions] /\ ext'[a].active = ext[a].active
      /\ \A b \in Agents \ {a} : ext'[b] = ext[b]
  BY <1>1, <1>3 DEF NetworkType, Extensions
<1>5. /\ Restored(a, d.group) \in Seq(ToBroker)
      /\ \A x \in On(Restored(a, d.group)) : x.type \in {"update", "status"}
  BY RestoredSays, ConstantsAssumption
<1> QED BY <1>1, <1>2, <1>4, <1>5, Speaks

LEMMA ResumeSteps ==
  ASSUME NetworkType, GroupType, NEW a \in Agents, Resume(a)
  PROVE  ExtensionStep(a)
<1>1. /\ Send(a, Restored(a, member[a].group)) /\ UNCHANGED toAgent
      /\ ext' = [ext EXCEPT ![a].linked = TRUE, ![a].at = member[a].group]
  BY DEF Resume
<1>2. member[a].group \in Groups
  BY DEF GroupType, Members
<1>3. /\ ext' \in [Agents -> Extensions] /\ ext'[a].active = ext[a].active
      /\ \A b \in Agents \ {a} : ext'[b] = ext[b]
  BY ZenonT(60), <1>1, <1>2 DEF NetworkType, Extensions
<1>4. /\ Restored(a, member[a].group) \in Seq(ToBroker)
      /\ \A x \in On(Restored(a, member[a].group)) : x.type \in {"update", "status"}
  BY RestoredSays, ConstantsAssumption
<1> QED BY <1>1, <1>3, <1>4, Speaks DEF NetworkType

Speaking(a) ==
  \/ ExtensionReceives(a) \/ Works(a) \/ Toggle(a) \/ Leave(a) \/ Resume(a)
  \/ \E group \in {"here", "other"} : Join(a, group)

LEMMA ExtensionSteps ==
  ASSUME NetworkType, GroupType, Addressed, NEW a \in Agents, Speaking(a)
  PROVE  ExtensionStep(a)
  BY DeclineOfferSteps, AcceptOfferSteps, ReceiveSnapshotSteps, AnswerSteps, GiveUpSteps,
     ToggleSteps, LeaveSteps, ResumeSteps, JoinSteps
     DEF Speaking, ExtensionReceives, Works, AllTexts

------------------------------------------------------------------------------
(* Steps of the broker *)

LEMMA Hears ==
  ASSUME NetworkType, Addressed, NEW a \in Agents, NEW type, Receive(a, type)
  PROVE  /\ toBroker' \in [Agents -> Seq(ToBroker)]
         /\ Message(a) \in ToBroker /\ Message(a).type = type
         /\ On(toBroker[a]) = On(toBroker'[a]) \cup {Message(a)}
         /\ \A b \in Agents \ {a} : toBroker'[b] = toBroker[b]
         /\ type \in {"ack", "decline", "result"} => /\ Message(a).offer \in Offers
                                                     /\ Message(a).offer[1] = a
<1>1. toBroker[a] \in Seq(ToBroker) /\ toBroker[a] # <<>>
  BY DEF NetworkType, Receive
<1>2. /\ Message(a) \in ToBroker /\ Tail(toBroker[a]) \in Seq(ToBroker)
      /\ Message(a).type = type
  BY <1>1 DEF Receive, Message
<1>3. /\ On(toBroker[a]) = On(Tail(toBroker[a])) \cup {Message(a)}
  BY <1>1, OnTail DEF Message
<1>4. /\ toBroker' = [toBroker EXCEPT ![a] = Tail(toBroker[a])]
  BY DEF Receive
<1>5. /\ toBroker' \in [Agents -> Seq(ToBroker)] /\ toBroker'[a] = Tail(toBroker[a])
      /\ \A b \in Agents \ {a} : toBroker'[b] = toBroker[b]
  BY <1>2, <1>4 DEF NetworkType
<1>6. type \in {"ack", "decline", "result"} => Message(a).offer \in Offers
  BY <1>2 DEF ToBroker
<1>7. type \in {"ack", "decline", "result"} => Message(a).offer[1] = a
  BY <1>2, <1>3 DEF Addressed
<1> QED BY <1>2, <1>3, <1>5, <1>6, <1>7

\* What a message to the broker says, by its type
LEMMA MessageFields ==
  ASSUME NEW x \in ToBroker
  PROVE  /\ x.type = "result" => x.text \in AllTexts
         /\ x.type = "update" => x.group \in Groups /\ x.enabled \in BOOLEAN
         /\ x.type = "status" => x.idle \in BOOLEAN
         /\ x.type = "join" => x.group \in {"here", "other"}
  BY DEF ToBroker

LEMMA Appends ==
  ASSUME NEW S, NEW s \in Seq(S), NEW x \in S
  PROVE  /\ Append(s, x) \in Seq(S) /\ Len(s) \in Nat
         /\ Len(Append(s, x)) = Len(s) + 1
         /\ \A i \in 1..Len(s) : Append(s, x)[i] = s[i]
         /\ Append(s, x)[Len(s) + 1] = x
  OBVIOUS

LEMMA CancelType ==
  ASSUME CoordinatorType, NEW S \in SUBSET Offers, Cancel(S)
  PROVE  /\ pending' \in [Offers -> [held : BOOLEAN, observed : Nat, acked : BOOLEAN]]
         /\ cancelled' \in SUBSET Offers
         /\ \A o \in Offers : pending'[o] = IF o \in S THEN NoEntry ELSE pending[o]
         /\ cancelled' = cancelled \cup {o \in S : pending[o].held}
  BY DEF CoordinatorType, Cancel, NoEntry

\* Everything that an offer is asked about by Deliver
LEMMA DeliverSteps ==
  ASSUME Types, Deliver
  PROVE  \E sent \in SUBSET Agents :
           /\ \A a \in sent : next[a] <= MaxOffers /\ <<a, next[a]>> \in Offers
           /\ \A a \in Agents : next'[a] = IF a \in sent THEN next[a] + 1 ELSE next[a]
           /\ \A o \in Offers :
                pending'[o] = IF o[1] \in sent /\ o[2] = next[o[1]]
                              THEN [held |-> TRUE, observed |-> route.observed, acked |-> FALSE]
                              ELSE pending[o]
           /\ \A a \in Agents : \A x \in On(toAgent'[a]) :
                \/ x \in On(toAgent[a])
                \/ a \in sent /\ x.offer = <<a, next[a]>>
           /\ toAgent' \in [Agents -> Seq(ToAgent)]
           /\ next' \in [Agents -> Nat \ {0}]
           /\ pending' \in [Offers -> [held : BOOLEAN, observed : Nat, acked : BOOLEAN]]
<1> DEFINE sent == {a \in route.targets : Reachable(a)}
           msg(a) == [type |-> "deliver", offer |-> <<a, next[a]>>, seq |-> Latest]
<1>1. /\ pending' = [o \in Offers |->
              IF o[1] \in sent /\ o[2] = next[o[1]]
              THEN [held |-> TRUE, observed |-> route.observed, acked |-> FALSE]
              ELSE pending[o]]
      /\ toAgent' = [a \in Agents |-> IF a \in sent THEN Append(toAgent[a], msg(a))
                                      ELSE toAgent[a]]
      /\ next' = [a \in Agents |-> IF a \in sent THEN next[a] + 1 ELSE next[a]]
  BY DEF Deliver
<1>2. sent \subseteq Agents /\ sent \subseteq route.targets
  BY DEF Types, CoordinatorType
<1> HIDE DEF sent
<1>3. \A a \in sent : next[a] <= MaxOffers /\ <<a, next[a]>> \in Offers
  BY <1>2, ConstantsAssumption DEF Types, Addressed, CoordinatorType, Offers
<1>4. Latest \in Nat
  BY DEF Types, GroupType, Latest
<1>5. \A a \in sent : msg(a) \in ToAgent /\ msg(a).offer = <<a, next[a]>>
  BY <1>3, <1>4 DEF ToAgent
<1> HIDE DEF msg
<1>6. ASSUME NEW a \in Agents
      PROVE  /\ toAgent'[a] \in Seq(ToAgent)
             /\ \A x \in On(toAgent'[a]) :
                  x \in On(toAgent[a]) \/ (a \in sent /\ x.offer = <<a, next[a]>>)
  <2>1. toAgent[a] \in Seq(ToAgent)
    BY DEF Types, NetworkType
  <2>2. CASE a \in sent
    <3>1. toAgent'[a] = Append(toAgent[a], msg(a)) /\ msg(a) \in ToAgent
      BY <1>1, <1>5, <2>2
    <3>2. On(toAgent'[a]) = On(toAgent[a]) \cup {msg(a)} /\ toAgent'[a] \in Seq(ToAgent)
      BY <2>1, <3>1, OnAppend, Appends
    <3> QED BY <1>5, <2>2, <3>2
  <2>3. CASE a \notin sent
    BY <1>1, <2>1, <2>3
  <2> QED BY <2>2, <2>3
<1>7. toAgent' \in [Agents -> Seq(ToAgent)]
  BY <1>1, <1>6
<1>8. next' \in [Agents -> Nat \ {0}]
  BY <1>1 DEF Types, CoordinatorType
<1>9. pending' \in [Offers -> [held : BOOLEAN, observed : Nat, acked : BOOLEAN]]
  BY <1>1 DEF Types, CoordinatorType
<1> QED BY <1>1, <1>2, <1>3, <1>6, <1>7, <1>8, <1>9

------------------------------------------------------------------------------
(* Type correctness *)

LEMMA PublishSays ==
  ASSUME GroupType, NEW o \in Offers, NEW observed \in Nat, NEW judged \in Nat,
         NEW text \in AllTexts, Publish(o, observed, judged, text)
  PROVE  \/ said' = said
         \/ \E u \in Utterances :
              /\ said' = Append(said, u)
              /\ u.offer = o /\ u.observed = observed /\ u.judged = judged /\ u.text = text
<1> DEFINE u == [offer |-> o, observed |-> observed, judged |-> judged, text |-> text]
<1>1. u \in Utterances /\ u.offer = o /\ u.observed = observed /\ u.judged = judged /\ u.text = text
  BY DEF Utterances
<1>2. said' = said \/ said' = Append(said, u)
  BY DEF Publish
<1> HIDE DEF u
<1> QED BY <1>1, <1>2

LEMMA SaySays ==
  ASSUME GroupType, NEW text \in AllTexts, Say(text)
  PROVE  \E u \in Utterances :
           /\ said' = Append(said, u)
           /\ u.offer = NoOffer /\ u.observed = Latest /\ u.judged = Latest /\ u.text = text
<1> DEFINE u == [offer |-> NoOffer, observed |-> Latest, judged |-> Latest, text |-> text]
<1>1. Latest \in Nat
  BY DEF GroupType, Latest
<1>2. /\ u \in Utterances /\ u.offer = NoOffer /\ u.observed = Latest /\ u.judged = Latest
      /\ u.text = text
  BY <1>1 DEF Utterances
<1>3. said' = Append(said, u)
  BY DEF Say
<1> HIDE DEF u
<1> QED BY <1>2, <1>3

\* The result that is taken from the queue: its offer is not pending, or it is
\* no longer, and then nothing comes of it, it is published or it is judged.
LEMMA StartResultSteps ==
  ASSUME Types, StartResult
  PROVE  \E o \in Offers, text \in AllTexts :
           /\ queue' \in Seq(Results)
           /\ On(queue) = On(queue') \cup {[offer |-> o, text |-> text]}
           /\ job = NoJob
           /\ \/ ~pending[o].held /\ UNCHANGED <<said, pending, job, cooling>>
              \/ /\ pending[o].held /\ pending' = [pending EXCEPT ![o] = NoEntry]
                 /\ cooling' = cooling \cup {o[1]}
                 /\ \/ UNCHANGED <<said, job>>
                    \/ /\ text \in Texts /\ ~IsDuplicate(text)
                       /\ \/ /\ Publish(o, pending[o].observed, pending[o].observed, text)
                             /\ Latest = pending[o].observed /\ UNCHANGED job
                          \/ /\ UNCHANGED said
                             /\ job' = [offer |-> o, observed |-> pending[o].observed,
                                        text |-> text, phase |-> "context",
                                        version |-> config.version,
                                        judged |-> pending[o].observed]
<1>1. queue \in Seq(Results) /\ queue # <<>>
  BY DEF Types, CoordinatorType, StartResult
<1>2. /\ Head(queue) \in Results /\ Tail(queue) \in Seq(Results)
      /\ On(queue) = On(Tail(queue)) \cup {Head(queue)}
  BY <1>1, OnTail
<1>3. PICK o \in Offers, text \in AllTexts : Head(queue) = [offer |-> o, text |-> text]
  BY <1>2 DEF Results
<1>4. Head(queue).offer = o /\ Head(queue).text = text
  BY <1>3
<1>5. job = NoJob /\ queue' = Tail(queue)
  BY DEF StartResult
<1>6. text # NoText => text \in Texts
  BY DEF AllTexts
<1>7. IF ~pending[o].held THEN UNCHANGED <<said, pending, job, cooling>>
      ELSE /\ pending' = [pending EXCEPT ![o] = NoEntry]
           /\ cooling' = cooling \cup {o[1]}
           /\ IF text = NoText \/ IsDuplicate(text)
              THEN UNCHANGED <<said, job>>
              ELSE IF UpToDate(pending[o].observed)
                   THEN Publish(o, pending[o].observed, pending[o].observed, text) /\ UNCHANGED job
                   ELSE /\ UNCHANGED said
                        /\ job' = IF ~config.ready THEN NoJob
                                  ELSE [offer |-> o, observed |-> pending[o].observed,
                                        text |-> text, phase |-> "context",
                                        version |-> config.version,
                                        judged |-> pending[o].observed]
  BY <1>4 DEF StartResult, IsPending
<1> DEFINE j == [offer |-> o, observed |-> pending[o].observed, text |-> text,
                 phase |-> "context", version |-> config.version, judged |-> pending[o].observed]
           taken == [offer |-> o, text |-> text]
<1>8. \/ ~pending[o].held /\ UNCHANGED <<said, pending, job, cooling>>
      \/ /\ pending[o].held /\ pending' = [pending EXCEPT ![o] = NoEntry]
         /\ cooling' = cooling \cup {o[1]}
         /\ \/ UNCHANGED <<said, job>>
            \/ /\ text \in Texts /\ ~IsDuplicate(text)
               /\ \/ /\ Publish(o, pending[o].observed, pending[o].observed, text)
                     /\ Latest = pending[o].observed /\ UNCHANGED job
                  \/ UNCHANGED said /\ job' = j
  <2> HIDE DEF j
  <2> QED BY <1>5, <1>6, <1>7 DEF UpToDate, j
<1>9. queue' \in Seq(Results) /\ On(queue) = On(queue') \cup {taken}
  BY <1>2, <1>3, <1>5
<1> QED BY <1>5, <1>8, <1>9

LEMMA FreshnessSteps ==
  ASSUME Types, NEW publish \in BOOLEAN, FreshnessAnswers(publish)
  PROVE  /\ job \in Jobs /\ job.phase = "asked" /\ job' = NoJob
         /\ job.offer \in Offers /\ job.text \in Texts
         /\ job.observed \in Nat /\ job.judged \in Nat
         /\ \/ said' = said
            \/ /\ job.version = config.version
               /\ Publish(job.offer, job.observed, job.judged, job.text)
<1>1. job \in Jobs /\ job.phase = "asked"
  BY DEF Types, CoordinatorType, FreshnessAnswers
<1>2. job.offer \in Offers /\ job.text \in Texts /\ job.observed \in Nat /\ job.judged \in Nat
  BY <1>1 DEF Jobs, NoJob
<1> QED BY <1>1, <1>2 DEF FreshnessAnswers, SameKey

LEMMA AppendSaid ==
  ASSUME GroupType, NEW u \in Utterances, said' = Append(said, u)
  PROVE  /\ said' \in Seq(Utterances) /\ Len(said) \in Nat /\ Len(said') = Len(said) + 1
         /\ \A i \in 1..Len(said) : said'[i] = said[i]
         /\ said'[Len(said) + 1] = u
  BY Appends DEF GroupType

\* The bookkeeping of addresses needs only what is on its way.
LEMMA AddressedKept ==
  ASSUME Addressed, UNCHANGED <<ext, next>>, route'.targets \subseteq route.targets,
         \A a \in Agents : On(toBroker'[a]) \subseteq On(toBroker[a]),
         \A a \in Agents : \A x \in On(toAgent'[a]) :
           x \in On(toAgent[a]) \/ (x.type = "deliver" => x.offer[1] = a)
  PROVE  Addressed'
  BY DEF Addressed, On

LEMMA HeardType ==
  ASSUME Types, NEW a \in Agents, BrokerReceives(a)
  PROVE  Types'
<1>0. GroupType /\ CoordinatorType /\ NetworkType /\ Addressed
  BY DEF Types
<1> DEFINE m == Message(a)
<1>1. PICK type : Receive(a, type) /\ UNCHANGED <<ext, next, route>>
  BY DEF BrokerReceives, HandleAck, HandleDecline, HandleResult, HandleUpdate, HandleStatus,
         HandleLeave, HandleJoin, coordinator
<1>2. /\ toBroker' \in [Agents -> Seq(ToBroker)]
      /\ \A b \in Agents : On(toBroker'[b]) \subseteq On(toBroker[b])
      /\ m \in ToBroker /\ m.type = type
      /\ type \in {"ack", "decline", "result"} => m.offer \in Offers
  BY <1>0, <1>1, Hears
<1>3. /\ type = "result" => m.text \in AllTexts
      /\ type = "update" => m.group \in Groups /\ m.enabled \in BOOLEAN
      /\ type = "status" => m.idle \in BOOLEAN
      /\ type = "join" => m.group \in {"here", "other"}
  BY <1>2, MessageFields
<1> HIDE DEF m
<1>4. ASSUME toAgent' \in [Agents -> Seq(ToAgent)],
             \A b \in Agents : \A x \in On(toAgent'[b]) : x \in On(toAgent[b]) \/ x.type = "snapshot",
             GroupType', CoordinatorType'
      PROVE  Types'
  <2>1. NetworkType'
    BY <1>0, <1>1, <1>2, <1>4 DEF NetworkType
  <2>2. Addressed'
    BY <1>0, <1>1, <1>2, <1>4, AddressedKept
  <2> QED BY <1>4, <2>1, <2>2 DEF Types
<1>5. ASSUME UNCHANGED toAgent, GroupType', CoordinatorType' PROVE Types'
  BY <1>0, <1>4, <1>5 DEF NetworkType
<1>6. CASE HandleAck(a)
  <2>1. pending' = [pending EXCEPT ![m.offer].acked = Acked(m.offer)]
        /\ UNCHANGED <<said, config, member, route, next, queue, job, cooling, toAgent, cancelled>>
    BY <1>6 DEF HandleAck, m
  <2>2. type = "ack"
    BY <1>1, <1>6 DEF HandleAck, Receive
  <2>3. m.offer \in Offers /\ Acked(m.offer) \in BOOLEAN
    BY <1>0, <1>2, <2>2 DEF Acked, CoordinatorType
  <2>4. pending' \in [Offers -> [held : BOOLEAN, observed : Nat, acked : BOOLEAN]]
    BY <1>0, <2>1, <2>3 DEF CoordinatorType
  <2> QED BY <1>0, <1>5, <2>1, <2>4 DEF GroupType, CoordinatorType
<1>7. CASE HandleDecline(a)
  <2>1. Cancel({m.offer})
        /\ UNCHANGED <<said, config, member, route, next, queue, job, cooling, toAgent>>
    BY <1>7 DEF HandleDecline, m
  <2>2. type = "decline"
    BY <1>1, <1>7 DEF HandleDecline, Receive
  <2>3. {m.offer} \in SUBSET Offers
    BY <1>2, <2>2
  <2> QED BY <1>0, <1>5, <2>1, <2>3, CancelType DEF GroupType, CoordinatorType
<1>8. CASE HandleResult(a)
  <2> DEFINE r == [offer |-> m.offer, text |-> m.text]
  <2>1. queue' = (IF pending[m.offer].held THEN Append(queue, r) ELSE queue)
        /\ UNCHANGED <<said, config, member, route, pending, next, job, cooling, toAgent, cancelled>>
    BY <1>8 DEF HandleResult, m
  <2>2. type = "result"
    BY <1>1, <1>8 DEF HandleResult, Receive
  <2>3. r \in Results
    BY <1>2, <1>3, <2>2 DEF Results
  <2> HIDE DEF r
  <2>4. queue' \in Seq(Results)
    BY <1>0, <2>1, <2>3, Appends DEF CoordinatorType
  <2> QED BY <1>0, <1>5, <2>1, <2>4 DEF GroupType, CoordinatorType
<1>9. CASE HandleUpdate(a)
  <2>1. /\ UNCHANGED <<said, config, route, next, queue, job, cooling, toAgent>>
        /\ \/ UNCHANGED <<member, pending, cancelled>>
           \/ /\ member' = [member EXCEPT ![a].enabled = m.enabled]
              /\ \E S \in {{}, OffersOf(a)} : Cancel(S)
    BY <1>9 DEF HandleUpdate, m
  <2>2. type = "update"
    BY <1>1, <1>9 DEF HandleUpdate, Receive
  <2>3. \A S \in {{}, OffersOf(a)} : S \in SUBSET Offers
    BY DEF OffersOf
  <2>4. /\ pending' \in [Offers -> [held : BOOLEAN, observed : Nat, acked : BOOLEAN]]
        /\ cancelled' \in SUBSET Offers
    BY <1>0, <2>1, <2>3, CancelType DEF CoordinatorType
  <2>5. member' \in [Agents -> Members]
    BY <1>0, <1>3, <2>1, <2>2 DEF GroupType, Members
  <2> QED BY <1>0, <1>5, <2>1, <2>4, <2>5 DEF GroupType, CoordinatorType
<1>10. CASE HandleStatus(a)
  <2>1. /\ UNCHANGED <<said, config, route, pending, next, queue, job, cooling, cancelled, toAgent>>
        /\ member' = [member EXCEPT ![a].idle = m.idle]
    BY <1>10 DEF HandleStatus, m, coordinator
  <2>2. type = "status"
    BY <1>1, <1>10 DEF HandleStatus, Receive
  <2>3. member' \in [Agents -> Members]
    BY <1>0, <1>3, <2>1, <2>2 DEF GroupType, Members
  <2> QED BY <1>0, <1>5, <2>1, <2>3 DEF GroupType, CoordinatorType
<1>11. CASE HandleLeave(a)
  <2>1. /\ UNCHANGED <<said, config, route, next, queue, job, cooling, toAgent>>
        /\ member' = [member EXCEPT ![a].group = "none"] /\ Cancel(OffersOf(a))
    BY <1>11 DEF HandleLeave
  <2>2. OffersOf(a) \in SUBSET Offers
    BY DEF OffersOf
  <2>3. member' \in [Agents -> Members]
    BY <1>0, <2>1 DEF GroupType, Members, Groups
  <2> QED BY <1>0, <1>5, <2>1, <2>2, <2>3, CancelType DEF GroupType, CoordinatorType
<1>12. CASE HandleJoin(a)
  <2> DEFINE snapshot == [type |-> "snapshot", group |-> m.group]
  <2>1. /\ UNCHANGED <<said, config, route, pending, next, queue, job, cooling, cancelled>>
        /\ member' = [member EXCEPT ![a] =
             [group |-> m.group, online |-> TRUE, idle |-> TRUE, enabled |-> TRUE]]
        /\ toAgent' = [toAgent EXCEPT ![a] = Append(@, snapshot)]
    BY <1>12 DEF HandleJoin, m, coordinator
  <2>2. type = "join"
    BY <1>1, <1>12 DEF HandleJoin, Receive
  <2>3. snapshot \in ToAgent /\ snapshot.type = "snapshot" /\ m.group \in Groups
    BY <1>3, <2>2 DEF ToAgent, Groups
  <2>4. member' \in [Agents -> Members]
    BY <1>0, <2>1, <2>3 DEF GroupType, Members
  <2> HIDE DEF snapshot
  <2>5. toAgent[a] \in Seq(ToAgent)
    BY <1>0 DEF NetworkType
  <2>6. /\ Append(toAgent[a], snapshot) \in Seq(ToAgent)
        /\ On(Append(toAgent[a], snapshot)) = On(toAgent[a]) \cup {snapshot}
    BY <2>3, <2>5, OnAppend, Appends
  <2>7. toAgent' \in [Agents -> Seq(ToAgent)]
        /\ \A b \in Agents : \A x \in On(toAgent'[b]) : x \in On(toAgent[b]) \/ x.type = "snapshot"
    BY <1>0, <2>1, <2>3, <2>6 DEF NetworkType
  <2> QED BY <1>0, <1>4, <2>1, <2>4, <2>7 DEF GroupType, CoordinatorType
<1> QED
  BY <1>6, <1>7, <1>8, <1>9, <1>10, <1>11, <1>12 DEF BrokerReceives

\* What is judged moves on without another answer.
LEMMA JobSteps ==
  ASSUME NEW j \in Jobs, j.phase # "none", NEW n \in Nat
  PROVE  /\ j # NoJob /\ j.offer \in Offers /\ j.text \in Texts /\ j.version \in Nat
         /\ j.observed \in Nat /\ j.judged \in Nat
         /\ [j EXCEPT !.phase = "queued"] \in Jobs
         /\ [j EXCEPT !.phase = "asked", !.judged = n] \in Jobs
<1> DEFINE Running == [offer : Offers, observed : Nat, text : Texts,
                       phase : {"context", "queued", "asked"}, version : Nat, judged : Nat]
<1>1. j # NoJob
  BY DEF NoJob
<1>2. j \in Running
  BY <1>1 DEF Jobs
<1>3. [j EXCEPT !.phase = "queued"] \in Running
  BY <1>2
<1>4. [j EXCEPT !.phase = "asked", !.judged = n] \in Running
  BY <1>2
<1>5. /\ j.offer \in Offers /\ j.text \in Texts /\ j.version \in Nat
      /\ j.observed \in Nat /\ j.judged \in Nat
  BY <1>2
<1> QED BY <1>1, <1>3, <1>4, <1>5 DEF Jobs

LEMMA NoneJudged == NoJob \in Jobs
  BY DEF Jobs

LEMMA ConfigSteps ==
  ASSUME GroupType, NEW r \in BOOLEAN
  PROVE  /\ [config EXCEPT !.ready = r, !.version = @ + 1] \in [ready : BOOLEAN, version : Nat]
         /\ [config EXCEPT !.ready = r, !.version = @ + 1].version = config.version + 1
         /\ config.version \in Nat
<1>1. config \in [ready : BOOLEAN, version : Nat] /\ config.version \in Nat
  BY DEF GroupType
<1> DEFINE v == config.version + 1
           c == [config EXCEPT !.ready = r, !.version = v]
<1>2. v \in Nat
  BY <1>1
<1> HIDE DEF v
<1>3. c \in [ready : BOOLEAN, version : Nat] /\ c.version = v
  BY <1>1, <1>2
<1>4. c = [config EXCEPT !.ready = r, !.version = @ + 1]
  BY DEF v
<1> QED BY <1>1, <1>3, <1>4 DEF v

LEMMA OnlineSteps ==
  ASSUME GroupType, NEW a \in Agents, NEW b \in BOOLEAN
  PROVE  [member EXCEPT ![a].online = b] \in [Agents -> Members]
  BY DEF GroupType, Members

LEMMA NextTypes == Types /\ [Next]_vars => Types'
<1> SUFFICES ASSUME Types, [Next]_vars PROVE Types'
  OBVIOUS
<1>0. GroupType /\ CoordinatorType /\ NetworkType /\ Addressed
  BY DEF Types
\* Steps on which nothing travels
<1>1. ASSUME UNCHANGED <<toBroker, toAgent, ext, next>>, route'.targets \subseteq route.targets,
             GroupType', CoordinatorType'
      PROVE  Types'
  <2>1. NetworkType'
    BY <1>0, <1>1 DEF NetworkType
  <2>2. Addressed'
    BY <1>0, <1>1, AddressedKept
  <2> QED BY <1>1, <2>1, <2>2 DEF Types
<1>2. ASSUME NEW text \in AllTexts, Say(text) PROVE Types'
  <2>1. said' \in Seq(Utterances)
    BY <1>0, <1>2, SaySays, AppendSaid
  <2>2. UNCHANGED <<config, member, cooling, route, pending, next, queue, job, cancelled, toBroker,
                    toAgent, ext>>
    BY <1>2 DEF Say, coordinator
  <2> QED BY <1>0, <1>1, <2>1, <2>2 DEF GroupType, CoordinatorType
<1>3. ASSUME NEW targets \in SUBSET Agents, Select(targets) PROVE Types'
  <2>1. /\ route' = [targets |-> targets, observed |-> Latest, version |-> config.version]
        /\ \A a \in targets : next[a] <= MaxOffers
        /\ UNCHANGED <<said, config, member, cooling, pending, next, queue, job, cancelled, toBroker,
                       toAgent, ext>>
    BY <1>3 DEF Select
  <2>2. route' \in [targets : SUBSET Agents, observed : Nat, version : Nat] /\ route'.targets = targets
    BY <1>0, <2>1 DEF GroupType, Latest
  <2>3. GroupType' /\ CoordinatorType' /\ NetworkType'
    BY <1>0, <2>1, <2>2 DEF GroupType, CoordinatorType, NetworkType
  <2>4. Addressed'
    BY <1>0, <2>1, <2>2 DEF Addressed
  <2> QED BY <2>3, <2>4 DEF Types
<1>4. CASE Deliver
  <2>1. PICK sent \in SUBSET Agents :
           /\ \A a \in Agents : \A x \in On(toAgent'[a]) :
                \/ x \in On(toAgent[a])
                \/ a \in sent /\ x.offer = <<a, next[a]>>
           /\ toAgent' \in [Agents -> Seq(ToAgent)]
           /\ next' \in [Agents -> Nat \ {0}]
           /\ pending' \in [Offers -> [held : BOOLEAN, observed : Nat, acked : BOOLEAN]]
    BY <1>4, DeliverSteps
  <2>2. /\ route' = NoRoute
        /\ UNCHANGED <<said, config, member, cooling, queue, job, cancelled, toBroker, ext>>
    BY <1>4 DEF Deliver
  <2>3. GroupType' /\ NetworkType'
    BY <1>0, <2>1, <2>2 DEF GroupType, NetworkType
  <2>4. CoordinatorType'
    BY <1>0, <2>1, <2>2 DEF CoordinatorType, NoRoute
  <2>5. Addressed'
    BY <1>0, <2>1, <2>2 DEF Addressed, NoRoute
  <2> QED BY <2>3, <2>4, <2>5 DEF Types
<1>5. ASSUME NEW o \in Offers, Expire(o) PROVE Types'
  <2>1. Cancel({o}) /\ UNCHANGED <<said, config, member, cooling, route, next, queue, job, toBroker,
                                   toAgent, ext>>
    BY <1>5 DEF Expire
  <2>2. /\ pending' \in [Offers -> [held : BOOLEAN, observed : Nat, acked : BOOLEAN]]
        /\ cancelled' \in SUBSET Offers
    BY <1>0, <2>1, CancelType
  <2> QED BY <1>0, <1>1, <2>1, <2>2 DEF GroupType, CoordinatorType
<1>6. CASE StartResult
  <2>1. PICK o \in Offers, text \in AllTexts :
           /\ queue' \in Seq(Results)
           /\ \/ UNCHANGED <<said, pending, job, cooling>>
              \/ /\ pending' = [pending EXCEPT ![o] = NoEntry]
                 /\ cooling' = cooling \cup {o[1]}
                 /\ \/ UNCHANGED <<said, job>>
                    \/ /\ text \in Texts
                       /\ \/ /\ Publish(o, pending[o].observed, pending[o].observed, text)
                             /\ UNCHANGED job
                          \/ /\ UNCHANGED said
                             /\ job' = [offer |-> o, observed |-> pending[o].observed,
                                        text |-> text, phase |-> "context",
                                        version |-> config.version,
                                        judged |-> pending[o].observed]
    BY <1>6, StartResultSteps
  <2>2. UNCHANGED <<config, member, route, next, toBroker, toAgent, ext, cancelled>>
    BY <1>6 DEF StartResult
  <2>3. pending[o].observed \in Nat /\ o[1] \in Agents /\ config.version \in Nat
    BY <1>0 DEF GroupType, CoordinatorType, Offers
  <2>4. said' \in Seq(Utterances)
    <3>1. CASE UNCHANGED said
      BY <1>0, <3>1 DEF GroupType
    <3>2. CASE Publish(o, pending[o].observed, pending[o].observed, text)
      <4>1. pending[o].observed \in Nat
        BY <2>3
      <4>2. said' = said \/ \E u \in Utterances : said' = Append(said, u)
        BY <1>0, <4>1, <3>2, PublishSays
      <4> QED BY <1>0, <4>2, AppendSaid DEF GroupType
    <3> QED BY <2>1, <3>1, <3>2
  <2>5. pending' \in [Offers -> [held : BOOLEAN, observed : Nat, acked : BOOLEAN]]
    <3>1. UNCHANGED pending \/ pending' = [pending EXCEPT ![o] = NoEntry]
      BY <2>1
    <3>2. NoEntry \in [held : BOOLEAN, observed : Nat, acked : BOOLEAN]
      BY DEF NoEntry
    <3> QED BY <1>0, <3>1, <3>2 DEF CoordinatorType
  <2>6. job' \in Jobs
    BY <1>0, <2>1, <2>3 DEF CoordinatorType, Jobs
  <2>7. cooling' \in SUBSET Agents
    BY <1>0, <2>1, <2>3 DEF GroupType
  <2>8. GroupType'
    BY <1>0, <2>2, <2>4, <2>7 DEF GroupType
  <2>9. CoordinatorType'
    BY <1>0, <2>1, <2>2, <2>5, <2>6 DEF CoordinatorType
  <2> QED BY <1>1, <2>2, <2>8, <2>9
<1>7. ASSUME NEW complete \in BOOLEAN, ContextReady(complete) PROVE Types'
  <2>1. /\ job.phase = "context" /\ job' \in {[job EXCEPT !.phase = "queued"], NoJob}
        /\ UNCHANGED <<said, config, member, cooling, route, pending, next, queue, cancelled,
                       toBroker, toAgent, ext>>
    BY <1>7 DEF ContextReady
  <2>2. job' \in Jobs
    <3>1. job \in Jobs /\ job.phase # "none"
      BY <1>0, <2>1 DEF CoordinatorType
    <3> QED BY <2>1, <3>1, JobSteps, NoneJudged
  <2>3. GroupType' /\ CoordinatorType'
    BY <1>0, <2>1, <2>2 DEF GroupType, CoordinatorType
  <2> QED BY <1>1, <2>1, <2>3
<1>8. CASE AskFreshness
  <2>1. /\ job.phase \in {"queued", "asked"} /\ job' = [job EXCEPT !.phase = "asked", !.judged = Latest]
        /\ UNCHANGED <<said, config, member, cooling, route, pending, next, queue, cancelled,
                       toBroker, toAgent, ext>>
    BY <1>8 DEF AskFreshness
  <2>2. job' \in Jobs
    <3>1. job \in Jobs /\ job.phase # "none" /\ Latest \in Nat
      BY <1>0, <2>1 DEF GroupType, CoordinatorType, Latest
    <3> QED BY <2>1, <3>1, JobSteps
  <2>3. GroupType' /\ CoordinatorType'
    BY <1>0, <2>1, <2>2 DEF GroupType, CoordinatorType
  <2> QED BY <1>1, <2>1, <2>3
<1>9. ASSUME NEW publish \in BOOLEAN, FreshnessAnswers(publish) PROVE Types'
  <2>1. /\ job.offer \in Offers /\ job.text \in Texts
        /\ job.observed \in Nat /\ job.judged \in Nat /\ job' = NoJob
        /\ \/ said' = said
           \/ Publish(job.offer, job.observed, job.judged, job.text)
    BY <1>9, FreshnessSteps
  <2>2. UNCHANGED <<config, member, cooling, route, pending, next, queue, cancelled,
                    toBroker, toAgent, ext>>
    BY <1>9 DEF FreshnessAnswers
  <2>3. said' \in Seq(Utterances)
    <3>1. CASE UNCHANGED said
      BY <1>0, <3>1 DEF GroupType
    <3>2. CASE Publish(job.offer, job.observed, job.judged, job.text)
      BY <1>0, <2>1, <3>2, PublishSays, AppendSaid DEF GroupType, AllTexts
    <3> QED BY <2>1, <3>1, <3>2
  <2>4. GroupType' /\ CoordinatorType'
    BY <1>0, <2>1, <2>2, <2>3 DEF GroupType, CoordinatorType, Jobs
  <2> QED BY <1>1, <2>2, <2>4
<1>10. ASSUME NEW kind, FreshnessFails(kind) PROVE Types'
  <2>1. /\ job' = NoJob
        /\ \/ UNCHANGED config
           \/ config' = [config EXCEPT !.ready = FALSE, !.version = @ + 1]
        /\ UNCHANGED <<said, member, cooling, route, pending, next, queue, cancelled,
                       toBroker, toAgent, ext>>
    BY <1>10 DEF FreshnessFails
  <2>2. config' \in [ready : BOOLEAN, version : Nat]
    BY <1>0, <2>1, ConfigSteps DEF GroupType
  <2>3. GroupType'
    BY <1>0, <2>1, <2>2 DEF GroupType
  <2>4. CoordinatorType'
    BY <1>0, <2>1, NoneJudged DEF CoordinatorType
  <2> QED BY <1>1, <2>1, <2>3, <2>4
<1>11. ASSUME NEW a \in Agents, CooldownEnds(a) PROVE Types'
  <2>1. /\ cooling' = cooling \ {a}
        /\ UNCHANGED <<said, config, member, route, pending, next, queue, job, cancelled,
                       toBroker, toAgent, ext>>
    BY <1>11 DEF CooldownEnds
  <2> QED BY <1>0, <1>1, <2>1 DEF GroupType, CoordinatorType
<1>12. CASE DeleteKey
  <2>1. /\ config' = [config EXCEPT !.ready = FALSE, !.version = @ + 1]
        /\ pending' = [o \in Offers |-> NoEntry]
        /\ cancelled' = cancelled \cup {o \in Offers : pending[o].held \/ job.offer = o}
        /\ cooling' = {}
        /\ UNCHANGED <<said, member, route, next, queue, job, toBroker, toAgent, ext>>
    BY <1>12 DEF DeleteKey
  <2>2. GroupType'
    BY <1>0, <2>1, ConfigSteps DEF GroupType
  <2>3. /\ pending' \in [Offers -> [held : BOOLEAN, observed : Nat, acked : BOOLEAN]]
        /\ cancelled' \in SUBSET Offers
    BY <1>0, <2>1 DEF CoordinatorType, NoEntry
  <2>4. CoordinatorType'
    BY <1>0, <2>1, <2>3 DEF CoordinatorType
  <2> QED BY <1>1, <2>1, <2>2, <2>4
<1>13. CASE KeyInvalid \/ SaveKey
  <2>1. /\ \E r \in BOOLEAN : config' = [config EXCEPT !.ready = r, !.version = @ + 1]
        /\ UNCHANGED <<said, member, cooling, route, pending, next, queue, job, cancelled,
                       toBroker, toAgent, ext>>
    BY <1>13 DEF KeyInvalid, SaveKey, coordinator
  <2>2. GroupType'
    BY <1>0, <2>1, ConfigSteps DEF GroupType
  <2>3. CoordinatorType'
    BY <1>0, <2>1 DEF CoordinatorType
  <2> QED BY <1>1, <2>1, <2>2, <2>3
<1>14. ASSUME NEW a \in Agents, Speaking(a) PROVE Types'
  <2>1. ExtensionStep(a)
    BY <1>0, <1>14, ExtensionSteps
  <2>2. UNCHANGED <<said, config, cooling, route, pending, next, queue, job, cancelled>>
        /\ \/ UNCHANGED member
           \/ member' = [member EXCEPT ![a].online = TRUE]
    BY <1>14 DEF Speaking, ExtensionReceives, DeclineOffer, AcceptOffer, ReceiveSnapshot, Works,
                 GiveUp, Answer, Toggle, Leave, Resume, Join, coordinator
  <2>3. GroupType' /\ CoordinatorType'
    <3>1. GroupType'
      BY <1>0, <2>2, OnlineSteps DEF GroupType
    <3>2. next' \in [Agents -> Nat \ {0}]
      BY <1>0, <1>14 DEF CoordinatorType, Speaking, ExtensionReceives, DeclineOffer, AcceptOffer,
         ReceiveSnapshot, Works, GiveUp, Answer, Toggle, Leave, Resume, Join, coordinator
    <3>3. CoordinatorType'
      BY <1>0, <2>2, <3>2 DEF CoordinatorType
    <3> QED BY <3>1, <3>3
  <2>4. Addressed'
    <3>1. ASSUME NEW b \in Agents
          PROVE  /\ \A x \in On(toBroker'[b]) :
                      x.type \in {"ack", "decline", "result"} => x.offer[1] = b
                 /\ \A x \in On(toAgent'[b]) : x.type = "deliver" => x.offer[1] = b
                 /\ ext'[b].active # NoOffer => ext'[b].active[1] = b
      <4>1. \A x \in On(toAgent'[b]) : x.type = "deliver" => x.offer[1] = b
        BY <1>0, <2>1 DEF ExtensionStep, Addressed
      <4>2. \A x \in On(toBroker'[b]) : x.type \in {"ack", "decline", "result"} => x.offer[1] = b
        BY <1>0, <2>1 DEF ExtensionStep, Addressed
      <4>3. ext'[b].active # NoOffer => ext'[b].active[1] = b
        BY <1>0, <2>1 DEF ExtensionStep, Addressed, Invited
      <4> QED BY <4>1, <4>2, <4>3
    <3> QED BY <1>0, <2>2, <3>1 DEF Addressed, On
  <2> QED BY <2>1, <2>3, <2>4 DEF Types, ExtensionStep
<1>15. ASSUME NEW a \in Agents, Break(a) PROVE Types'
  <2>1. /\ ext' = [ext EXCEPT ![a].linked = FALSE, ![a].active = NoOffer]
        /\ toBroker' = [toBroker EXCEPT ![a] = <<>>] /\ toAgent' = [toAgent EXCEPT ![a] = <<>>]
        /\ member' = [member EXCEPT ![a].online = FALSE]
        /\ Cancel(OffersOf(a))
        /\ UNCHANGED <<said, config, route, next, queue, job, cooling>>
    BY <1>15 DEF Break
  <2>2. OffersOf(a) \in SUBSET Offers
    BY DEF OffersOf
  <2>3. GroupType'
    BY <1>0, <2>1, OnlineSteps DEF GroupType
  <2>3a. CoordinatorType'
    <3>1. /\ pending' \in [Offers -> [held : BOOLEAN, observed : Nat, acked : BOOLEAN]]
          /\ cancelled' \in SUBSET Offers
      BY <1>0, <2>1, <2>2, CancelType
    <3> QED BY <1>0, <2>1, <3>1 DEF CoordinatorType
  <2>4. NetworkType'
    <3>1. ext' \in [Agents -> Extensions]
      BY ZenonT(60), <1>0, <2>1 DEF NetworkType, Extensions
    <3>2. <<>> \in Seq(ToBroker) /\ <<>> \in Seq(ToAgent)
      OBVIOUS
    <3> QED BY <1>0, <2>1, <3>1, <3>2 DEF NetworkType
  <2>5. Addressed'
    <3>1. \A b \in Agents : /\ On(toBroker'[b]) \subseteq On(toBroker[b])
                            /\ On(toAgent'[b]) \subseteq On(toAgent[b])
                            /\ ext'[b].active \in {ext[b].active, NoOffer}
      BY <1>0, <2>1, OnEmpty DEF NetworkType, Extensions
    <3> QED BY <1>0, <2>1, <3>1 DEF Addressed, On
  <2> QED BY <2>3, <2>3a, <2>4, <2>5 DEF Types
<1>16. ASSUME NEW a \in Agents, BrokerReceives(a) PROVE Types'
  BY <1>16, HeardType
<1>17. CASE UNCHANGED vars
  BY <1>0, <1>1, <1>17 DEF vars, GroupType, CoordinatorType
<1> QED
  BY <1>2, <1>3, <1>4, <1>5, <1>6, <1>7, <1>8, <1>9, <1>10, <1>11, <1>12, <1>13, <1>14, <1>15,
     <1>16, <1>17 DEF Next, ResultSteps, Speaking, AllTexts

------------------------------------------------------------------------------
(* Kinds of steps *)

\* Offers are withdrawn.
Withdraws ==
  \/ \E o \in Offers : Expire(o)
  \/ DeleteKey
  \/ \E a \in Agents : HandleDecline(a) \/ HandleUpdate(a) \/ HandleLeave(a) \/ Break(a)

\* The answer that is judged gets further, without being published.
Judges ==
  \/ \E complete \in BOOLEAN : ContextReady(complete)
  \/ AskFreshness
  \/ \E kind \in {"invalid_key", "other"} : FreshnessFails(kind)

\* Neither the group nor the books of the offers change.
Aside ==
  \/ KeyInvalid \/ SaveKey
  \/ \E a \in Agents : CooldownEnds(a) \/ HandleStatus(a) \/ HandleJoin(a)
  \/ UNCHANGED vars

LEMMA NextKinds ==
  [Next]_vars =>
    \/ \E text \in AllTexts : Say(text)
    \/ \E targets \in SUBSET Agents : Select(targets)
    \/ Deliver \/ Withdraws \/ StartResult \/ Judges \/ Aside
    \/ \E publish \in BOOLEAN : FreshnessAnswers(publish)
    \/ \E a \in Agents : HandleAck(a) \/ HandleResult(a) \/ Speaking(a)
  BY DEF Next, ResultSteps, BrokerReceives, Speaking, Withdraws, Judges, Aside, AllTexts

\* What Cancel leaves of an offer
LEMMA CancelBooks ==
  ASSUME CoordinatorType, NEW S \in SUBSET Offers, Cancel(S)
  PROVE  /\ \A o \in Offers : pending'[o] = NoEntry \/ (o \notin S /\ pending'[o] = pending[o])
         /\ \A o \in cancelled' : o \in cancelled \/ (pending'[o] = NoEntry /\ pending[o].held)
  BY CancelType

\* What the broker hears is what the others still have to say.
LEMMA HeardSays ==
  ASSUME Types, NEW a \in Agents, NEW type, Receive(a, type)
  PROVE  /\ \A b \in Agents : On(toBroker'[b]) \subseteq On(toBroker[b])
         /\ \A o \in Offers : Acking(o)' => Acking(o)
         /\ \A o \in Offers : Closing(o) =>
              Closing(o)' \/ (type \in {"decline", "result"} /\ o = Message(a).offer)
<1>1. /\ Message(a).type = type
      /\ On(toBroker[a]) = On(toBroker'[a]) \cup {Message(a)}
      /\ \A b \in Agents \ {a} : toBroker'[b] = toBroker[b]
  BY Hears DEF Types
<1>2. \A b \in Agents : On(toBroker'[b]) \subseteq On(toBroker[b])
  BY <1>1
<1>3. ASSUME NEW o \in Offers
      PROVE  /\ Acking(o)' => Acking(o)
             /\ Closing(o) =>
                  Closing(o)' \/ (type \in {"decline", "result"} /\ o = Message(a).offer)
  <2>1. o[1] \in Agents
    BY DEF Offers
  <2>2. Acking(o)' => Acking(o)
    BY <1>2, <2>1 DEF Acking
  <2>3. ASSUME Closing(o)
        PROVE  Closing(o)' \/ (type \in {"decline", "result"} /\ o = Message(a).offer)
    <3>1. PICK x \in On(toBroker[o[1]]) : x.type \in {"decline", "result"} /\ x.offer = o
      BY <2>3 DEF Closing
    <3>2. x \in On(toBroker'[o[1]]) \/ x = Message(a)
      BY <1>1, <2>1, <3>1
    <3> QED BY <1>1, <3>1, <3>2 DEF Closing
  <2> QED BY <2>2, <2>3
<1> QED BY <1>2, <1>3

\* What remains on its way and at work
Calm == \A o \in Offers :
  /\ Acking(o)' => Acking(o)
  /\ \/ pending'[o] = NoEntry
     \/ /\ ext[o[1]].active = o => ext'[o[1]].active = o
        /\ Closing(o) => Closing(o)'

LEMMA CalmStays ==
  UNCHANGED <<toBroker, ext>> => Calm
  BY DEF Calm, Acking, Closing, On

LEMMA WithdrawSteps ==
  ASSUME Types, Withdraws
  PROVE  /\ UNCHANGED <<said, route, next, queue, job>>
         /\ config'.version \in {config.version, config.version + 1}
         /\ \A o \in Offers : pending'[o] = NoEntry \/ pending'[o] = pending[o]
         /\ \A o \in cancelled' :
              \/ o \in cancelled
              \/ pending'[o] = NoEntry /\ pending[o].held
              \/ /\ pending'[o] = NoEntry /\ job.offer = o
                 /\ config'.version = config.version + 1
         /\ \A a \in Agents : /\ On(toBroker'[a]) \subseteq On(toBroker[a])
                              /\ On(toAgent'[a]) \subseteq On(toAgent[a])
         /\ Calm
<1>0. GroupType /\ CoordinatorType /\ NetworkType /\ Addressed
  BY DEF Types
<1>1. ASSUME NEW S \in SUBSET Offers, Cancel(S), UNCHANGED config
      PROVE  /\ config'.version \in {config.version, config.version + 1}
             /\ \A o \in Offers : pending'[o] = NoEntry \/ (o \notin S /\ pending'[o] = pending[o])
             /\ \A o \in cancelled' : \/ o \in cancelled
                                      \/ pending'[o] = NoEntry /\ pending[o].held
  BY <1>0, <1>1, CancelBooks
<1>2. ASSUME UNCHANGED <<toBroker, toAgent>>
      PROVE  \A a \in Agents : /\ On(toBroker'[a]) \subseteq On(toBroker[a])
                               /\ On(toAgent'[a]) \subseteq On(toAgent[a])
  BY <1>2
<1>3. ASSUME NEW o \in Offers, Expire(o)
      PROVE  /\ Cancel({o}) /\ UNCHANGED <<said, config, route, next, queue, job>>
             /\ UNCHANGED <<toBroker, toAgent, ext>>
  BY <1>3 DEF Expire
<1>4. ASSUME NEW o \in Offers, Expire(o) PROVE \E S \in SUBSET Offers : Cancel(S)
  BY <1>3, <1>4
<1>5. CASE \E o \in Offers : Expire(o)
  <2>1. PICK S \in SUBSET Offers : Cancel(S)
    BY <1>4, <1>5
  <2>2. UNCHANGED <<said, config, route, next, queue, job, toBroker, toAgent, ext>>
    BY <1>3, <1>5
  <2>3. Calm
    BY <2>2, CalmStays
  <2> QED BY <1>1, <1>2, <2>1, <2>2, <2>3
<1>6. CASE DeleteKey
  <2>1. /\ config' = [config EXCEPT !.ready = FALSE, !.version = @ + 1]
        /\ pending' = [o \in Offers |-> NoEntry]
        /\ cancelled' = cancelled \cup {o \in Offers : pending[o].held \/ job.offer = o}
        /\ UNCHANGED <<said, route, next, queue, job, toBroker, toAgent, ext>>
    BY <1>6 DEF DeleteKey
  <2>2. config'.version = config.version + 1
    BY <1>0, <2>1, ConfigSteps
  <2>3. Calm
    BY <2>1, CalmStays
  <2> QED BY <1>2, <2>1, <2>2, <2>3
<1>7. ASSUME NEW a \in Agents, HandleDecline(a) \/ HandleUpdate(a) \/ HandleLeave(a)
      PROVE  /\ UNCHANGED <<said, config, route, next, queue, job, toAgent, ext>>
             /\ \A b \in Agents : On(toBroker'[b]) \subseteq On(toBroker[b])
             /\ \/ UNCHANGED <<pending, cancelled>>
                \/ \E S \in SUBSET Offers : Cancel(S)
             /\ Calm
  <2>1. UNCHANGED <<said, config, route, next, queue, job, toAgent, ext>>
    BY <1>7 DEF HandleDecline, HandleUpdate, HandleLeave
  <2>2. PICK type \in {"decline", "update", "leave"} : Receive(a, type) /\ (type = "decline" => HandleDecline(a))
    BY <1>7 DEF HandleDecline, HandleUpdate, HandleLeave
  <2>3. /\ \A b \in Agents : On(toBroker'[b]) \subseteq On(toBroker[b])
        /\ \A o \in Offers : Acking(o)' => Acking(o)
        /\ \A o \in Offers : Closing(o) => Closing(o)' \/ (type = "decline" /\ o = Message(a).offer)
    BY <2>2, HeardSays
  <2>4. OffersOf(a) \in SUBSET Offers /\ {} \in SUBSET Offers
    BY DEF OffersOf
  <2>5. type = "decline" => {Message(a).offer} \in SUBSET Offers /\ Cancel({Message(a).offer})
    BY <1>0, <2>2, Hears DEF HandleDecline
  <2>6. \/ UNCHANGED <<pending, cancelled>>
        \/ \E S \in SUBSET Offers : Cancel(S)
    <3>1. CASE HandleDecline(a)
      <4>1. {Message(a).offer} \in SUBSET Offers
        BY <1>0, <3>1, Hears DEF HandleDecline
      <4> QED BY <3>1, <4>1 DEF HandleDecline
    <3>2. CASE HandleUpdate(a)
      BY <2>4, <3>2 DEF HandleUpdate
    <3>3. CASE HandleLeave(a)
      BY <2>4, <3>3 DEF HandleLeave
    <3> QED BY <1>7, <3>1, <3>2, <3>3
  <2>7. \A o \in Offers : type = "decline" /\ o = Message(a).offer => pending'[o] = NoEntry
    BY <1>0, <2>5, CancelType
  <2>8. Calm
    BY <2>1, <2>3, <2>7 DEF Calm
  <2> QED BY <2>1, <2>3, <2>6, <2>8
<1>8. ASSUME NEW a \in Agents, HandleDecline(a) \/ HandleUpdate(a) \/ HandleLeave(a)
      PROVE  /\ config'.version \in {config.version, config.version + 1}
             /\ \A o \in Offers : pending'[o] = NoEntry \/ pending'[o] = pending[o]
             /\ \A o \in cancelled' : \/ o \in cancelled
                                      \/ pending'[o] = NoEntry /\ pending[o].held
             /\ UNCHANGED <<said, route, next, queue, job, toAgent>> /\ Calm
             /\ \A b \in Agents : On(toBroker'[b]) \subseteq On(toBroker[b])
  BY <1>1, <1>7, <1>8
<1>9. ASSUME NEW a \in Agents, Break(a)
      PROVE  /\ UNCHANGED <<said, config, route, next, queue, job>> /\ Cancel(OffersOf(a))
             /\ OffersOf(a) \in SUBSET Offers
             /\ \A b \in Agents : /\ On(toBroker'[b]) \subseteq On(toBroker[b])
                                  /\ On(toAgent'[b]) \subseteq On(toAgent[b])
             /\ Calm
  <2>1. /\ ext' = [ext EXCEPT ![a].linked = FALSE, ![a].active = NoOffer]
        /\ toBroker' = [toBroker EXCEPT ![a] = <<>>] /\ toAgent' = [toAgent EXCEPT ![a] = <<>>]
        /\ Cancel(OffersOf(a))
        /\ UNCHANGED <<said, config, route, next, queue, job>>
    BY <1>9 DEF Break
  <2>2. OffersOf(a) \in SUBSET Offers /\ \A o \in Offers : o \in OffersOf(a) <=> o[1] = a
    BY DEF OffersOf
  <2>3. \A b \in Agents : /\ toBroker'[b] = IF b = a THEN <<>> ELSE toBroker[b]
                          /\ toAgent'[b] = IF b = a THEN <<>> ELSE toAgent[b]
                          /\ b # a => ext'[b] = ext[b]
    BY <1>0, <2>1 DEF NetworkType
  <2>4. \A b \in Agents : /\ On(toBroker'[b]) \subseteq On(toBroker[b])
                          /\ On(toAgent'[b]) \subseteq On(toAgent[b])
    BY <2>3, OnEmpty
  <2>5. ASSUME NEW o \in Offers
        PROVE  /\ Acking(o)' => Acking(o)
               /\ \/ pending'[o] = NoEntry
                  \/ /\ ext[o[1]].active = o => ext'[o[1]].active = o
                     /\ Closing(o) => Closing(o)'
    <3>1. o[1] \in Agents
      BY DEF Offers
    <3>2. Acking(o)' => Acking(o)
      BY <2>4, <3>1 DEF Acking
    <3>3. CASE o[1] = a
      BY <1>0, <2>1, <2>2, <3>2, <3>3, CancelType
    <3>4. CASE o[1] # a
      BY <2>3, <3>1, <3>2, <3>4 DEF Closing
    <3> QED BY <3>3, <3>4
  <2>6. Calm
    BY <2>5 DEF Calm
  <2> QED BY <2>1, <2>2, <2>4, <2>6
<1>10. ASSUME NEW a \in Agents, Break(a)
       PROVE  /\ config'.version \in {config.version, config.version + 1}
              /\ \A o \in Offers : pending'[o] = NoEntry \/ pending'[o] = pending[o]
              /\ \A o \in cancelled' : \/ o \in cancelled
                                       \/ pending'[o] = NoEntry /\ pending[o].held
  BY <1>1, <1>9, <1>10
<1>11. CASE \E a \in Agents : HandleDecline(a) \/ HandleUpdate(a) \/ HandleLeave(a)
  BY <1>8, <1>11
<1>12. CASE \E a \in Agents : Break(a)
  BY <1>9, <1>10, <1>12
<1> QED BY <1>5, <1>6, <1>11, <1>12 DEF Withdraws

LEMMA JudgeSteps ==
  ASSUME Types, Judges
  PROVE  /\ job # NoJob /\ job \in Jobs /\ Latest \in Nat
         /\ \/ job' = NoJob
            \/ job' = [job EXCEPT !.phase = "queued"] /\ job.phase = "context"
            \/ job' = [job EXCEPT !.phase = "asked", !.judged = Latest]
         /\ config'.version \in {config.version, config.version + 1}
         /\ UNCHANGED <<said, route, pending, next, queue, cancelled, toBroker, toAgent, ext>>
<1>0. GroupType /\ job \in Jobs
  BY DEF Types, CoordinatorType
<1>1. job # NoJob
  BY DEF Judges, ContextReady, AskFreshness, FreshnessFails, NoJob
<1>2. Latest \in Nat
  BY <1>0 DEF GroupType, Latest
<1>3. \/ job' = NoJob
      \/ job' = [job EXCEPT !.phase = "queued"] /\ job.phase = "context"
      \/ job' = [job EXCEPT !.phase = "asked", !.judged = Latest]
  BY DEF Judges, ContextReady, AskFreshness, FreshnessFails
<1>4. config' = config \/ config' = [config EXCEPT !.ready = FALSE, !.version = @ + 1]
  BY DEF Judges, ContextReady, AskFreshness, FreshnessFails
<1>5. config'.version \in {config.version, config.version + 1}
  BY <1>0, <1>4, ConfigSteps
<1>6. UNCHANGED <<said, route, pending, next, queue, cancelled, toBroker, toAgent, ext>>
  BY DEF Judges, ContextReady, AskFreshness, FreshnessFails
<1> QED BY <1>0, <1>1, <1>2, <1>3, <1>5, <1>6

LEMMA AsideSteps ==
  ASSUME Types, Aside
  PROVE  /\ UNCHANGED <<said, route, pending, next, queue, job, cancelled, ext>>
         /\ config'.version \in {config.version, config.version + 1}
         /\ \A a \in Agents : On(toBroker'[a]) \subseteq On(toBroker[a])
         /\ \A a \in Agents : \A x \in On(toAgent'[a]) :
              x \in On(toAgent[a]) \/ x.type = "snapshot"
         /\ Calm
<1>0. GroupType /\ NetworkType
  BY DEF Types
<1>1. UNCHANGED <<said, route, pending, next, queue, job, cancelled, ext>>
  BY DEF Aside, KeyInvalid, SaveKey, CooldownEnds, HandleStatus, HandleJoin, vars, coordinator
<1>2. \/ config' = config
      \/ \E r \in BOOLEAN : config' = [config EXCEPT !.ready = r, !.version = @ + 1]
  BY DEF Aside, KeyInvalid, SaveKey, CooldownEnds, HandleStatus, HandleJoin, vars, coordinator
<1>3. config'.version \in {config.version, config.version + 1}
  BY <1>0, <1>2, ConfigSteps
<1>4. \/ UNCHANGED <<toBroker, toAgent>>
      \/ \E a \in Agents : HandleStatus(a) \/ HandleJoin(a)
  BY DEF Aside, KeyInvalid, SaveKey, CooldownEnds, vars
<1>5. ASSUME NEW a \in Agents, HandleStatus(a) \/ HandleJoin(a)
      PROVE  /\ \A b \in Agents : On(toBroker'[b]) \subseteq On(toBroker[b])
             /\ Calm
             /\ \A b \in Agents : \A x \in On(toAgent'[b]) :
                  x \in On(toAgent[b]) \/ x.type = "snapshot"
  <2>1. PICK type \in {"status", "join"} : Receive(a, type)
    BY <1>5 DEF HandleStatus, HandleJoin
  <2>2. /\ \A b \in Agents : On(toBroker'[b]) \subseteq On(toBroker[b])
        /\ \A o \in Offers : Acking(o)' => Acking(o)
        /\ \A o \in Offers : Closing(o) => Closing(o)'
    BY <2>1, HeardSays
  <2>3. Calm
    BY <1>1, <2>2 DEF Calm
  <2>4. CASE UNCHANGED toAgent
    BY <2>2, <2>3, <2>4
  <2>5. CASE HandleJoin(a)
    <3> DEFINE snapshot == [type |-> "snapshot", group |-> Message(a).group]
    <3>1. toAgent' = [toAgent EXCEPT ![a] = Append(@, snapshot)] /\ Receive(a, "join")
      BY <2>5 DEF HandleJoin
    <3>2. Message(a).group \in {"here", "other"}
      BY <3>1, Hears, MessageFields DEF Types
    <3>3. snapshot \in ToAgent /\ snapshot.type = "snapshot"
      BY <3>2 DEF ToAgent
    <3> HIDE DEF snapshot
    <3>4. toAgent[a] \in Seq(ToAgent)
      BY <1>0 DEF NetworkType
    <3>5. On(Append(toAgent[a], snapshot)) = On(toAgent[a]) \cup {snapshot}
      BY <3>3, <3>4, OnAppend
    <3>6. \A b \in Agents :
            toAgent'[b] = IF b = a THEN Append(toAgent[a], snapshot) ELSE toAgent[b]
      BY <1>0, <3>1 DEF NetworkType
    <3> QED BY <2>2, <2>3, <3>3, <3>5, <3>6
  <2> QED BY <1>5, <2>4, <2>5 DEF HandleStatus
<1>6. CASE UNCHANGED <<toBroker, toAgent>>
  BY <1>1, <1>3, <1>6, CalmStays
<1> QED BY <1>1, <1>3, <1>4, <1>5, <1>6

LEMMA SpeakingSteps ==
  ASSUME NEW a \in Agents, Speaking(a)
  PROVE  UNCHANGED <<said, config, route, pending, next, queue, job, cancelled>>
  BY DEF Speaking, ExtensionReceives, DeclineOffer, AcceptOffer, ReceiveSnapshot, Works,
         GiveUp, Answer, Toggle, Leave, Resume, Join, coordinator

LEMMA AckSteps ==
  ASSUME Types, NEW a \in Agents, HandleAck(a)
  PROVE  /\ UNCHANGED <<said, config, route, next, queue, job, cancelled, toAgent, ext>>
         /\ Message(a).offer \in Offers
         /\ \E x \in On(toBroker[a]) : x.type = "ack" /\ x.offer = Message(a).offer
         /\ Message(a).offer[1] = a
         /\ \A o \in Offers :
              /\ pending'[o].held = pending[o].held /\ pending'[o].observed = pending[o].observed
              /\ pending'[o].acked = IF o = Message(a).offer THEN pending[o].held
                                     ELSE pending[o].acked
         /\ \A b \in Agents : On(toBroker'[b]) \subseteq On(toBroker[b])
         /\ \A o \in Offers : (Acking(o)' => Acking(o)) /\ (Closing(o) => Closing(o)')
<1>0. CoordinatorType /\ NetworkType /\ Addressed /\ Receive(a, "ack")
  BY DEF Types, HandleAck
<1>1. /\ pending' = [pending EXCEPT ![Message(a).offer].acked = Acked(Message(a).offer)]
      /\ UNCHANGED <<said, config, route, next, queue, job, cancelled, toAgent, ext>>
  BY DEF HandleAck
<1>2. /\ Message(a).offer \in Offers /\ Message(a).offer[1] = a
      /\ Message(a) \in On(toBroker[a]) /\ Message(a).type = "ack"
  BY <1>0, Hears
<1>3. \A o \in Offers :
        /\ pending'[o].held = pending[o].held /\ pending'[o].observed = pending[o].observed
        /\ pending'[o].acked = IF o = Message(a).offer THEN pending[o].held ELSE pending[o].acked
  <2> DEFINE mine == Message(a).offer
  <2>1. pending' = [pending EXCEPT ![mine].acked = Acked(mine)] /\ mine \in Offers
    BY <1>1, <1>2
  <2> HIDE DEF mine
  <2>2. ASSUME NEW o \in Offers
        PROVE  /\ pending'[o].held = pending[o].held /\ pending'[o].observed = pending[o].observed
               /\ pending'[o].acked = IF o = mine THEN pending[o].held ELSE pending[o].acked
    <3>1. CASE o = mine
      BY <1>0, <2>1, <3>1 DEF CoordinatorType, Acked
    <3>2. CASE o # mine
      BY <1>0, <2>1, <3>2 DEF CoordinatorType
    <3> QED BY <3>1, <3>2
  <2> QED BY <2>2 DEF mine
<1>4. /\ \A b \in Agents : On(toBroker'[b]) \subseteq On(toBroker[b])
      /\ \A o \in Offers : (Acking(o)' => Acking(o)) /\ (Closing(o) => Closing(o)')
  BY <1>0, HeardSays
<1> QED BY <1>1, <1>2, <1>3, <1>4

LEMMA ResultSaid ==
  ASSUME Types, NEW a \in Agents, HandleResult(a)
  PROVE  /\ UNCHANGED <<said, config, route, pending, next, job, cancelled, toAgent, ext>>
         /\ Message(a).offer \in Offers
         /\ queue' \in Seq(Results) /\ On(queue) \subseteq On(queue')
         /\ pending[Message(a).offer].held => \E x \in On(queue') : x.offer = Message(a).offer
         /\ \A b \in Agents : On(toBroker'[b]) \subseteq On(toBroker[b])
         /\ \A o \in Offers : Acking(o)' => Acking(o)
         /\ \A o \in Offers : Closing(o) => Closing(o)' \/ o = Message(a).offer
<1>0. CoordinatorType /\ NetworkType /\ Addressed /\ Receive(a, "result")
  BY DEF Types, HandleResult
<1> DEFINE r == [offer |-> Message(a).offer, text |-> Message(a).text]
<1>1. /\ queue' = IF pending[Message(a).offer].held THEN Append(queue, r) ELSE queue
      /\ UNCHANGED <<said, config, route, pending, next, job, cancelled, toAgent, ext>>
  BY DEF HandleResult
<1>2. Message(a).offer \in Offers /\ Message(a).text \in AllTexts
  BY <1>0, Hears, MessageFields
<1>3. r \in Results /\ r.offer = Message(a).offer
  BY <1>2 DEF Results
<1> HIDE DEF r
<1>4. queue \in Seq(Results)
  BY <1>0 DEF CoordinatorType
<1>5. Append(queue, r) \in Seq(Results) /\ On(Append(queue, r)) = On(queue) \cup {r}
  BY <1>3, <1>4, OnAppend, Appends
<1>6. /\ queue' \in Seq(Results) /\ On(queue) \subseteq On(queue')
      /\ pending[Message(a).offer].held => r \in On(queue')
  BY <1>1, <1>4, <1>5
<1>7. /\ \A b \in Agents : On(toBroker'[b]) \subseteq On(toBroker[b])
      /\ \A o \in Offers : Acking(o)' => Acking(o)
      /\ \A o \in Offers : Closing(o) => Closing(o)' \/ o = Message(a).offer
  BY <1>0, HeardSays
<1> QED BY <1>1, <1>2, <1>3, <1>6, <1>7

------------------------------------------------------------------------------
(* The times at which something is known *)

LEMMA NextTimes == Types /\ TimesInv /\ [Next]_vars => TimesInv'
<1> SUFFICES ASSUME Types, TimesInv, [Next]_vars PROVE TimesInv'
  OBVIOUS
<1>0. GroupType /\ CoordinatorType /\ Len(said) \in Nat
  BY DEF Types, GroupType
<1>1. ASSUME UNCHANGED said, \A o \in Offers : pending'[o] = NoEntry \/ pending'[o] = pending[o],
             route' = route, job' = NoJob \/ job' = job
      PROVE  TimesInv'
  BY <1>0, <1>1 DEF TimesInv, NoEntry, NoJob
<1>2. ASSUME NEW u \in Utterances, said' = Append(said, u),
             u.observed <= u.judged, u.judged <= Len(said),
             \A o \in Offers : pending'[o] = NoEntry \/ pending'[o] = pending[o],
             route' = route, job' = NoJob \/ job' = job
      PROVE  TimesInv'
  <2>1. /\ Len(said') = Len(said) + 1 /\ \A i \in 1..Len(said) : said'[i] = said[i]
        /\ said'[Len(said) + 1] = u
    BY <1>0, <1>2, AppendSaid
  <2>2. u.observed \in Nat /\ u.judged \in Nat
    BY DEF Utterances
  <2>3. ASSUME NEW i \in 1..Len(said')
        PROVE  said'[i].observed <= said'[i].judged /\ said'[i].judged < i
    <3>1. CASE i = Len(said) + 1
      BY <1>0, <1>2, <2>1, <2>2, <3>1
    <3>2. CASE i # Len(said) + 1
      <4>1. i \in 1..Len(said)
        BY <1>0, <2>1, <3>2
      <4> QED BY <2>1, <4>1 DEF TimesInv
    <3> QED BY <3>1, <3>2
  <2>4. route'.observed <= Len(said')
    BY <1>0, <1>2, <2>1 DEF TimesInv, CoordinatorType
  <2>5. \A o \in Offers : pending'[o].observed <= Len(said')
    <3>1. ASSUME NEW o \in Offers PROVE pending'[o].observed <= Len(said')
      <4>1. pending[o].observed \in Nat /\ pending[o].observed <= Len(said)
        BY <1>0 DEF TimesInv, CoordinatorType
      <4>2. pending'[o].observed = 0 \/ pending'[o].observed = pending[o].observed
        BY <1>2 DEF NoEntry
      <4> QED BY <1>0, <2>1, <4>1, <4>2
    <3> QED BY <3>1
  <2>6. job'.observed <= job'.judged /\ job'.judged <= Len(said')
    <3>1. CASE job' = NoJob
      BY <1>0, <2>1, <3>1 DEF NoJob
    <3>2. CASE job' = job
      <4>1. job.observed \in Nat /\ job.judged \in Nat
        BY <1>0 DEF CoordinatorType, Jobs, NoJob
      <4> QED BY <1>0, <2>1, <3>2, <4>1 DEF TimesInv
    <3> QED BY <1>2, <3>1, <3>2
  <2> QED BY <2>3, <2>4, <2>5, <2>6 DEF TimesInv
<1>3. ASSUME NEW text \in AllTexts, Say(text) PROVE TimesInv'
  <2>1. PICK u \in Utterances : said' = Append(said, u) /\ u.observed = Latest /\ u.judged = Latest
    BY <1>0, <1>3, SaySays
  <2>2. UNCHANGED <<route, pending, job>>
    BY <1>3 DEF Say, coordinator
  <2> QED BY <1>0, <1>2, <2>1, <2>2 DEF Latest
<1>4. ASSUME NEW targets \in SUBSET Agents, Select(targets) PROVE TimesInv'
  <2>1. route'.observed = Latest /\ UNCHANGED <<said, pending, job>>
    BY <1>4 DEF Select
  <2> QED BY <1>0, <2>1 DEF TimesInv, Latest
<1>5. CASE Deliver
  <2>1. route'.observed = 0 /\ UNCHANGED <<said, job>>
    BY <1>5 DEF Deliver, NoRoute
  <2>2. \A o \in Offers : pending'[o].observed \in {pending[o].observed, route.observed}
    BY <1>5, DeliverSteps
  <2> QED BY <1>0, <2>1, <2>2 DEF TimesInv
<1>6. CASE Withdraws
  BY <1>1, <1>6, WithdrawSteps
<1>7. CASE StartResult
  <2>1. PICK o \in Offers, text \in AllTexts :
           /\ job = NoJob
           /\ \/ UNCHANGED <<said, pending, job>>
              \/ /\ pending' = [pending EXCEPT ![o] = NoEntry]
                 /\ \/ UNCHANGED <<said, job>>
                    \/ /\ Publish(o, pending[o].observed, pending[o].observed, text)
                       /\ UNCHANGED job
                    \/ /\ UNCHANGED said
                       /\ job' = [offer |-> o, observed |-> pending[o].observed,
                                  text |-> text, phase |-> "context",
                                  version |-> config.version, judged |-> pending[o].observed]
    BY <1>7, StartResultSteps
  <2>2. route' = route
    BY <1>7 DEF StartResult
  <2>3. \A q \in Offers : pending'[q] = NoEntry \/ pending'[q] = pending[q]
    BY <1>0, <2>1 DEF CoordinatorType
  <2>4. pending[o].observed \in Nat /\ pending[o].observed <= Len(said)
    BY <1>0 DEF CoordinatorType, TimesInv
  <2>5. CASE UNCHANGED <<said, job>>
    BY <1>1, <2>2, <2>3, <2>5
  <2>6. CASE Publish(o, pending[o].observed, pending[o].observed, text) /\ UNCHANGED job
    <3>1. \/ said' = said
          \/ \E u \in Utterances : /\ said' = Append(said, u)
                                   /\ u.observed = pending[o].observed
                                   /\ u.judged = pending[o].observed
      BY <1>0, <2>4, <2>6, PublishSays
    <3> QED BY <1>1, <1>2, <2>2, <2>3, <2>4, <2>6, <3>1
  <2>7. CASE /\ UNCHANGED said
             /\ job' = [offer |-> o, observed |-> pending[o].observed,
                        text |-> text, phase |-> "context",
                        version |-> config.version, judged |-> pending[o].observed]
    <3>1. job'.observed = pending[o].observed /\ job'.judged = pending[o].observed
      BY <2>7
    <3> QED BY <1>0, <2>2, <2>3, <2>4, <2>7, <3>1 DEF TimesInv, NoEntry
  <2> QED BY <2>1, <2>5, <2>6, <2>7
<1>8. CASE Judges
  <2>1. /\ job # NoJob /\ job \in Jobs /\ Latest = Len(said)
        /\ \/ job' = NoJob
           \/ job' = [job EXCEPT !.phase = "queued"]
           \/ job' = [job EXCEPT !.phase = "asked", !.judged = Latest]
        /\ UNCHANGED <<said, route, pending>>
    BY <1>8, JudgeSteps DEF Latest
  <2>2. job.observed \in Nat /\ job.judged \in Nat
    BY <2>1 DEF Jobs, NoJob
  <2>3. CASE job' = NoJob
    BY <1>1, <2>1, <2>3
  <2>4. CASE job' = [job EXCEPT !.phase = "queued"]
    <3>1. job'.observed = job.observed /\ job'.judged = job.judged
      BY <2>1, <2>4 DEF Jobs
    <3> QED BY <2>1, <3>1 DEF TimesInv
  <2>5. CASE job' = [job EXCEPT !.phase = "asked", !.judged = Latest]
    <3>1. job'.observed = job.observed /\ job'.judged = Len(said)
      BY <2>1, <2>5 DEF Jobs
    <3>2. job.observed <= Len(said)
      BY <1>0, <2>2 DEF TimesInv
    <3> QED BY <1>0, <2>1, <3>1, <3>2 DEF TimesInv
  <2> QED BY <2>1, <2>3, <2>4, <2>5
<1>9. CASE Aside
  BY <1>1, <1>9, AsideSteps
<1>10. ASSUME NEW publish \in BOOLEAN, FreshnessAnswers(publish) PROVE TimesInv'
  <2>1. /\ job.offer \in Offers /\ job.text \in AllTexts
        /\ job.observed \in Nat /\ job.judged \in Nat /\ job' = NoJob
        /\ \/ said' = said
           \/ Publish(job.offer, job.observed, job.judged, job.text)
    BY <1>10, FreshnessSteps DEF AllTexts
  <2>2. UNCHANGED <<route, pending>>
    BY <1>10 DEF FreshnessAnswers
  <2>3. \/ said' = said
        \/ \E u \in Utterances : /\ said' = Append(said, u)
                                 /\ u.observed = job.observed /\ u.judged = job.judged
    BY <1>0, <2>1, PublishSays
  <2>4. job.observed <= job.judged /\ job.judged <= Len(said)
    BY DEF TimesInv
  <2> QED BY <1>1, <1>2, <2>1, <2>2, <2>3, <2>4
<1>11. ASSUME NEW a \in Agents, HandleAck(a) PROVE TimesInv'
  <2>1. /\ UNCHANGED <<said, route, job>>
        /\ \A o \in Offers : pending'[o].observed = pending[o].observed
    BY <1>11, AckSteps
  <2> QED BY <2>1 DEF TimesInv
<1>12. ASSUME NEW a \in Agents, HandleResult(a) \/ Speaking(a) PROVE TimesInv'
  <2>1. UNCHANGED <<said, route, pending, job>>
    BY <1>12, ResultSaid, SpeakingSteps
  <2> QED BY <1>1, <2>1
<1> QED BY <1>3, <1>4, <1>5, <1>6, <1>7, <1>8, <1>9, <1>10, <1>11, <1>12, NextKinds

------------------------------------------------------------------------------
(* The books of the offers *)

\* What is said adds to what was answered.
LEMMA AnsweredSays ==
  ASSUME GroupType, NEW u \in Utterances, said' = Append(said, u), NEW o
  PROVE  Answered(o)' <=> (Answered(o) \/ u.offer = o)
<1>1. /\ Len(said') = Len(said) + 1 /\ \A i \in 1..Len(said) : said'[i] = said[i]
      /\ said'[Len(said) + 1] = u /\ Len(said) \in Nat
  BY AppendSaid
<1>2. ASSUME Answered(o)' PROVE Answered(o) \/ u.offer = o
  <2>1. PICK i \in 1..Len(said') : said'[i].offer = o
    BY <1>2 DEF Answered
  <2>2. i \in 1..Len(said) \/ i = Len(said) + 1
    BY <1>1
  <2> QED BY <1>1, <2>1, <2>2 DEF Answered
<1>3. ASSUME Answered(o) PROVE Answered(o)'
  <2>1. PICK i \in 1..Len(said) : said[i].offer = o
    BY <1>3 DEF Answered
  <2>2. i \in 1..Len(said')
    BY <1>1
  <2> QED BY <1>1, <2>1, <2>2 DEF Answered
<1>4. ASSUME u.offer = o PROVE Answered(o)'
  <2>1. Len(said) + 1 \in 1..Len(said')
    BY <1>1
  <2> QED BY <1>1, <1>4, <2>1 DEF Answered
<1> QED BY <1>2, <1>3, <1>4

\* What is on its way about offers that were sent is about offers that were.
LEMMA SentKept ==
  ASSUME Types, SentBefore, UNCHANGED next,
         \A a \in Agents : \A x \in On(toBroker'[a]) :
           x \in On(toBroker[a]) \/ (x.type = "ack" => Known(x.offer)),
         \A a \in Agents : \A x \in On(toAgent'[a]) :
           x \in On(toAgent[a]) \/ x.type # "deliver"
  PROVE  SentBefore'
<1>1. ASSUME NEW a \in Agents, NEW x \in On(toBroker'[a]), x.type = "ack"
      PROVE  x.offer[2] < next'[x.offer[1]]
  BY <1>1 DEF SentBefore, Known
<1>2. ASSUME NEW a \in Agents, NEW x \in On(toAgent'[a]), x.type = "deliver"
      PROVE  x.offer[2] < next'[x.offer[1]]
  BY <1>2 DEF SentBefore, Known
<1> QED BY <1>1, <1>2 DEF SentBefore, Known, On

LEMMA JobVersions ==
  ASSUME Types, BooksInv
  PROVE  /\ job.version \in Nat /\ config.version \in Nat /\ job.version <= config.version
         /\ NoJob.version = 0 /\ \A o \in Offers : NoJob.offer # o
<1>1. job.version \in Nat
  BY DEF Types, CoordinatorType, Jobs, NoJob
<1>2. config.version \in Nat
  BY DEF Types, GroupType
<1> QED BY <1>1, <1>2, ConstantsAssumption DEF BooksInv, NoJob

\* Nothing new about any offer
LEMMA BooksKept ==
  ASSUME Types, BooksInv, NEW o \in Offers, UNCHANGED next,
         pending'[o] = NoEntry \/ (pending'[o] = pending[o] /\ (o \in cancelled' => o \in cancelled)),
         Answered(o)' <=> Answered(o),
         o \in cancelled' => o \in cancelled \/ pending[o].held
                             \/ (job.offer = o /\ config'.version = config.version + 1),
         config'.version \in {config.version, config.version + 1},
         (job'.offer = job.offer /\ job'.version = job.version) \/ job' = NoJob
  PROVE  BookOf(o)'
<1>0. BookOf(o) /\ pending[o].held \in BOOLEAN
  BY DEF BooksInv, Types, CoordinatorType
<1>1. Known(o)' <=> Known(o)
  BY DEF Known
<1>2. pending'[o].held => pending'[o] = pending[o] /\ (o \in cancelled' => o \in cancelled)
  BY DEF NoEntry
<1>3. job'.offer = o => job.offer = o /\ job'.version = job.version
  BY JobVersions
<1>4. pending'[o].held => Known(o)' /\ o \notin cancelled' /\ ~Answered(o)' /\ job'.offer # o
  BY <1>0, <1>1, <1>2, <1>3 DEF BookOf
<1>5. pending'[o].acked => pending'[o].held
  BY <1>0 DEF BookOf, NoEntry
<1>6. o \in cancelled' => Known(o)'
  BY <1>0, <1>1 DEF BookOf
<1>7. Answered(o)' => Known(o)' /\ o \notin cancelled' /\ job'.offer # o
  BY <1>0, <1>1, <1>3 DEF BookOf
<1>8. ASSUME job'.offer = o, o \in cancelled' PROVE job'.version # config'.version
  <2>1. job.offer = o /\ job'.version = job.version
    BY <1>3, <1>8
  <2>2. ~pending[o].held
    BY <1>0, <2>1 DEF BookOf
  <2>3. CASE o \in cancelled
    <3>1. job.version # config.version
      BY <1>0, <2>1, <2>3 DEF BookOf
    <3> QED BY <2>1, <3>1, JobVersions
  <2>4. CASE config'.version = config.version + 1
    BY <2>1, <2>4, JobVersions
  <2> QED BY <1>8, <2>2, <2>3, <2>4
<1>9. job'.offer = o => Known(o)'
  BY <1>0, <1>1, <1>3 DEF BookOf
<1> QED BY <1>4, <1>5, <1>6, <1>7, <1>8, <1>9 DEF BookOf

LEMMA NextBooks == Types /\ BooksInv /\ [Next]_vars => BooksInv'
<1> SUFFICES ASSUME Types, BooksInv, [Next]_vars PROVE BooksInv'
  OBVIOUS
<1>0. /\ GroupType /\ CoordinatorType /\ NetworkType /\ Addressed /\ SentBefore
      /\ \A o \in Offers : BookOf(o)
  BY DEF Types, BooksInv
<1>1. ASSUME UNCHANGED <<said, next>>,
             \A o \in Offers : pending'[o] = NoEntry \/ pending'[o] = pending[o],
             \A o \in cancelled' :
               \/ o \in cancelled
               \/ pending'[o] = NoEntry /\ pending[o].held
               \/ /\ pending'[o] = NoEntry /\ job.offer = o
                  /\ config'.version = config.version + 1,
             config'.version \in {config.version, config.version + 1},
             (job'.offer = job.offer /\ job'.version = job.version) \/ job' = NoJob,
             \A a \in Agents : \A x \in On(toBroker'[a]) :
               x \in On(toBroker[a]) \/ (x.type = "ack" => Known(x.offer)),
             \A a \in Agents : \A x \in On(toAgent'[a]) :
               x \in On(toAgent[a]) \/ x.type # "deliver"
      PROVE  BooksInv'
  <2>1. ASSUME NEW o \in Offers PROVE BookOf(o)'
    <3>1. Answered(o)' <=> Answered(o)
      BY <1>1 DEF Answered
    <3>2. \/ pending'[o] = NoEntry
          \/ pending'[o] = pending[o] /\ (o \in cancelled' => o \in cancelled)
      BY <1>1
    <3>3. o \in cancelled' => o \in cancelled \/ pending[o].held
                              \/ (job.offer = o /\ config'.version = config.version + 1)
      BY <1>1
    <3> QED BY <1>1, <3>1, <3>2, <3>3, BooksKept
  <2>2. SentBefore'
    BY <1>0, <1>1, SentKept
  <2>3. job'.version <= config'.version
    BY <1>1, JobVersions
  <2> QED BY <2>1, <2>2, <2>3 DEF BooksInv
<1>3. ASSUME NEW text \in AllTexts, Say(text) PROVE BooksInv'
  <2>1. PICK u \in Utterances : said' = Append(said, u) /\ u.offer = NoOffer
    BY <1>0, <1>3, SaySays
  <2>2. UNCHANGED <<config, next, pending, job, cancelled, toBroker, toAgent>>
    BY <1>3 DEF Say, coordinator
  <2>3. ASSUME NEW o \in Offers PROVE BookOf(o)'
    <3>1. Answered(o)' <=> Answered(o)
      BY <1>0, <2>1, AnsweredSays, ConstantsAssumption
    <3>2. config'.version \in {config.version, config.version + 1}
      BY <2>2
    <3> QED BY <2>2, <3>1, <3>2, BooksKept
  <2>4. SentBefore'
    BY <1>0, <2>2, SentKept
  <2> QED BY <2>2, <2>3, <2>4 DEF BooksInv
<1>4. ASSUME NEW targets \in SUBSET Agents, Select(targets) PROVE BooksInv'
  <2>1. UNCHANGED <<said, config, next, pending, job, cancelled, toBroker, toAgent>>
    BY <1>4 DEF Select
  <2> QED BY <1>1, <2>1
<1>5. CASE Deliver
  <2>1. PICK sent \in SUBSET Agents :
           /\ \A a \in sent : <<a, next[a]>> \in Offers
           /\ \A a \in Agents : next'[a] = IF a \in sent THEN next[a] + 1 ELSE next[a]
           /\ \A o \in Offers :
                pending'[o] = IF o[1] \in sent /\ o[2] = next[o[1]]
                              THEN [held |-> TRUE, observed |-> route.observed, acked |-> FALSE]
                              ELSE pending[o]
           /\ \A a \in Agents : \A x \in On(toAgent'[a]) :
                \/ x \in On(toAgent[a])
                \/ a \in sent /\ x.offer = <<a, next[a]>>
    BY <1>5, DeliverSteps
  <2>2. UNCHANGED <<said, config, job, cancelled, toBroker>>
    BY <1>5 DEF Deliver
  <2>3. \A a \in Agents : next[a] \in Nat
    BY <1>0 DEF CoordinatorType
  <2>4. \A o \in Offers : o[1] \in Agents /\ o[2] \in Nat
    BY ConstantsAssumption DEF Offers
  <2>5. \A o \in Offers : Known(o) => Known(o)'
    BY <2>1, <2>3, <2>4 DEF Known
  <2>6. ASSUME NEW o \in Offers PROVE BookOf(o)'
    <3>1. BookOf(o) /\ (Answered(o)' <=> Answered(o))
      BY <1>0, <2>2 DEF Answered
    <3>2. CASE o[1] \in sent /\ o[2] = next[o[1]]
      <4>1. ~Known(o)
        BY <2>3, <2>4, <3>2 DEF Known
      <4>2. Known(o)'
        BY <2>1, <2>3, <2>4, <3>2 DEF Known
      <4>3. o \notin cancelled /\ ~Answered(o) /\ job.offer # o
        BY <3>1, <4>1 DEF BookOf
      <4>4. pending'[o].held /\ ~pending'[o].acked
        BY <2>1, <3>2
      <4> QED BY <2>2, <3>1, <4>2, <4>3, <4>4 DEF BookOf
    <3>3. CASE ~(o[1] \in sent /\ o[2] = next[o[1]])
      <4>1. pending'[o] = pending[o]
        BY <2>1, <3>3
      <4> QED BY <2>2, <2>5, <3>1, <4>1 DEF BookOf
    <3> QED BY <3>2, <3>3
  <2>7. SentBefore'
    <3>1. ASSUME NEW a \in Agents, NEW n, n < next[a], n \in Int PROVE n < next'[a]
      BY <2>1, <2>3, <3>1
    <3>2. ASSUME NEW a \in Agents, NEW x \in On(toBroker'[a]), x.type = "ack"
          PROVE  x.offer[2] < next'[x.offer[1]]
      <4>1. x \in On(toBroker[a])
        BY <2>2, <3>2
      <4>2. Known(x.offer) /\ x.offer \in Offers
        <5>1. toBroker[a] \in Seq(ToBroker)
          BY <1>0 DEF NetworkType
        <5>2. x \in ToBroker
          BY <4>1, <5>1 DEF On
        <5>3. x.offer \in Offers
          BY <3>2, <5>2 DEF ToBroker
        <5> QED BY <1>0, <3>2, <4>1, <5>3 DEF SentBefore
      <4> QED BY <2>5, <4>2 DEF Known
    <3>3. ASSUME NEW a \in Agents, NEW x \in On(toAgent'[a]), x.type = "deliver"
          PROVE  x.offer[2] < next'[x.offer[1]]
      <4>1. CASE x \in On(toAgent[a])
        <5>1. toAgent[a] \in Seq(ToAgent)
          BY <1>0 DEF NetworkType
        <5>2. x \in ToAgent
          BY <4>1, <5>1 DEF On
        <5>3. x.offer \in Offers
          BY <3>3, <5>2 DEF ToAgent
        <5>4. Known(x.offer)
          BY <1>0, <3>3, <4>1 DEF SentBefore
        <5> QED BY <2>5, <5>3, <5>4 DEF Known
      <4>2. CASE a \in sent /\ x.offer = <<a, next[a]>>
        BY <2>1, <2>3, <4>2
      <4> QED BY <2>1, <4>1, <4>2
    <3> QED BY <3>2, <3>3 DEF SentBefore, Known, On
  <2> QED BY <2>2, <2>6, <2>7 DEF BooksInv
<1>6. CASE Withdraws
  <2>1. /\ UNCHANGED <<said, next, job>>
        /\ config'.version \in {config.version, config.version + 1}
        /\ \A o \in Offers : pending'[o] = NoEntry \/ pending'[o] = pending[o]
        /\ \A o \in cancelled' :
             \/ o \in cancelled
             \/ pending'[o] = NoEntry /\ pending[o].held
             \/ /\ pending'[o] = NoEntry /\ job.offer = o
                /\ config'.version = config.version + 1
        /\ \A a \in Agents : /\ On(toBroker'[a]) \subseteq On(toBroker[a])
                             /\ On(toAgent'[a]) \subseteq On(toAgent[a])
    BY <1>6, WithdrawSteps
  <2>2. job'.offer = job.offer /\ job'.version = job.version
    BY <2>1
  <2> QED BY <1>1, <2>1, <2>2
<1>7. CASE StartResult
  <2>1. PICK o \in Offers, text \in AllTexts :
           /\ job = NoJob
           /\ \/ UNCHANGED <<said, pending, job>>
              \/ /\ pending[o].held /\ pending' = [pending EXCEPT ![o] = NoEntry]
                 /\ \/ UNCHANGED <<said, job>>
                    \/ /\ Publish(o, pending[o].observed, pending[o].observed, text)
                       /\ UNCHANGED job
                    \/ /\ UNCHANGED said
                       /\ job' = [offer |-> o, observed |-> pending[o].observed,
                                  text |-> text, phase |-> "context",
                                  version |-> config.version, judged |-> pending[o].observed]
    BY <1>7, StartResultSteps
  <2>2. UNCHANGED <<config, next, toBroker, toAgent, cancelled>>
    BY <1>7 DEF StartResult
  <2>3. SentBefore'
    BY <1>0, <2>2, SentKept
  <2>4. CASE UNCHANGED <<said, job>>
    <3>1. \A q \in Offers : pending'[q] = NoEntry \/ pending'[q] = pending[q]
      BY <1>0, <2>1 DEF CoordinatorType
    <3> QED BY <1>1, <2>2, <2>4, <3>1
  <2>5. ASSUME pending[o].held, pending' = [pending EXCEPT ![o] = NoEntry], NEW q \in Offers
        PROVE  /\ pending'[q] = IF q = o THEN NoEntry ELSE pending[q]
               /\ o \notin cancelled /\ ~Answered(o) /\ Known(o) /\ BookOf(q)
    BY <1>0, <2>5 DEF CoordinatorType, BookOf
  <2>6. ASSUME pending[o].held, pending' = [pending EXCEPT ![o] = NoEntry],
               Publish(o, pending[o].observed, pending[o].observed, text), UNCHANGED job
        PROVE  BooksInv'
    <3>1. CASE said' = said
      BY <2>4, <2>6, <3>1
    <3>2. ASSUME NEW u \in Utterances, said' = Append(said, u), u.offer = o PROVE BooksInv'
      <4>1. ASSUME NEW q \in Offers PROVE BookOf(q)'
        <5>1. Answered(q)' <=> (Answered(q) \/ q = o)
          BY <1>0, <3>2, AnsweredSays
        <5>2. CASE q = o
          <6>1. pending'[o] = NoEntry /\ Known(o)' /\ o \notin cancelled' /\ job' = NoJob
            BY <2>1, <2>2, <2>5, <2>6 DEF Known
          <6>2. job'.offer # o
            BY <6>1, JobVersions
          <6> QED BY <5>1, <5>2, <6>1, <6>2 DEF BookOf, NoEntry
        <5>3. CASE q # o
          <6>1. pending'[q] = pending[q] /\ (Answered(q)' <=> Answered(q))
            BY <2>5, <2>6, <5>1, <5>3
          <6>2. config'.version \in {config.version, config.version + 1}
            BY <2>2
          <6> QED BY <2>2, <2>6, <6>1, <6>2, BooksKept
        <5> QED BY <5>2, <5>3
      <4>2. job'.version <= config'.version
        BY <2>2, <2>6 DEF BooksInv
      <4> QED BY <2>3, <4>1, <4>2 DEF BooksInv
    <3>3. pending[o].observed \in Nat
      BY <1>0 DEF CoordinatorType
    <3>4. said' = said \/ \E u \in Utterances : said' = Append(said, u) /\ u.offer = o
      BY <1>0, <2>6, <3>3, PublishSays
    <3> QED BY <3>1, <3>2, <3>4
  <2>7. ASSUME pending[o].held, pending' = [pending EXCEPT ![o] = NoEntry], UNCHANGED said,
               job'.offer = o, job'.version = config.version
        PROVE  BooksInv'
    <3>1. ASSUME NEW q \in Offers PROVE BookOf(q)'
      <4>1. (Answered(q)' <=> Answered(q)) /\ (Known(q)' <=> Known(q))
        BY <2>2, <2>7 DEF Answered, Known
      <4>2. CASE q = o
        <5>1. pending'[o] = NoEntry /\ Known(o)' /\ o \notin cancelled' /\ ~Answered(o)'
          BY <2>2, <2>5, <2>7, <4>1, <4>2
        <5> QED BY <4>2, <5>1 DEF BookOf, NoEntry
      <4>3. CASE q # o
        <5>1. BookOf(q) /\ pending'[q] = pending[q] /\ job'.offer # q
          BY <2>5, <2>7, <4>3
        <5> QED BY <2>2, <4>1, <5>1 DEF BookOf
      <4> QED BY <4>2, <4>3
    <3>2. job'.version <= config'.version
      BY <2>2, <2>7, JobVersions
    <3> QED BY <2>3, <3>1, <3>2 DEF BooksInv
  <2>8. ASSUME job' = [offer |-> o, observed |-> pending[o].observed,
                       text |-> text, phase |-> "context",
                       version |-> config.version, judged |-> pending[o].observed]
        PROVE  job'.offer = o /\ job'.version = config.version
    BY <2>8
  <2> QED BY <2>1, <2>4, <2>6, <2>7, <2>8
<1>8. CASE Judges
  <2>1. /\ job # NoJob /\ job \in Jobs
        /\ \/ job' = NoJob
           \/ job' = [job EXCEPT !.phase = "queued"]
           \/ job' = [job EXCEPT !.phase = "asked", !.judged = Latest]
        /\ config'.version \in {config.version, config.version + 1}
        /\ UNCHANGED <<said, pending, next, cancelled, toBroker, toAgent>>
    BY <1>8, JudgeSteps
  <2>2. job' = NoJob \/ (job'.offer = job.offer /\ job'.version = job.version)
    BY <2>1 DEF Jobs
  <2> QED BY <1>1, <2>1, <2>2
<1>9. CASE Aside
  <2>1. /\ UNCHANGED <<said, next, pending, job, cancelled>>
        /\ config'.version \in {config.version, config.version + 1}
        /\ \A a \in Agents : On(toBroker'[a]) \subseteq On(toBroker[a])
        /\ \A a \in Agents : \A x \in On(toAgent'[a]) :
             x \in On(toAgent[a]) \/ x.type = "snapshot"
    BY <1>9, AsideSteps
  <2>2. \A a \in Agents : \A x \in On(toAgent'[a]) : x \in On(toAgent[a]) \/ x.type # "deliver"
    BY <2>1
  <2> QED BY <1>1, <2>1, <2>2
<1>10. ASSUME NEW publish \in BOOLEAN, FreshnessAnswers(publish) PROVE BooksInv'
  <2>1. /\ job.offer \in Offers /\ job.text \in AllTexts
        /\ job.observed \in Nat /\ job.judged \in Nat /\ job' = NoJob
        /\ \/ said' = said
           \/ /\ job.version = config.version
              /\ Publish(job.offer, job.observed, job.judged, job.text)
    BY <1>10, FreshnessSteps DEF AllTexts
  <2>2. UNCHANGED <<config, next, pending, cancelled, toBroker, toAgent>>
    BY <1>10 DEF FreshnessAnswers
  <2>3. CASE said' = said
    BY <1>1, <2>1, <2>2, <2>3
  <2>4. ASSUME NEW u \in Utterances, said' = Append(said, u), u.offer = job.offer,
               job.version = config.version
        PROVE  BooksInv'
    <3>1. ASSUME NEW q \in Offers PROVE BookOf(q)'
      <4>1. Answered(q)' <=> (Answered(q) \/ q = job.offer)
        BY <1>0, <2>4, AnsweredSays
      <4>2. CASE q = job.offer
        <5>1. BookOf(q)
          BY <1>0
        <5>2. ~pending[q].held /\ ~pending[q].acked /\ q \notin cancelled /\ Known(q)
          BY <2>4, <4>2, <5>1 DEF BookOf
        <5>3. Known(q)' /\ job'.offer # q
          BY <2>1, <2>2, <5>2, JobVersions DEF Known
        <5> QED BY <2>2, <5>2, <5>3 DEF BookOf
      <4>3. CASE q # job.offer
        <5>1. config'.version \in {config.version, config.version + 1}
          BY <2>2
        <5> QED BY <2>1, <2>2, <4>1, <4>3, <5>1, BooksKept
      <4> QED BY <4>2, <4>3
    <3>2. SentBefore'
      BY <1>0, <2>2, SentKept
    <3>3. job'.version <= config'.version
      BY <2>1, <2>2, JobVersions
    <3> QED BY <3>1, <3>2, <3>3 DEF BooksInv
  <2>5. \/ said' = said
        \/ /\ job.version = config.version
           /\ \E u \in Utterances : said' = Append(said, u) /\ u.offer = job.offer
    BY <1>0, <2>1, PublishSays
  <2> QED BY <2>3, <2>4, <2>5
<1>11. ASSUME NEW a \in Agents, HandleAck(a) PROVE BooksInv'
  <2>1. /\ UNCHANGED <<said, config, next, job, cancelled, toAgent>>
        /\ \A o \in Offers :
             /\ pending'[o].held = pending[o].held
             /\ pending'[o].acked = IF o = Message(a).offer THEN pending[o].held
                                    ELSE pending[o].acked
        /\ \A b \in Agents : On(toBroker'[b]) \subseteq On(toBroker[b])
    BY <1>11, AckSteps
  <2>2. ASSUME NEW o \in Offers PROVE BookOf(o)'
    <3>1. BookOf(o) /\ (Answered(o)' <=> Answered(o)) /\ (Known(o)' <=> Known(o))
      BY <1>0, <2>1 DEF Answered, Known
    <3>2. pending'[o].held = pending[o].held /\ (pending'[o].acked => pending'[o].held)
      BY <2>1, <3>1 DEF BookOf
    <3> QED BY <2>1, <3>1, <3>2 DEF BookOf
  <2>3. SentBefore'
    BY <1>0, <2>1, SentKept
  <2> QED BY <2>1, <2>2, <2>3 DEF BooksInv
<1>12. ASSUME NEW a \in Agents, HandleResult(a) PROVE BooksInv'
  <2>1. /\ UNCHANGED <<said, config, next, pending, job, cancelled, toAgent>>
        /\ \A b \in Agents : On(toBroker'[b]) \subseteq On(toBroker[b])
    BY <1>12, ResultSaid
  <2> QED BY <1>1, <2>1
<1>13. ASSUME NEW a \in Agents, Speaking(a) PROVE BooksInv'
  <2>1. UNCHANGED <<said, config, next, pending, job, cancelled>>
    BY <1>13, SpeakingSteps
  <2>2. ExtensionStep(a)
    BY <1>0, <1>13, ExtensionSteps
  <2>3. \A b \in Agents : \A x \in On(toBroker'[b]) :
          x \in On(toBroker[b]) \/ (x.type = "ack" => Known(x.offer))
    <3>1. ASSUME NEW o, Invited(a, o) PROVE Known(o)
      BY <1>0, <3>1 DEF Invited, SentBefore
    <3>2. ASSUME NEW b \in Agents, NEW x \in On(toBroker'[b]), x \notin On(toBroker[b]), x.type = "ack"
          PROVE  Known(x.offer)
      <4>1. b = a
        BY <2>2, <3>2 DEF ExtensionStep
      <4>2. Invited(a, x.offer)
        BY <2>2, <3>2, <4>1 DEF ExtensionStep
      <4> QED BY <3>1, <4>2
    <3> QED BY <3>2
  <2>4. \A b \in Agents : On(toAgent'[b]) \subseteq On(toAgent[b])
    BY <2>2 DEF ExtensionStep
  <2> QED BY <1>1, <2>1, <2>3, <2>4
<1> QED BY <1>3, <1>4, <1>5, <1>6, <1>7, <1>8, <1>9, <1>10, <1>11, <1>12, <1>13, NextKinds

------------------------------------------------------------------------------
(* Answers in order *)

LEMMA AnswerAppended ==
  ASSUME GroupType, LaterSeesEarlier, NoTwins, NEW u \in Utterances, said' = Append(said, u),
         u.offer # NoOffer =>
           \A i \in 1..Len(said) :
             /\ said[i].offer # NoOffer => i <= u.judged
             /\ (said[i].offer # NoOffer \/ i <= u.observed) /\ said[i].text = u.text =>
                  i + Window <= Len(said)
  PROVE  LaterSeesEarlier' /\ NoTwins'
<1>1. /\ Len(said') = Len(said) + 1 /\ \A i \in 1..Len(said) : said'[i] = said[i]
      /\ said'[Len(said) + 1] = u /\ Len(said) \in Nat
  BY AppendSaid
<1>2. \A i \in 1..Len(said') : i \in 1..Len(said) \/ i = Len(said) + 1
  BY <1>1
<1>3. ASSUME NEW i \in 1..Len(said'), NEW j \in 1..Len(said'), i < j,
             said'[i].offer # NoOffer, said'[j].offer # NoOffer
      PROVE  i <= said'[j].judged
  <2>1. i \in 1..Len(said)
    BY <1>1, <1>3
  <2>2. CASE j \in 1..Len(said)
    BY <1>1, <1>3, <2>1, <2>2 DEF LaterSeesEarlier, Latest
  <2>3. CASE j = Len(said) + 1
    BY <1>1, <1>3, <2>1, <2>3
  <2> QED BY <1>2, <2>2, <2>3
<1>4. ASSUME NEW i \in 1..Len(said'), NEW j \in 1..Len(said'), i < j,
             said'[j].offer # NoOffer, said'[i].text = said'[j].text,
             said'[i].offer # NoOffer \/ i <= said'[j].observed
      PROVE  j - i > Window
  <2>1. i \in 1..Len(said)
    BY <1>1, <1>4
  <2>2. CASE j \in 1..Len(said)
    BY <1>1, <1>4, <2>1, <2>2 DEF NoTwins, Latest
  <2>3. CASE j = Len(said) + 1
    <3>1. i + Window <= Len(said)
      BY <1>1, <1>4, <2>1, <2>3
    <3> QED BY <1>1, <2>1, <2>3, <3>1, ConstantsAssumption
  <2> QED BY <1>2, <2>2, <2>3
<1> QED BY <1>3, <1>4 DEF LaterSeesEarlier, NoTwins, Latest

LEMMA NextSpeech == Types /\ TimesInv /\ SpeechInv /\ [Next]_vars => SpeechInv'
<1> SUFFICES ASSUME Types, TimesInv, SpeechInv, [Next]_vars PROVE SpeechInv'
  OBVIOUS
<1>0. /\ GroupType /\ CoordinatorType /\ JobInv /\ LaterSeesEarlier /\ NoTwins /\ Len(said) \in Nat
      /\ Window \in Nat \ {0}
  BY ConstantsAssumption DEF Types, SpeechInv, GroupType
<1>1. ASSUME UNCHANGED said PROVE LaterSeesEarlier' /\ NoTwins'
  BY <1>0, <1>1 DEF LaterSeesEarlier, NoTwins, Latest
<1>2. ASSUME UNCHANGED <<said, job>> PROVE SpeechInv'
  BY <1>0, <1>1, <1>2 DEF SpeechInv, JobInv
<1>3. ASSUME UNCHANGED said, job' = NoJob PROVE SpeechInv'
  BY <1>1, <1>3 DEF SpeechInv, JobInv
<1>4. ASSUME NEW text \in AllTexts, Say(text) PROVE SpeechInv'
  <2>1. PICK u \in Utterances : said' = Append(said, u) /\ u.offer = NoOffer
    BY <1>0, <1>4, SaySays
  <2>2. UNCHANGED job
    BY <1>4 DEF Say, coordinator
  <2>3. LaterSeesEarlier' /\ NoTwins'
    BY <1>0, <2>1, AnswerAppended
  <2>4. /\ Len(said') = Len(said) + 1 /\ \A i \in 1..Len(said) : said'[i] = said[i]
        /\ said'[Len(said) + 1] = u
    BY <1>0, <2>1, AppendSaid
  <2>5. \A i \in 1..Len(said') :
          said'[i].offer # NoOffer => i \in 1..Len(said) /\ said'[i] = said[i]
    <3>1. ASSUME NEW i \in 1..Len(said'), said'[i].offer # NoOffer PROVE i \in 1..Len(said)
      <4>1. i \in 1..Len(said) \/ i = Len(said) + 1
        BY <1>0, <2>4
      <4> QED BY <2>1, <2>4, <3>1, <4>1
    <3> QED BY <2>4, <3>1
  <2>6. JobInv'
    <3>1. SUFFICES ASSUME job' # NoJob
                   PROVE  /\ \A i \in 1..Len(said') :
                               (said'[i].offer # NoOffer \/ i <= job'.observed) /\ said'[i].text = job'.text =>
                                 i + Window <= Len(said')
                          /\ job'.phase = "asked" =>
                               \A i \in 1..Len(said') : said'[i].offer # NoOffer => i <= job'.judged
      BY DEF JobInv
    <3>2. job.observed \in Nat /\ job.observed <= Len(said)
      <4>1. job \in Jobs /\ job.observed <= job.judged /\ job.judged <= Len(said)
        BY <1>0 DEF CoordinatorType, TimesInv
      <4>2. job.observed \in Nat /\ job.judged \in Nat
        BY <4>1 DEF Jobs, NoJob
      <4> QED BY <1>0, <4>1, <4>2
    <3>3. ASSUME NEW i \in 1..Len(said'), said'[i].offer # NoOffer \/ i <= job.observed,
                 said'[i].text = job.text
          PROVE  i + Window <= Len(said')
      <4>1. i \in 1..Len(said) /\ said'[i] = said[i]
        BY <1>0, <2>4, <2>5, <3>2, <3>3
      <4>2. i + Window <= Len(said)
        BY <1>0, <2>2, <3>1, <3>3, <4>1 DEF JobInv
      <4> QED BY <1>0, <2>4, <4>1, <4>2
    <3>4. job'.phase = "asked" =>
            \A i \in 1..Len(said') : said'[i].offer # NoOffer => i <= job'.judged
      BY <1>0, <2>2, <2>5, <3>1 DEF JobInv
    <3> QED BY <2>2, <3>3, <3>4
  <2> QED BY <2>3, <2>6 DEF SpeechInv
<1>5. CASE StartResult
  <2>1. PICK o \in Offers, text \in AllTexts :
           /\ job = NoJob
           /\ \/ UNCHANGED <<said, pending, job>>
              \/ /\ pending' = [pending EXCEPT ![o] = NoEntry]
                 /\ \/ UNCHANGED <<said, job>>
                    \/ /\ ~IsDuplicate(text)
                       /\ \/ /\ Publish(o, pending[o].observed, pending[o].observed, text)
                             /\ Latest = pending[o].observed /\ UNCHANGED job
                          \/ /\ UNCHANGED said
                             /\ job' = [offer |-> o, observed |-> pending[o].observed,
                                        text |-> text, phase |-> "context",
                                        version |-> config.version,
                                        judged |-> pending[o].observed]
    BY <1>5, StartResultSteps
  <2>2. ~IsDuplicate(text) =>
          \A i \in 1..Len(said) : said[i].text = text => i + Window <= Len(said)
    BY <1>0 DEF IsDuplicate, Recent, Latest
  <2>3. ASSUME ~IsDuplicate(text), Publish(o, pending[o].observed, pending[o].observed, text),
               Latest = pending[o].observed, UNCHANGED job
        PROVE  SpeechInv'
    <3>1. CASE said' = said
      BY <1>2, <2>3, <3>1
    <3>2. ASSUME NEW u \in Utterances, said' = Append(said, u), u.judged = Len(said), u.text = text
          PROVE  SpeechInv'
      <4>1. \A i \in 1..Len(said) :
              i <= u.judged /\ (said[i].text = u.text => i + Window <= Len(said))
        BY <1>0, <2>2, <2>3, <3>2
      <4>2. LaterSeesEarlier' /\ NoTwins'
        BY <1>0, <3>2, <4>1, AnswerAppended
      <4>3. JobInv'
        BY <2>1, <2>3 DEF JobInv
      <4> QED BY <4>2, <4>3 DEF SpeechInv
    <3>3. pending[o].observed \in Nat
      BY <1>0 DEF CoordinatorType
    <3>4. \/ said' = said
          \/ \E u \in Utterances :
               said' = Append(said, u) /\ u.judged = pending[o].observed /\ u.text = text
      BY <1>0, <2>3, <3>3, PublishSays
    <3> QED BY <2>3, <3>1, <3>2, <3>4 DEF Latest
  <2>4. ASSUME ~IsDuplicate(text), UNCHANGED said,
               job' = [offer |-> o, observed |-> pending[o].observed,
                       text |-> text, phase |-> "context",
                       version |-> config.version, judged |-> pending[o].observed]
        PROVE  SpeechInv'
    <3>1. job'.text = text /\ job'.phase # "asked"
      BY <2>4
    <3>2. \A i \in 1..Len(said') : said'[i].text = job'.text => i + Window <= Len(said')
      BY <2>2, <2>4, <3>1
    <3>3. JobInv'
      BY <3>1, <3>2 DEF JobInv
    <3> QED BY <1>1, <2>4, <3>3 DEF SpeechInv
  <2> QED BY <1>2, <2>1, <2>3, <2>4
<1>6. CASE Judges
  <2>1. /\ job # NoJob /\ job \in Jobs
        /\ \/ job' = NoJob
           \/ job' = [job EXCEPT !.phase = "queued"]
           \/ job' = [job EXCEPT !.phase = "asked", !.judged = Latest]
        /\ UNCHANGED said
    BY <1>6, JudgeSteps
  <2>2. CASE job' = NoJob
    BY <1>3, <2>1, <2>2
  <2>3. CASE job' = [job EXCEPT !.phase = "queued"]
    <3>1. job'.text = job.text /\ job'.observed = job.observed /\ job'.phase = "queued"
      BY <2>1, <2>3 DEF Jobs
    <3>2. \A i \in 1..Len(said') :
            (said'[i].offer # NoOffer \/ i <= job'.observed) /\ said'[i].text = job'.text =>
              i + Window <= Len(said')
      BY <1>0, <2>1, <3>1 DEF JobInv
    <3>3. job'.phase # "asked"
      BY <3>1
    <3>4. JobInv'
      BY <3>2, <3>3 DEF JobInv
    <3> QED BY <1>1, <2>1, <3>4 DEF SpeechInv
  <2>4. CASE job' = [job EXCEPT !.phase = "asked", !.judged = Latest]
    <3>1. job'.text = job.text /\ job'.observed = job.observed /\ job'.judged = Len(said)
      BY <2>1, <2>4 DEF Jobs, Latest
    <3>2. \A i \in 1..Len(said') :
            (said'[i].offer # NoOffer \/ i <= job'.observed) /\ said'[i].text = job'.text =>
              i + Window <= Len(said')
      BY <1>0, <2>1, <3>1 DEF JobInv
    <3>3. \A i \in 1..Len(said') : i <= job'.judged
      BY <1>0, <2>1, <3>1
    <3>4. JobInv'
      BY <3>2, <3>3 DEF JobInv
    <3> QED BY <1>1, <2>1, <3>4 DEF SpeechInv
  <2> QED BY <2>1, <2>2, <2>3, <2>4
<1>7. ASSUME NEW publish \in BOOLEAN, FreshnessAnswers(publish) PROVE SpeechInv'
  <2>1. /\ job.offer \in Offers /\ job.text \in AllTexts /\ job.phase = "asked" /\ job # NoJob
        /\ job.observed \in Nat /\ job.judged \in Nat /\ job' = NoJob
        /\ \/ said' = said
           \/ Publish(job.offer, job.observed, job.judged, job.text)
    BY <1>7, FreshnessSteps DEF AllTexts, NoJob
  <2>2. CASE said' = said
    BY <1>3, <2>1, <2>2
  <2>3. ASSUME NEW u \in Utterances, said' = Append(said, u), u.judged = job.judged,
               u.text = job.text, u.observed = job.observed
        PROVE  SpeechInv'
    <3>1. \A i \in 1..Len(said) :
            /\ said[i].offer # NoOffer => i <= u.judged
            /\ (said[i].offer # NoOffer \/ i <= u.observed) /\ said[i].text = u.text =>
                 i + Window <= Len(said)
      BY <1>0, <2>1, <2>3 DEF JobInv
    <3>2. LaterSeesEarlier' /\ NoTwins'
      BY <1>0, <2>3, <3>1, AnswerAppended
    <3> QED BY <2>1, <3>2 DEF SpeechInv, JobInv
  <2>4. \/ said' = said
        \/ \E u \in Utterances :
             /\ said' = Append(said, u)
             /\ u.judged = job.judged /\ u.text = job.text /\ u.observed = job.observed
    BY <1>0, <2>1, PublishSays
  <2> QED BY <2>2, <2>3, <2>4
<1>8. ASSUME NEW targets \in SUBSET Agents, Select(targets) PROVE SpeechInv'
  BY <1>2, <1>8 DEF Select
<1>9. CASE Deliver
  BY <1>2, <1>9 DEF Deliver
<1>10. CASE Withdraws
  BY <1>2, <1>10, WithdrawSteps
<1>11. CASE Aside
  BY <1>2, <1>11, AsideSteps
<1>12. ASSUME NEW a \in Agents, HandleAck(a) \/ HandleResult(a) \/ Speaking(a) PROVE SpeechInv'
  BY <1>2, <1>12, AckSteps, ResultSaid, SpeakingSteps
<1> QED BY <1>4, <1>5, <1>6, <1>7, <1>8, <1>9, <1>10, <1>11, <1>12, NextKinds

------------------------------------------------------------------------------
(* What is acknowledged is in hand *)

LEMMA NextHand == Types /\ SentBefore /\ HandInv /\ [Next]_vars => HandInv'
<1> SUFFICES ASSUME Types, SentBefore, HandInv, [Next]_vars PROVE HandInv'
  OBVIOUS
<1>0. GroupType /\ CoordinatorType /\ NetworkType /\ Addressed
  BY DEF Types
\* Steps on which what is in hand stays in hand
<1>1. ASSUME \A o \in Offers : pending'[o] = NoEntry \/ pending'[o] = pending[o],
             UNCHANGED queue, Calm
      PROVE  HandInv'
  <2>1. ASSUME NEW o \in Offers, pending'[o].held, pending'[o].acked \/ Acking(o)'
        PROVE  InHand(o)'
    <3>1. pending'[o] # NoEntry /\ pending'[o] = pending[o]
      BY <1>1, <2>1 DEF NoEntry
    <3>2. InHand(o)
      BY <1>1, <2>1, <3>1 DEF HandInv, Calm
    <3>3. /\ ext[o[1]].active = o => ext'[o[1]].active = o
          /\ Closing(o) => Closing(o)'
      BY <1>1, <3>1 DEF Calm
    <3>4. InHand(o)'
      BY <1>1, <3>2, <3>3 DEF InHand
    <3> QED BY <3>4
  <2> QED BY <2>1 DEF HandInv
<1>2. ASSUME UNCHANGED <<pending, queue, toBroker, ext>> PROVE HandInv'
  BY <1>1, <1>2, CalmStays
<1>3. ASSUME NEW text \in AllTexts, Say(text) PROVE HandInv'
  BY <1>2, <1>3 DEF Say, coordinator
<1>4. ASSUME NEW targets \in SUBSET Agents, Select(targets) PROVE HandInv'
  BY <1>2, <1>4 DEF Select
<1>5. CASE Deliver
  <2>1. PICK sent \in SUBSET Agents :
           \A o \in Offers :
             pending'[o] = IF o[1] \in sent /\ o[2] = next[o[1]]
                           THEN [held |-> TRUE, observed |-> route.observed, acked |-> FALSE]
                           ELSE pending[o]
    BY <1>5, DeliverSteps
  <2>2. UNCHANGED <<queue, toBroker, ext>>
    BY <1>5 DEF Deliver
  <2>3. ASSUME NEW o \in Offers, pending'[o].held, pending'[o].acked \/ Acking(o)'
        PROVE  InHand(o)'
    <3>1. (Acking(o)' <=> Acking(o)) /\ (InHand(o)' <=> InHand(o))
      BY <2>2 DEF Acking, InHand, Closing, On
    <3>2. CASE o[1] \in sent /\ o[2] = next[o[1]]
      <4>1. ~pending'[o].acked
        BY <2>1, <3>2
      <4>2. Acking(o) /\ o[1] \in Agents
        BY <2>3, <3>1, <4>1 DEF Offers
      <4>3. Known(o)
        BY <4>2 DEF Acking, SentBefore
      <4>4. next[o[1]] \in Nat
        BY <1>0, <4>2 DEF CoordinatorType
      <4> QED BY <3>2, <4>3, <4>4 DEF Known
    <3>3. CASE ~(o[1] \in sent /\ o[2] = next[o[1]])
      <4>1. pending'[o] = pending[o]
        BY <2>1, <3>3
      <4> QED BY <2>3, <3>1, <4>1 DEF HandInv
    <3> QED BY <3>2, <3>3
  <2> QED BY <2>3 DEF HandInv
<1>6. CASE Withdraws
  <2>1. /\ UNCHANGED queue /\ Calm
        /\ \A o \in Offers : pending'[o] = NoEntry \/ pending'[o] = pending[o]
    BY <1>6, WithdrawSteps
  <2> QED BY <1>1, <2>1
<1>7. CASE StartResult
  <2>1. PICK o \in Offers, text \in AllTexts :
           /\ On(queue) = On(queue') \cup {[offer |-> o, text |-> text]}
           /\ \/ ~pending[o].held /\ UNCHANGED pending
              \/ pending' = [pending EXCEPT ![o] = NoEntry]
    BY <1>7, StartResultSteps
  <2>2. UNCHANGED <<toBroker, ext>>
    BY <1>7 DEF StartResult
  <2>3. ASSUME NEW q \in Offers, pending'[q].held, pending'[q].acked \/ Acking(q)'
        PROVE  InHand(q)'
    <3>1. (Acking(q)' <=> Acking(q)) /\ (Closing(q)' <=> Closing(q))
      BY <2>2 DEF Acking, Closing, On
    <3>2. q # o /\ pending'[q] = pending[q]
      BY <1>0, <2>1, <2>3 DEF CoordinatorType, NoEntry
    <3>3. InHand(q)
      BY <2>3, <3>1, <3>2 DEF HandInv
    <3>4. ASSUME NEW x \in On(queue), x.offer = q PROVE x \in On(queue')
      <4>1. x # [offer |-> o, text |-> text]
        BY <3>2, <3>4
      <4> QED BY <2>1, <4>1
    <3>5. CASE \E x \in On(queue) : x.offer = q
      <4>1. \E x \in On(queue') : x.offer = q
        BY <3>4, <3>5
      <4> QED BY <4>1 DEF InHand
    <3>6. CASE ext[q[1]].active = q
      BY <2>2, <3>6 DEF InHand
    <3>7. CASE Closing(q)
      BY <3>1, <3>7 DEF InHand
    <3> QED BY <3>3, <3>5, <3>6, <3>7 DEF InHand
  <2> QED BY <2>3 DEF HandInv
<1>8. CASE Judges
  <2>1. UNCHANGED <<pending, queue, toBroker, ext>>
    BY <1>8, JudgeSteps
  <2> QED BY <1>2, <2>1
<1>9. CASE Aside
  <2>1. UNCHANGED <<pending, queue>> /\ Calm
    BY <1>9, AsideSteps
  <2> QED BY <1>1, <2>1
<1>10. ASSUME NEW publish \in BOOLEAN, FreshnessAnswers(publish) PROVE HandInv'
  BY <1>2, <1>10 DEF FreshnessAnswers
<1>11. ASSUME NEW a \in Agents, HandleAck(a) PROVE HandInv'
  <2>1. /\ UNCHANGED <<queue, ext>> /\ Message(a).offer \in Offers /\ Message(a).offer[1] = a
        /\ \E x \in On(toBroker[a]) : x.type = "ack" /\ x.offer = Message(a).offer
        /\ \A o \in Offers :
             /\ pending'[o].held = pending[o].held
             /\ pending'[o].acked = IF o = Message(a).offer THEN pending[o].held
                                    ELSE pending[o].acked
        /\ \A o \in Offers : (Acking(o)' => Acking(o)) /\ (Closing(o) => Closing(o)')
    BY <1>11, AckSteps
  <2>2. ASSUME NEW o \in Offers, pending'[o].held, pending'[o].acked \/ Acking(o)'
        PROVE  InHand(o)'
    <3>1. pending[o].held /\ (pending[o].acked \/ Acking(o))
      <4>1. o = Message(a).offer => Acking(o)
        BY <2>1 DEF Acking
      <4> QED BY <2>1, <2>2, <4>1
    <3>2. InHand(o)
      BY <3>1 DEF HandInv
    <3> QED BY <2>1, <3>2 DEF InHand
  <2> QED BY <2>2 DEF HandInv
<1>12. ASSUME NEW a \in Agents, HandleResult(a) PROVE HandInv'
  <2>1. /\ UNCHANGED <<pending, ext>> /\ On(queue) \subseteq On(queue')
        /\ pending[Message(a).offer].held => \E x \in On(queue') : x.offer = Message(a).offer
        /\ \A o \in Offers : Acking(o)' => Acking(o)
        /\ \A o \in Offers : Closing(o) => Closing(o)' \/ o = Message(a).offer
    BY <1>12, ResultSaid
  <2>2. ASSUME NEW o \in Offers, pending'[o].held, pending'[o].acked \/ Acking(o)'
        PROVE  InHand(o)'
    <3>1. InHand(o) /\ pending[o].held
      BY <2>1, <2>2 DEF HandInv
    <3>2. Closing(o) => Closing(o)' \/ \E x \in On(queue') : x.offer = o
      BY <2>1, <3>1
    <3> QED BY <2>1, <3>1, <3>2 DEF InHand
  <2> QED BY <2>2 DEF HandInv
<1>13. ASSUME NEW a \in Agents, Speaking(a) PROVE HandInv'
  <2>1. UNCHANGED <<queue, pending>>
    BY <1>13, SpeakingSteps
  <2>2. ExtensionStep(a)
    BY <1>0, <1>13, ExtensionSteps
  <2>3. ASSUME NEW o \in Offers, pending'[o].held, pending'[o].acked \/ Acking(o)'
        PROVE  InHand(o)'
    <3>1. o[1] \in Agents
      BY DEF Offers
    <3>2. CASE o[1] # a
      <4>1. toBroker'[o[1]] = toBroker[o[1]] /\ ext'[o[1]] = ext[o[1]]
        BY <2>2, <3>1, <3>2 DEF ExtensionStep
      <4>2. (Acking(o)' <=> Acking(o)) /\ (Closing(o)' <=> Closing(o))
        BY <4>1 DEF Acking, Closing
      <4>3. InHand(o)
        BY <2>1, <2>3, <4>2 DEF HandInv
      <4> QED BY <2>1, <4>1, <4>2, <4>3 DEF InHand
    <3>3. CASE o[1] = a
      <4>1. Closing(o) => Closing(o)'
        BY <2>2, <3>3 DEF ExtensionStep, Closing
      <4>2. CASE Acking(o)' /\ ~Acking(o)
        <5>1. PICK x \in On(toBroker'[a]) : x.type = "ack" /\ x.offer = o
          BY <3>3, <4>2 DEF Acking
        <5>2. x \notin On(toBroker[a])
          BY <3>3, <4>2, <5>1 DEF Acking
        <5>3. ext'[a].active = o
          BY <2>2, <5>1, <5>2 DEF ExtensionStep
        <5> QED BY <3>3, <5>3 DEF InHand
      <4>3. CASE ~(Acking(o)' /\ ~Acking(o))
        <5>1. InHand(o)
          BY <2>1, <2>3, <4>3 DEF HandInv
        <5>2. CASE ext[a].active = o
          <6>1. o # NoOffer
            BY ConstantsAssumption
          <6>2. \/ ext'[a].active = o
                \/ \E x \in On(toBroker'[a]) : x.type \in {"decline", "result"} /\ x.offer = o
            BY <2>2, <5>2, <6>1 DEF ExtensionStep
          <6> QED BY <3>3, <6>2 DEF InHand, Closing
        <5>3. CASE Closing(o)
          BY <4>1, <5>3 DEF InHand
        <5>4. CASE \E x \in On(queue) : x.offer = o
          BY <2>1, <5>4 DEF InHand
        <5> QED BY <3>3, <5>1, <5>2, <5>3, <5>4 DEF InHand
      <4> QED BY <4>2, <4>3
    <3> QED BY <3>2, <3>3
  <2> QED BY <2>3 DEF HandInv
<1> QED BY <1>3, <1>4, <1>5, <1>6, <1>7, <1>8, <1>9, <1>10, <1>11, <1>12, <1>13, NextKinds

------------------------------------------------------------------------------
(* The first state, and what the invariants say together *)

LEMMA InitTypes == Init => Types
<1> SUFFICES ASSUME Init PROVE Types
  OBVIOUS
<1>1. GroupType
  <2>1. said = <<>> /\ cooling = {}
    BY DEF Init
  <2>2. said \in Seq(Utterances)
    BY <2>1
  <2>3. config \in [ready : BOOLEAN, version : Nat]
    BY DEF Init
  <2>4. member \in [Agents -> Members]
    BY DEF Init, Members, Groups
  <2> QED BY <2>1, <2>2, <2>3, <2>4 DEF GroupType
<1>2. CoordinatorType
  <2>1. route \in [targets : SUBSET Agents, observed : Nat, version : Nat]
    BY DEF Init, NoRoute
  <2>2. pending \in [Offers -> [held : BOOLEAN, observed : Nat, acked : BOOLEAN]]
    BY DEF Init, NoEntry
  <2>3. next \in [Agents -> Nat \ {0}] /\ queue \in Seq(Results) /\ cancelled \in SUBSET Offers
    BY DEF Init
  <2>4. job \in Jobs
    BY NoneJudged DEF Init
  <2> QED BY <2>1, <2>2, <2>3, <2>4 DEF CoordinatorType
<1>3. NetworkType
  <2>1. toBroker \in [Agents -> Seq(ToBroker)] /\ toAgent \in [Agents -> Seq(ToAgent)]
    BY DEF Init
  <2>2. ext \in [Agents -> Extensions]
    BY DEF Init, Extensions, Groups
  <2> QED BY <2>1, <2>2 DEF NetworkType
<1>4. Addressed
  BY OnEmpty DEF Init, Addressed, NoRoute
<1> QED BY <1>1, <1>2, <1>3, <1>4 DEF Types

LEMMA InitInvariants == Init => TimesInv /\ BooksInv /\ SpeechInv /\ HandInv
<1> SUFFICES ASSUME Init PROVE TimesInv /\ BooksInv /\ SpeechInv /\ HandInv
  OBVIOUS
<1>1. /\ said = <<>> /\ Len(said) = 0 /\ 1..Len(said) = {} /\ job = NoJob /\ cancelled = {}
      /\ \A o \in Offers : pending[o] = NoEntry
      /\ config.version = 1
  BY DEF Init
<1>2. \A a \in Agents : On(toBroker[a]) = {} /\ On(toAgent[a]) = {}
  BY OnEmpty DEF Init
<1>3. TimesInv
  BY <1>1 DEF Init, TimesInv, NoRoute, NoEntry, NoJob
<1>4. BooksInv
  <2>1. \A o \in Offers : ~Answered(o)
    BY <1>1 DEF Answered
  <2>2. \A o \in Offers : job.offer # o
    BY <1>1, ConstantsAssumption DEF NoJob
  <2>3. \A o \in Offers : BookOf(o)
    BY <1>1, <2>1, <2>2 DEF BookOf, NoEntry
  <2>4. SentBefore
    BY <1>2 DEF SentBefore
  <2>5. job.version <= config.version
    BY <1>1 DEF NoJob
  <2> QED BY <2>3, <2>4, <2>5 DEF BooksInv
<1>5. SpeechInv
  BY <1>1 DEF SpeechInv, JobInv, LaterSeesEarlier, NoTwins, Latest
<1>6. HandInv
  BY <1>1, <1>2 DEF HandInv, NoEntry
<1> QED BY <1>3, <1>4, <1>5, <1>6

LEMMA TypesSay == Types /\ TimesInv /\ BooksInv => TypeOK
<1> SUFFICES ASSUME Types, TimesInv, BooksInv PROVE TypeOK
  OBVIOUS
<1>0. /\ GroupType /\ CoordinatorType /\ NetworkType /\ Addressed /\ Len(said) \in Nat
      /\ \A o \in Offers : BookOf(o)
  BY DEF Types, GroupType, BooksInv
<1>1. ASSUME NEW i \in 1..Latest
      PROVE  /\ said[i].offer \in Offers \cup {NoOffer}
             /\ said[i].observed \in 0..(i - 1)
             /\ said[i].judged \in said[i].observed..(i - 1)
  <2>1. i \in 1..Len(said) /\ said[i] \in Utterances
    BY <1>0 DEF Latest, GroupType
  <2>2. said[i].offer \in Offers \cup {NoOffer} /\ said[i].observed \in Nat /\ said[i].judged \in Nat
    BY <2>1 DEF Utterances
  <2>3. said[i].observed <= said[i].judged /\ said[i].judged < i
    BY <2>1 DEF TimesInv
  <2> QED BY <2>1, <2>2, <2>3
<1>2. member \in [Agents -> [group : Groups, online : BOOLEAN, idle : BOOLEAN, enabled : BOOLEAN]]
  BY <1>0 DEF GroupType, Members
<1>3. ASSUME NEW a \in Agents
      PROVE  ext[a].at \in Groups \cup {"joining"} /\ ext[a].active \in OffersOf(a) \cup {NoOffer}
  <2>1. ext[a] \in Extensions
    BY <1>0 DEF NetworkType
  <2>2. ext[a].at \in Groups \cup {"joining"} /\ ext[a].active \in Offers \cup {NoOffer}
    BY <2>1 DEF Extensions
  <2> QED BY <1>0, <2>2 DEF Addressed, OffersOf
<1>4. pending \in [Offers -> [held : BOOLEAN, observed : 0..Latest, acked : BOOLEAN]]
  <2>1. ASSUME NEW o \in Offers
        PROVE  pending[o] \in [held : BOOLEAN, observed : 0..Latest, acked : BOOLEAN]
    <3>1. pending[o] \in [held : BOOLEAN, observed : Nat, acked : BOOLEAN]
      BY <1>0 DEF CoordinatorType
    <3>2. pending[o].observed \in 0..Latest
      BY <1>0, <3>1 DEF TimesInv, Latest
    <3> QED BY <3>1, <3>2
  <2>2. pending \in [Offers -> [held : BOOLEAN, observed : Nat, acked : BOOLEAN]]
    BY <1>0 DEF CoordinatorType
  <2> QED BY <2>1, <2>2
<1>5. \A o \in Offers : (pending[o].held => o[2] < next[o[1]]) /\ (pending[o].acked => pending[o].held)
  BY <1>0 DEF BookOf, Known
<1>6. job.phase \in {"none", "context", "queued", "asked"}
  BY <1>0 DEF CoordinatorType, Jobs, NoJob
<1>7. route.targets \in SUBSET Agents /\ cooling \in SUBSET Agents /\ cancelled \in SUBSET Offers
  BY <1>0 DEF GroupType, CoordinatorType
<1> QED BY <1>1, <1>2, <1>3, <1>4, <1>5, <1>6, <1>7 DEF TypeOK

LEMMA BooksSay == Types /\ BooksInv => CancelledStaysSilent
<1> SUFFICES ASSUME Types, BooksInv, NEW i \in 1..Latest, said[i].offer \in cancelled PROVE FALSE
  BY DEF CancelledStaysSilent
<1>1. cancelled \subseteq Offers
  BY DEF Types, CoordinatorType
<1>2. Answered(said[i].offer)
  BY DEF Answered, Latest
<1>3. BookOf(said[i].offer)
  BY <1>1 DEF BooksInv
<1> QED BY <1>2, <1>3 DEF BookOf

LEMMA HandSays == Types /\ BooksInv /\ HandInv => AckedIsInHand
<1> SUFFICES ASSUME Types, BooksInv, HandInv, NEW o \in Offers, pending[o].acked
             PROVE  \/ ext[o[1]].active = o
                    \/ \E i \in DOMAIN toBroker[o[1]] :
                         LET msg == toBroker[o[1]][i]
                         IN  msg.type \in {"decline", "result"} /\ msg.offer = o
                    \/ \E i \in DOMAIN queue : queue[i].offer = o
  BY DEF AckedIsInHand
<1>1. InHand(o)
  BY DEF BooksInv, BookOf, HandInv
<1> QED BY <1>1 DEF InHand, Closing, On

------------------------------------------------------------------------------
(* Theorems *)

AnswersInv == Types /\ TimesInv /\ BooksInv /\ SpeechInv /\ HandInv

LEMMA AnswersInvariant == Spec => []AnswersInv
<1>1. Init => AnswersInv
  BY InitTypes, InitInvariants DEF AnswersInv
<1>2. AnswersInv /\ [Next]_vars => AnswersInv'
  BY NextTypes, NextTimes, NextBooks, NextSpeech, NextHand DEF AnswersInv, BooksInv
<1> QED BY <1>1, <1>2, PTL DEF Spec

\* Messages, invitations and members are what the types say: an extension works
\* only on offers to its own Agent, a message is judged with no later one in
\* view, and the broker waits only for offers that it has sent.
THEOREM TypeCorrect == Spec => []TypeOK
<1>1. AnswersInv => TypeOK
  BY TypesSay DEF AnswersInv
<1> QED BY <1>1, AnswersInvariant, PTL

\* What was declined, expired, cancelled or deleted with the key is never
\* published, in whatever order its result, the freshness call and the
\* cancellation come (decline, cancelForClient, clear, publishProactiveAnswer).
THEOREM WithdrawnStaysSilent == Spec => []CancelledStaysSilent
<1>1. AnswersInv => CancelledStaysSilent
  BY BooksSay DEF AnswersInv
<1> QED BY <1>1, AnswersInvariant, PTL

\* Every answer was made or judged with all proactive answers before it in view:
\* the result queue takes one at a time, and the freshness call reads the group
\* when it runs.
THEOREM AnswersSeeEarlier == Spec => []LaterSeesEarlier
<1>1. AnswersInv => LaterSeesEarlier
  BY DEF AnswersInv, SpeechInv
<1> QED BY <1>1, AnswersInvariant, PTL

\* A proactive answer repeats none of the newest messages before it (as many as
\* #isDuplicate reads) that is a proactive answer or was there at its invitation,
\* although #isDuplicate looks only before the context and the freshness call.
THEOREM NoAnswerTwice == Spec => []NoTwins
<1>1. AnswersInv => NoTwins
  BY DEF AnswersInv, SpeechInv
<1> QED BY <1>1, AnswersInvariant, PTL

\* An offer whose timer was stopped by its acknowledgement is worked on, or its
\* answer or refusal is on the way, through toggles, moves and broken links.
THEOREM AcknowledgedInHand == Spec => []AckedIsInHand
<1>1. AnswersInv => AckedIsInHand
  BY HandSays DEF AnswersInv
<1> QED BY <1>1, AnswersInvariant, PTL

=============================================================================
