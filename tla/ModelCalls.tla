------------------------------- MODULE ModelCalls -------------------------------
(***************************************************************************)
(* Everything that calls the external model, together: the validation of   *)
(* keys (validateConfigKey and start in src/src/broker/server.ts), the     *)
(* router and the freshness check of proactive-coordinator.ts, and the     *)
(* summaries that these two wait for (GroupContextSummary), all queued in  *)
(* one scheduler (ProactiveScheduler); and the stored key, whose           *)
(* configVersion (proactive-config.ts) tells an answer apart that was      *)
(* asked for with another key.                                             *)
(*                                                                         *)
(* Each caller has one place in the scheduler.  Promises that are settled  *)
(* continue before the broker reads anything else: such a step (Microtask) *)
(* comes before all others.                                                *)
(***************************************************************************)
EXTENDS ProactiveScheduler, GroupContextSummary

CONSTANTS Router, Freshness, \* the Callers of the contexts
          Summary, Startup,  \* the places of the summary, of the check at the start
          Requests,          \* the places of requests of users
          Keys,
          MaxDecisions       \* bound: requests of users

ASSUME ModelCallsAssumption ==
  /\ Callers = {Router, Freshness} /\ Router # Freshness
  /\ Calls = Callers \cup Requests \cup {Summary, Startup}
  /\ Callers \cap Requests = {} /\ Startup \notin Callers \cup Requests
  /\ Summary \notin Callers \cup Requests \cup {Startup}
  /\ None \notin Keys /\ Keys # {} /\ MaxDecisions \in Nat

VARIABLES
  config, \* the stored configuration: key, status, version
  ask,    \* of the validations that are queued or run
  user,   \* the router and the freshness check: phase, and the credentials read
  \* History
  decisions, \* number of requests of users
  effective, \* the one that the stored configuration comes from
  basis      \* the key that the last verdict in it was about

configVars == <<config, decisions, effective, basis>>
callVars == <<queues, running, burst, aborted, state, overtaken>>
modelVars == <<callVars, summaryVars, configVars, ask, user>>

Stored(key, status, version) == [key |-> key, status |-> status, version |-> version]
NoKey == Stored(None, "missing", 0)
Question(key, save, version, number) ==
  [key |-> key, save |-> save, version |-> version, number |-> number]
User(phase, cred) == [phase |-> phase, cred |-> cred]
Idle == User("idle", NoKey)
NoQuestion == Question(None, FALSE, 0, 0)

\* The file that the broker finds; which key is in it makes no difference.
SystemInit ==
  /\ Init /\ SummaryInit
  /\ config \in {NoKey, Stored(CHOOSE key \in Keys : TRUE, "verified", 1)}
  /\ ask = [c \in Requests \cup {Startup} |-> NoQuestion]
  /\ user = [c \in Callers |-> Idle]
  /\ decisions = 0 /\ effective = 0 /\ basis = config.key

------------------------------------------------------------------------------
(* ProactiveConfigStore *)

Saved(key, status) == Stored(key, status, config.version + 1)

MarkedInvalid == IF config.key = None THEN config ELSE Saved(config.key, "invalid")

Deleted == Saved(None, "missing")
Rebuilt == NoKey

------------------------------------------------------------------------------
(* Users *)

\* The extension waits twelve seconds for the answer and forgets the request then;
\* the user may send the next one before or after.
Decide == decisions < MaxDecisions /\ decisions' = decisions + 1

AskFor(key, save) ==
  /\ Decide
  /\ \E r \in Requests :
       /\ r = CHOOSE q \in Requests : state[q] \notin {"queued", "running"}
       /\ Schedule(r, "validation")
       /\ ask' = [ask EXCEPT ![r] = Question(key, save, 0, decisions')]
  /\ UNCHANGED <<summaryVars, config, effective, basis, user>>

\* broker.config.update, and broker.config.validate without a key, save the key
\* when it is good; with a key, broker.config.validate only tells.
Update(key) == AskFor(key, TRUE)
ValidateStored == config.key # None /\ AskFor(config.key, TRUE)
Validate(key) == AskFor(key, FALSE)

\* abortAll rejects what waits: the update of the summary ends and its callers
\* go on; the router and the freshness check give up.  users is their state.
Rejected(c) == state[c] = "queued"
AfterAbort(users) ==
  [c \in Callers |->
     IF users[c].phase = "context" /\ Rejected(Summary) THEN [users[c] EXCEPT !.phase = "ready"]
     ELSE IF Rejected(c) THEN Idle ELSE users[c]]

Abort(users) ==
  /\ AbortAll
  /\ IF Rejected(Summary) THEN SummarizeFails ELSE UNCHANGED summaryVars
  /\ user' = AfterAbort(users)
  /\ ask' = [c \in Requests \cup {Startup} |-> IF Rejected(c) THEN NoQuestion ELSE ask[c]]

\* Mutant: the calls go on.
DeleteOnly(next) ==
  /\ Decide
  /\ config' = next /\ effective' = decisions'
  /\ UNCHANGED <<callVars, summaryVars, basis, ask, user>>

\* broker.config.delete
Delete(next) ==
  /\ Decide
  /\ Abort(user)
  /\ config' = next /\ effective' = decisions'
  /\ UNCHANGED basis

------------------------------------------------------------------------------
(* Router and freshness check *)

\* #route, or the result of an Agent after new messages: the credentials are
\* read, then the context is prepared.
Ask(c) ==
  /\ user[c] = Idle /\ config.status = "verified"
  /\ Prepare(c)
  /\ user' = [user EXCEPT ![c] = User(IF waiting'[c] = 0 THEN "ready" ELSE "context", config)]
  /\ IF waiting'[c] # 0 /\ inFlight.done THEN Schedule(Summary, "summary") ELSE UNCHANGED callVars
  /\ UNCHANGED <<configVars, ask>>

SameKey(c) == config.version = user[c].cred.version

\* With the context: nothing is asked when the key has changed.  The context is
\* only needed for the question.
Call(c) ==
  /\ user[c].phase = "ready"
  /\ context' = [context EXCEPT ![c] = NoContext]
  /\ IF config.status = "verified" /\ SameKey(c)
     THEN /\ Schedule(c, IF c = Router THEN "router" ELSE "freshness")
          /\ user' = [user EXCEPT ![c].phase = "called"]
     ELSE user' = [user EXCEPT ![c] = Idle] /\ UNCHANGED callVars
  /\ UNCHANGED <<latest, public, stored, prompt, inFlight, waiting, faults, configVars, ask>>

\* Only the key that the call was made with is to blame.
ToBlame(c) == SameKey(c)

\* The provider refused the key of the call: onInvalidKey.  The next call has
\* started by now and is aborted, too.
Blame(c) ==
  /\ user[c].phase = "refused"
  /\ IF ToBlame(c)
     THEN /\ Abort([user EXCEPT ![c] = Idle])
          /\ config' = MarkedInvalid /\ basis' = user[c].cred.key
     ELSE /\ user' = [user EXCEPT ![c] = Idle]
          /\ UNCHANGED <<callVars, summaryVars, config, basis, ask>>
  /\ UNCHANGED <<decisions, effective>>

------------------------------------------------------------------------------
(* The provider *)

\* The running call ends; its caller is told and may use its place again.
End == Finish("new")

\* The result of the running call is the matter of these callers.
ValidationEnds == running \in Requests \cup {Startup}
SummaryEnds == running = Summary
UseEnds == running \in Callers

Forget == ask' = [ask EXCEPT ![running] = NoQuestion]

\* The validation at the start counts only while the configuration is the same.
Counts(r) == r = Startup => config.version = ask[r].version

ValidationOk ==
  /\ ValidationEnds /\ Forget
  /\ LET q == ask[running]
     IN  IF q.save /\ Counts(running)
         THEN /\ config' = Saved(q.key, "verified") /\ basis' = q.key
              /\ effective' = IF running = Startup THEN effective ELSE q.number
         ELSE UNCHANGED <<config, basis, effective>>
  /\ UNCHANGED <<summaryVars, user, decisions>>

\* Who awaited the summary goes on.
ContextReady ==
  [c \in Callers |-> IF user[c].phase = "context" THEN [user[c] EXCEPT !.phase = "ready"] ELSE user[c]]

SummaryOk ==
  /\ SummaryEnds
  /\ SummarizeOk
  /\ user' = ContextReady
  /\ UNCHANGED <<configVars, ask>>

UseOk ==
  /\ UseEnds
  /\ user' = [user EXCEPT ![running] = Idle]
  /\ UNCHANGED <<summaryVars, configVars, ask>>

\* A call that was aborted does not succeed.
Succeeds ==
  /\ ~aborted /\ End
  /\ ValidationOk \/ SummaryOk \/ UseOk

\* Mutant: a verdict on any key strikes the stored one.
ConcernsAny(r) == TRUE

\* The verdict is about the stored key.
Concerns(r) == IF r = Startup THEN Counts(r) ELSE config.key = ask[r].key

\* A refused key is marked; a new one that could not be checked is kept when
\* there is none.
ValidationFails(why) ==
  /\ ValidationEnds /\ Forget
  /\ LET q == ask[running]
     IN  CASE why = "invalid_key" /\ Concerns(running) ->
                config' = MarkedInvalid /\ basis' = q.key /\ UNCHANGED effective
           [] why = "network" /\ running # Startup /\ q.save /\ config.key = None ->
                config' = Saved(q.key, "unverified") /\ effective' = q.number /\ UNCHANGED basis
           [] OTHER -> UNCHANGED <<config, basis, effective>>
  /\ UNCHANGED <<summaryVars, user, decisions>>

SummaryFails ==
  /\ SummaryEnds
  /\ SummarizeFails
  /\ user' = ContextReady
  /\ UNCHANGED <<configVars, ask>>

UseFails(why) ==
  /\ UseEnds
  /\ user' = [user EXCEPT ![running] = IF why = "invalid_key" THEN [@ EXCEPT !.phase = "refused"]
                                       ELSE Idle]
  /\ UNCHANGED <<summaryVars, configVars, ask>>

\* It fails, after its retries, or because it was aborted.
Fails(why) ==
  /\ aborted => why = "other"
  /\ End
  /\ ValidationFails(why) \/ SummaryFails \/ UseFails(why)

Reasons == {"network", "invalid_key", "other"}

------------------------------------------------------------------------------
\* The broker restarts and finds the file as it is, or broken.  An unverified
\* key is validated at once.
Reboot ==
  /\ Restart
  /\ config' \in {config, Stored(None, "config_error", 0)}
  /\ LET check == config'.status = "unverified"
         places == [c \in Calls |-> "new"]
         asks == [c \in Requests \cup {Startup} |-> NoQuestion]
     IN  /\ queues' = [p \in Priorities |-> <<>>]
         /\ running' = IF check THEN Startup ELSE None
         /\ state' = IF check THEN [places EXCEPT ![Startup] = "running"] ELSE places
         /\ ask' = IF check
                   THEN [asks EXCEPT ![Startup] = Question(config'.key, TRUE, config'.version, 0)]
                   ELSE asks
         /\ burst' = 0 /\ overtaken' = 0 /\ aborted' = FALSE
  /\ user' = [c \in Callers |-> Idle]
  /\ UNCHANGED <<decisions, effective, basis>>

Microtask == \E c \in Callers : Call(c) \/ Blame(c)

\* Nothing that was settled waits to continue.
Quiet == \A c \in Callers : user[c].phase \notin {"ready", "refused"}

Answer == Quiet /\ (Succeeds \/ \E why \in Reasons : Fails(why))

\* Bound: a second request of a user takes the place of the last message.
Bounded == latest' + decisions' <= MaxSeq + 1

SystemNext ==
  \/ Microtask
  \/ Answer
  \/ /\ Quiet
     /\ \/ \E key \in Keys : Update(key) \/ Validate(key)
        \/ ValidateStored
        \/ Delete(Deleted) \/ Delete(Rebuilt)
        \/ Post /\ UNCHANGED <<callVars, configVars, ask, user>>
        \/ \E c \in Callers : Ask(c)
        \/ Reboot
     /\ Bounded

\* Microtasks run, and every request to the model ends: it has a timeout and at
\* most three tries.
SystemFairness == WF_modelVars(Microtask) /\ WF_modelVars(Answer)

System == SystemInit /\ [][SystemNext]_modelVars /\ SystemFairness

------------------------------------------------------------------------------
(* Properties *)

\* Whoever asks the model hears of it: the user whose key is checked, the router
\* and the freshness check that wait for a summary, whatever is deleted, refused
\* or queued before.
EverybodyAnswered ==
  /\ \A r \in Requests : state[r] = "queued" ~> state[r] \notin {"queued", "running"}
  /\ \A c \in Callers : user[c] # Idle ~> user[c] = Idle

\* No answer of the provider brings back what a later decision of a user replaced
\* or deleted.
NoOlderDecision == [][effective' >= effective]_modelVars

\* The verdict that is stored with a key was spoken on that key, also when keys
\* are exchanged while calls run and the versions start again at 0.
VerdictIsOfKey == config.status \in {"verified", "invalid"} => basis = config.key

=============================================================================
