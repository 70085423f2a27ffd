-------------------------- MODULE ProactiveScheduler --------------------------
(***************************************************************************)
(* ProactiveCallScheduler (src/src/broker/proactive-scheduler.ts): the     *)
(* broker runs one request to the model at a time.  A call has a priority; *)
(* the validation of a key goes first, then freshness, summary and router, *)
(* but after Burst freshness calls a summary that waits gets its turn.     *)
(*                                                                         *)
(* schedule() starts the call itself when nothing runs, and the call that  *)
(* ends starts the next one: both happen without an await in between, so   *)
(* they are one action here.  A call is a place for one promise, which is  *)
(* used again when that is settled.                                        *)
(***************************************************************************)
EXTENDS Naturals, Sequences

CONSTANTS Calls,   \* calls that callers may schedule
          None,    \* no call
          Burst    \* 3 in the code

ASSUME ConstantsAssumption == None \notin Calls /\ Burst \in Nat

Priorities == {"validation", "freshness", "summary", "router"}

VARIABLES
  queues,    \* #queues: waiting calls by priority
  running,   \* the call whose promise #drain awaits; None: #running is false
  burst,     \* #freshnessBurst
  aborted,   \* the controller of the running call was aborted
  state,     \* of each call, as its caller sees it
  \* History
  overtaken  \* freshness calls started while a summary waited, since the last summary

vars == <<queues, running, burst, aborted, state, overtaken>>

Init ==
  /\ queues = [p \in Priorities |-> <<>>]
  /\ running = None /\ aborted = FALSE
  /\ burst = 0
  /\ state = [c \in Calls |-> "new"]
  /\ overtaken = 0

Waiting(q, p) == q[p] # <<>>

\* A waiting summary comes before freshness calls once there were enough.
SummaryTurn(q, n) ==
  Waiting(q, "summary") /\ (~Waiting(q, "freshness") \/ n >= Burst)

\* #next: which queue gives the next call.
NextPriority(q, n) ==
  IF Waiting(q, "validation") THEN "validation"
  ELSE IF SummaryTurn(q, n) THEN "summary"
  ELSE IF Waiting(q, "freshness") THEN "freshness"
  ELSE IF Waiting(q, "router") THEN "router" ELSE "none"

\* A summary ends a burst of freshness calls.  Nothing tells numbers from Burst on
\* apart, so the count stops there.
BurstAfter(p) ==
  CASE p = "summary" -> 0
    [] p = "freshness" /\ burst < Burst -> burst + 1
    [] OTHER -> burst

\* One round of the loop in #drain over the queues q: the next call starts, or
\* nothing runs any more.  st is the state of the calls before it.
StartNext(q, st) ==
  LET p == NextPriority(q, burst)
  IN  /\ aborted' = FALSE
      /\ IF p = "none"
         THEN /\ running' = None /\ queues' = q /\ state' = st
              /\ UNCHANGED <<burst, overtaken>>
         ELSE /\ running' = Head(q[p])
              /\ queues' = [q EXCEPT ![p] = Tail(@)]
              /\ state' = [st EXCEPT ![Head(q[p])] = "running"]
              /\ burst' = BurstAfter(p)
              /\ overtaken' = CASE p = "summary" -> 0
                                [] p = "freshness" /\ Waiting(q, "summary") -> overtaken + 1
                                [] OTHER -> overtaken

\* schedule
Schedule(c, p) ==
  /\ state[c] \notin {"queued", "running"}
  /\ LET q == [queues EXCEPT ![p] = Append(@, c)]
         st == [state EXCEPT ![c] = "queued"]
     IN  IF running = None
         THEN StartNext(q, st)
         ELSE queues' = q /\ state' = st /\ UNCHANGED <<running, burst, aborted, overtaken>>

\* The running call answers or fails; its caller is told.
Finish(result) ==
  /\ running # None
  /\ StartNext(queues, [state EXCEPT ![running] = result])

\* Mutant: the calls that wait are not told.
RejectNone == state

\* abortAll: the running call gets the signal, the waiting ones are rejected.
RejectWaiting == [c \in Calls |-> IF state[c] = "queued" THEN "rejected" ELSE state[c]]

AbortAll ==
  /\ aborted' = (running # None)
  /\ queues' = [p \in Priorities |-> <<>>]
  /\ state' = RejectWaiting
  /\ UNCHANGED <<running, burst, overtaken>>

Next ==
  \/ \E c \in Calls, p \in Priorities : Schedule(c, p)
  \/ \E result \in {"resolved", "rejected"} : Finish(result)
  \/ AbortAll

\* Every request to the model ends: it has a timeout and at most three tries.
Fairness == WF_vars(\E result \in {"resolved", "rejected"} : Finish(result))

Spec == Init /\ [][Next]_vars /\ Fairness

------------------------------------------------------------------------------
(* Properties *)

TypeOK ==
  /\ queues \in [Priorities -> Seq(Calls)]
  /\ running \in Calls \cup {None}
  /\ burst \in Nat /\ overtaken \in Nat
  /\ aborted \in BOOLEAN
  /\ state \in [Calls -> {"new", "queued", "running", "resolved", "rejected"}]

\* Summaries are not starved: at most Burst freshness calls go before one.
SummaryWaitsForBurst == overtaken <= Burst

\* No wake-up is lost: calls wait only while another one runs.
NobodyWaitsIdle == running = None => \A p \in Priorities : queues[p] = <<>>

\* The memory of the queues and the promises of the callers agree: each call
\* that waits is in one queue, once, and only the running one is running.
QueuesHoldWaiting ==
  \A c \in Calls :
    /\ state[c] = "running" <=> running = c
    /\ state[c] = "queued" <=> \E p \in Priorities : \E i \in 1..Len(queues[p]) : queues[p][i] = c
    /\ \A p, r \in Priorities : \A i \in 1..Len(queues[p]), j \in 1..Len(queues[r]) :
         queues[p][i] = c /\ queues[r][j] = c => p = r /\ i = j

\* What is settled stays so until the place is used again: no promise that was
\* resolved is rejected by abortAll, none that was rejected is resolved.
SettledOnce ==
  [][\A c \in Calls : state[c] \in {"resolved", "rejected"} =>
       state'[c] \in {state[c], "queued", "running"}]_vars

=============================================================================
