----------------------------- MODULE RemoteQueue -----------------------------
(***************************************************************************)
(* The client's work list for requests that other members address to its   *)
(* Agent (src/src/extension/remote-queue.ts).  The class is a value here:  *)
(* each operator returns the object its method leaves behind.              *)
(***************************************************************************)
EXTENDS Naturals, Sequences

CONSTANTS Requests,     \* request ids
          NoRequest     \* `undefined` in #activeRequest

\* What the Agent's run left to report: the public answer or a failure.
Results == [req : Requests, ok : BOOLEAN]

\* #queue, #seenRequestIds, #activeRequest and #pendingResults.  The pending
\* results are a Map in insertion order, hence a sequence.
RemoteQueues == [queue   : Seq(Requests),
                 seen    : SUBSET Requests,
                 active  : Requests \cup {NoRequest},
                 results : Seq(Results)]

\* The object as constructed, and as clear() leaves it.
EmptyQueue == [queue |-> <<>>, seen |-> {}, active |-> NoRequest, results |-> <<>>]

\* Mutant: every delivery is queued.
EnqueueAgain(q, r) == [q EXCEPT !.seen = @ \cup {r}, !.queue = Append(@, r)]

\* A request already seen is not queued a second time.
Enqueue(q, r) ==
  IF r \in q.seen THEN q
  ELSE [q EXCEPT !.seen = @ \cup {r}, !.queue = Append(@, r)]

\* At most one request is active; the oldest queued one is next.
StartNext(q) ==
  IF q.active # NoRequest \/ q.queue = <<>> THEN q
  ELSE [q EXCEPT !.active = Head(q.queue), !.queue = Tail(@)]

\* Mutant: the result is not kept for the acknowledgement.
CompleteUnkept(q, result) == [q EXCEPT !.active = NoRequest]

\* The result of the active request waits for the broker's acknowledgement.
CompleteActive(q, result) ==
  IF q.active # result.req THEN q
  ELSE [q EXCEPT !.active = NoRequest, !.results = Append(@, result)]

\* Deleting a key that is absent changes nothing.
AcknowledgeResult(q, r) ==
  IF \A i \in 1..Len(q.results) : q.results[i].req # r THEN q
  ELSE LET i == CHOOSE i \in 1..Len(q.results) : q.results[i].req = r
       IN  [q EXCEPT !.results = SubSeq(@, 1, i - 1) \o SubSeq(@, i + 1, Len(@))]

=============================================================================
