-------------------------- MODULE GroupContextSummary --------------------------
(***************************************************************************)
(* The rolling summary of one group (src/src/broker/group-context-summary  *)
(* .ts, the table group_summaries in database.ts).  Models read the last   *)
(* Window public messages as they are; what is older they know only from   *)
(* the summary, which one call at a time extends from the last successful  *)
(* one.  A context that cannot cover everything says so.                   *)
(*                                                                         *)
(* A text is modelled by the set of messages it was made from.  Public     *)
(* messages have the numbers in `public`; the other numbers belong to      *)
(* notices of the system.                                                  *)
(***************************************************************************)
EXTENDS Naturals, FiniteSets, FiniteSetsExt

CONSTANTS Callers,   \* callers of prepare: the router, freshness checks
          Window,    \* 12 in the code
          MaxSeq,    \* bound: messages of the group
          MaxFaults  \* bound: restarts and new versions of the prompt

ASSUME SummaryAssumption ==
  /\ Window \in Nat \ {0}
  /\ MaxSeq \in Nat /\ MaxFaults \in Nat

NoSummary == [from |-> 0, through |-> 0, prompt |-> 0, text |-> {}]
NoUpdate == [previous |-> NoSummary, messages |-> {}, done |-> TRUE]
NoContext == [through |-> 0, summary |-> NoSummary, messages |-> {}, incomplete |-> TRUE]

VARIABLES
  \* The database
  latest,   \* group_seq of the last message
  public,   \* numbers of the public ones
  stored,   \* the row of group_summaries; NoSummary: none
  \* The broker
  prompt,   \* SUMMARY_PROMPT_VERSION of the program that runs
  inFlight, \* #inFlight: the update that runs; NoUpdate: none
  waiting,  \* throughSeq of the callers that await it; 0: does not wait
  \* What the callers get
  context,
  faults

summaryVars == <<latest, public, stored, prompt, inFlight, waiting, context, faults>>

SummaryInit ==
  /\ latest = 0 /\ public = {}
  /\ stored = NoSummary
  /\ prompt = 1
  /\ inFlight = NoUpdate
  /\ waiting = [c \in Callers |-> 0]
  /\ context = [c \in Callers |-> NoContext]
  /\ faults = 0

------------------------------------------------------------------------------
\* publicMessages with a limit, publicMessagesRange
Through(n) == {m \in public : m <= n}
Newest(S, n) == {m \in S : Cardinality({k \in S : k > m}) < n}
Between(after, through) == {m \in public : after < m /\ m <= through}

\* The newest message that no longer fits in the window.
Omitted(n) == Through(n) \ Newest(Through(n), Window)
Required(n) == Max(Omitted(n))

\* #validStoredSummary
Valid(s) ==
  /\ s # NoSummary
  /\ s.from = Min(public) /\ s.from <= s.through
  /\ s.through \in public
  /\ s.prompt = prompt

\* Mutant: whether the summary reaches the window is not checked.
SnapshotOf(s, n) ==
  IF Omitted(n) = {}
  THEN [through |-> n, summary |-> NoSummary, messages |-> Through(n), incomplete |-> FALSE]
  ELSE [through |-> n, summary |-> IF Valid(s) THEN s ELSE NoSummary,
        messages |-> Newest(Through(n), Window), incomplete |-> ~Valid(s)]

\* snapshot, when s is stored
Snapshot(s, n) ==
  IF Omitted(n) = {}
  THEN [through |-> n, summary |-> NoSummary, messages |-> Through(n), incomplete |-> FALSE]
  ELSE [through |-> n, summary |-> IF Valid(s) THEN s ELSE NoSummary,
        messages |-> Newest(Through(n), Window),
        incomplete |-> ~Valid(s) \/ s.through < Required(n)]

\* A message becomes public, or a notice takes a number.
Post ==
  /\ latest < MaxSeq /\ latest' = latest + 1
  /\ \E isPublic \in BOOLEAN : public' = IF isPublic THEN public \cup {latest'} ELSE public
  /\ UNCHANGED <<stored, prompt, inFlight, waiting, context, faults>>

\* The call that #update makes for a context through n.
UpdateFor(n) ==
  LET previous == IF Valid(stored) THEN stored ELSE NoSummary
  IN  [previous |-> previous, messages |-> Between(previous.through, Required(n)), done |-> FALSE]

\* prepare joins the update that runs, however far it reaches.
StartUpdate(n) == inFlight' = IF inFlight.done THEN UpdateFor(n) ELSE inFlight

\* prepare, called for everything that was said so far
Prepare(c) ==
  /\ waiting[c] = 0 /\ latest > 0
  /\ LET before == Snapshot(stored, latest)
     IN  IF ~before.incomplete
         THEN /\ context' = [context EXCEPT ![c] = before]
              /\ UNCHANGED <<inFlight, waiting>>
         ELSE /\ StartUpdate(latest)
              /\ waiting' = [waiting EXCEPT ![c] = latest]
              /\ UNCHANGED context
  /\ UNCHANGED <<latest, public, stored, prompt, faults>>

\* The callers that awaited the update take their snapshot.
Resume(s) ==
  /\ context' = [c \in Callers |-> IF waiting[c] = 0 THEN context[c] ELSE Snapshot(s, waiting[c])]
  /\ waiting' = [c \in Callers |-> 0]
  /\ inFlight' = NoUpdate
  /\ UNCHANGED <<latest, public, prompt, faults>>

\* Mutant: the new text is made of the new messages alone.
Replaced(u) ==
  [from |-> IF u.previous # NoSummary THEN u.previous.from ELSE Min(u.messages),
   through |-> Max(u.messages), prompt |-> prompt, text |-> u.messages]

\* saveGroupSummary: what the model makes of the previous summary and the
\* messages since.
Extended(u) ==
  [from |-> IF u.previous # NoSummary THEN u.previous.from ELSE Min(u.messages),
   through |-> Max(u.messages), prompt |-> prompt,
   text |-> u.previous.text \cup u.messages]

SummarizeOk ==
  /\ ~inFlight.done
  /\ stored' = Extended(inFlight)
  /\ Resume(stored')

\* The model fails, or abortAll; the error is only logged.
SummarizeFails ==
  /\ ~inFlight.done
  /\ stored' = stored
  /\ Resume(stored)

\* The broker restarts, perhaps as a program with another prompt.
Restart ==
  /\ faults < MaxFaults /\ faults' = faults + 1
  /\ prompt' \in {prompt, prompt + 1}
  /\ inFlight' = NoUpdate
  /\ waiting' = [c \in Callers |-> 0]
  /\ context' = [c \in Callers |-> NoContext]
  /\ UNCHANGED <<latest, public, stored>>

SummaryNext ==
  \/ Post
  \/ \E c \in Callers : Prepare(c)
  \/ SummarizeOk
  \/ SummarizeFails
  \/ Restart

\* A call to the model ends: it has a timeout and at most three tries.
SummaryFairness == WF_summaryVars(SummarizeOk \/ SummarizeFails)

SummarySpec == SummaryInit /\ [][SummaryNext]_summaryVars /\ SummaryFairness

------------------------------------------------------------------------------
(* Properties *)

Seqs == 1..MaxSeq
Summaries == [from : 0..MaxSeq, through : 0..MaxSeq, prompt : Nat, text : SUBSET Seqs]

SummaryTypeOK ==
  /\ latest \in 0..MaxSeq /\ public \in SUBSET (1..latest)
  /\ stored \in Summaries
  /\ prompt \in Nat /\ faults \in 0..MaxFaults
  /\ inFlight \in [previous : Summaries, messages : SUBSET Seqs, done : BOOLEAN]
  /\ waiting \in [Callers -> 0..MaxSeq]
  /\ context \in [Callers -> [through : 0..MaxSeq, summary : Summaries, messages : SUBSET Seqs,
                               incomplete : BOOLEAN]]

\* The range that the row claims is what the text was made from, without gaps,
\* whoever asked for it and whatever failed in between.
SummaryIsContinuous ==
  stored # NoSummary => stored.text = {m \in public : stored.from <= m /\ m <= stored.through}

\* A context that does not say it is incomplete covers everything said up to
\* the number that was asked for.
CoveredOrMarked ==
  \A c \in Callers : ~context[c].incomplete =>
    Through(context[c].through) \subseteq context[c].summary.text \cup context[c].messages

=============================================================================
