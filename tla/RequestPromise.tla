--------------------------- MODULE RequestPromise ----------------------------
(***************************************************************************)
(* What a group member may rely on when a message addresses Agents: every  *)
(* target gets a request of its own; a request that needs approval opens   *)
(* only by the decision of its target's owner; a request ends once, either *)
(* with one public answer or refused, and never changes afterwards.        *)
(* AgentRequests implements this with all that can happen to one message   *)
(* and its requests, AgentChains with answers that ask again.              *)
(***************************************************************************)
EXTENDS Naturals

CONSTANTS Messages, Agents

VARIABLES phase,      \* where each request stands
          published   \* how many public answers each request has had

vars == <<phase, published>>

Requests == Messages \X Agents

Init == /\ phase = [r \in Requests |-> "unasked"]
        /\ published = [r \in Requests |-> 0]

\* One message addresses some Agents; each target is judged on its own.
Ask(m) ==
  /\ \A a \in Agents : phase[<<m, a>>] = "unasked"
  /\ \E choice \in [Agents -> {"unasked", "waiting", "open", "refused"}] :
       phase' = [r \in Requests |-> IF r[1] = m THEN choice[r[2]] ELSE phase[r]]
  /\ UNCHANGED published

Approve(r) == /\ phase[r] = "waiting"
              /\ phase' = [phase EXCEPT ![r] = "open"]
              /\ UNCHANGED published

Answer(r) == /\ phase[r] = "open"
             /\ phase' = [phase EXCEPT ![r] = "answered"]
             /\ published' = [published EXCEPT ![r] = @ + 1]

\* The answer is a message too and may address Agents in its turn.
Reply(r, m) ==
  /\ phase[r] = "open"
  /\ \A a \in Agents : phase[<<m, a>>] = "unasked"
  /\ \E choice \in [Agents -> {"unasked", "waiting", "open", "refused"}] :
       phase' = [q \in Requests |-> IF q = r THEN "answered"
                                   ELSE IF q[1] = m THEN choice[q[2]] ELSE phase[q]]
  /\ published' = [published EXCEPT ![r] = @ + 1]

\* Rejected, invalidated, failed or interrupted: possibly several at once.
Refuse(S) ==
  /\ \A r \in S : phase[r] \in {"waiting", "open"}
  /\ phase' = [r \in Requests |-> IF r \in S THEN "refused" ELSE phase[r]]
  /\ UNCHANGED published

Next == \/ \E m \in Messages : Ask(m)
        \/ \E r \in Requests : Approve(r) \/ Answer(r)
        \/ \E r \in Requests, m \in Messages : Reply(r, m)
        \/ \E S \in SUBSET Requests : Refuse(S)

Spec == Init /\ [][Next]_vars

=============================================================================
