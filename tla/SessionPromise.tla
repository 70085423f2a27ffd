---------------------------- MODULE SessionPromise ----------------------------
(***************************************************************************)
(* What a session may rely on with its broker, however its connections come*)
(* and go: at most one connection counts, and the one that it replaces is  *)
(* ended; the client id stays the same when the connection is replaced or  *)
(* lost; only the holder's goodbye, which ends its connection, a timer that*)
(* runs while nobody holds the session, and the end of the broker take the *)
(* id away; what becomes of any other connection does not touch it.        *)
(* SessionConnections implements this with all its handshakes, messages and*)
(* timers; AgentRequests, which takes a handshake in one step, does too.   *)
(***************************************************************************)
EXTENDS Naturals

CONSTANTS Seats,  \* what can have a session: one of each broker, of each Agent
          Conns, None

VARIABLES holder,    \* the connection that holds the session, or None
          client,    \* the session's client id; 0: there is no session
          instance,  \* the instance of the broker that keeps it
          open       \* the connections that the broker has not ended

vars == <<holder, client, instance, open>>

Init ==
  /\ holder \in [Seats -> Conns \cup {None}]
  /\ client \in [Seats -> Nat]
  /\ instance \in [Seats -> Nat]
  /\ open \in SUBSET Conns
  /\ \A x \in Seats : holder[x] # None => client[x] # 0

Accept(s) ==
  /\ s \notin open
  /\ open' = open \cup {s}
  /\ UNCHANGED <<holder, client, instance>>

\* The broker ends a connection that it does not want or hear any more.
End(s) ==
  /\ open' = open \ {s}
  /\ UNCHANGED <<holder, client, instance>>

\* A handshake is done: the first one gives the id, the others keep it.  Of the
\* other connections, the one that is replaced is ended.
Take(x, s) ==
  /\ \A y \in Seats : holder[y] = s => y = x
  /\ open' \ {s} = open \ {s, holder[x]} /\ (s \in open => s \in open')
  /\ holder' = [holder EXCEPT ![x] = s]
  /\ client'[x] # 0
  /\ client' = [client EXCEPT ![x] = IF @ = 0 THEN client'[x] ELSE @]
  /\ UNCHANGED instance

\* A connection closes, of whomever it is.
Close(s) ==
  /\ open' = open \ {s}
  /\ holder' = [x \in Seats |-> IF holder[x] = s THEN None ELSE holder[x]]
  /\ UNCHANGED <<client, instance>>

\* The holder says goodbye.
Leave(x) ==
  /\ holder[x] # None
  /\ open' = open \ {holder[x]}
  /\ holder' = [holder EXCEPT ![x] = None]
  /\ client' = [client EXCEPT ![x] = 0]
  /\ UNCHANGED instance

\* The grace time of a session that nobody holds is over.
Expire(x) ==
  /\ client[x] # 0 /\ holder[x] = None
  /\ client' = [client EXCEPT ![x] = 0]
  /\ UNCHANGED <<holder, instance, open>>

\* The broker of the seats S ends and starts again.
Restart(S) ==
  /\ holder' = [x \in Seats |-> IF x \in S THEN None ELSE holder[x]]
  /\ client' = [x \in Seats |-> IF x \in S THEN 0 ELSE client[x]]
  /\ instance' = [x \in Seats |-> IF x \in S THEN instance[x] + 1 ELSE instance[x]]
  /\ open' \subseteq open
  /\ \A x \in Seats \ S : holder[x] \in open => holder[x] \in open'

Next ==
  \/ \E s \in Conns : Accept(s) \/ End(s) \/ Close(s)
  \/ \E x \in Seats, s \in Conns : Take(x, s)
  \/ \E x \in Seats : Leave(x) \/ Expire(x)
  \/ \E S \in SUBSET Seats : Restart(S)

Spec == Init /\ [][Next]_vars

=============================================================================
