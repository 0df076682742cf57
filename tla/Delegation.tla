----------------------------- MODULE Delegation -----------------------------
(***************************************************************************)
(* Agents that call agents.  A turn of a Letta agent (letta-runtime.ts) may *)
(* call another one, or the reference agent, through its session's tool,   *)
(* one hop further; a task of the reference agent (server.py, outbound.py) *)
(* may call a Letta agent, whatever hop it was called with itself.         *)
(* The called turn may be of a context the calling one holds, and the      *)
(* process of the Letta agents may be shut down at any time.               *)
(*                                                                         *)
(* What a turn does to its conversation is DurableTurns, what a request    *)
(* does on its way Invoker; here a request is sent, polled and canceled.   *)
(***************************************************************************)
EXTENDS TokenCache

CONSTANTS
  Turns,        \* 1..n, begun in this order
  Contexts, None,
  MaximumHops

ASSUME TurnsAssumption == Turns = Callers /\ Turns \subseteq Nat \ {0}
ASSUME NoneAssumption == None \notin Contexts
ASSUME HopsAssumption == MaximumHops \in 1..32

VARIABLES
  turn,         \* none, queued, running, closing, done, killed
  agent,        \* letta or reference
  context,      \* the context a live turn queues for or holds, or None
  hop,          \* delegation.hop
  parent,       \* the turn that called it, or 0
  aborted,      \* turns whose signal is aborted
  process       \* of the Letta agents: open, draining, complete, incomplete

request == <<agent, context, hop, parent>>
vars == <<cache, call, turn, request, aborted, process>>

TypeOK ==
  /\ CacheOK
  /\ turn \in [Turns -> {"none", "queued", "running", "closing", "done", "killed"}]
  /\ agent \in [Turns -> {"letta", "reference"}] /\ context \in [Turns -> Contexts \cup {None}]
  /\ hop \in [Turns -> 0..MaximumHops] /\ parent \in [Turns -> {0} \cup Turns]
  /\ aborted \subseteq Turns /\ process \in {"open", "draining", "complete", "incomplete"}

----------------------------------------------------------------------------
Provider(t) == IF agent[t] = "letta" THEN "shared" ELSE "locked"
Live(t) == turn[t] \in {"queued", "running", "closing"}
Letta == {t \in Turns : agent[t] = "letta"}
Unused == {t \in Turns : turn[t] = "none" /\ \A u \in Turns : u < t => turn[u] # "none"}
Child(t) == {u \in Turns : parent[u] = t /\ \A v \in Turns : v > u => parent[v] # t}
Waiters == {t \in Letta : call[t] = "waiting"}

\* A request names a context in use, or begins one.
InUse == {context[t] : t \in Turns} \ {None}
Named == InUse \cup IF Contexts \subseteq InUse THEN {} ELSE {CHOOSE x \in Contexts : x \notin InUse}

\* Mutant: a hop past the limit is let through.
WithinOneMore(h) == h <= MaximumHops + 1

\* delegationPolicy: an operator's request has no hop, an agent's a positive
\* one up to the limit; below the limit a turn may delegate.
WithinHops(h) == h <= MaximumHops
Admitted(h, delegated) == IF delegated THEN h > 0 /\ WithinHops(h) ELSE h = 0

\* The runtime's tool sends the hop of its turn and one, the reference agent 1:
\* it keeps no hop, and one that it was called with counts for nothing.
SentHop(t) == IF agent[t] = "letta" THEN hop[t] + 1 ELSE 1

\* What ends a call: the turn's signal, or the close of its session.
Interrupted(t) == t \in aborted \/ turn[t] = "closing"

Init ==
  /\ CacheInit
  /\ turn = [t \in Turns |-> "none"] /\ agent = [t \in Turns |-> "letta"]
  /\ context = [t \in Turns |-> None]
  /\ hop = [t \in Turns |-> 0] /\ parent = [t \in Turns |-> 0]
  /\ aborted = {} /\ process = "open"

----------------------------------------------------------------------------
(* Turns *)

Open(t, kind, x, h, p) ==
  /\ turn' = [turn EXCEPT ![t] = IF kind = "letta" THEN "queued" ELSE "running"]
  /\ agent' = [agent EXCEPT ![t] = kind] /\ context' = [context EXCEPT ![t] = x]
  /\ hop' = [hop EXCEPT ![t] = h] /\ parent' = [parent EXCEPT ![t] = p]

\* An operator's request, to either kind of agent.
Start(t) ==
  /\ t \in Unused /\ Admitted(0, FALSE)
  /\ \/ process = "open" /\ \E x \in Named : Open(t, "letta", x, 0, 0)
     \/ Open(t, "reference", None, 0, 0)
  /\ UNCHANGED <<cache, call, aborted, process>>

\* One turn of a context at a time.
Begin(t) ==
  /\ t \in Letta \ aborted /\ turn[t] = "queued"
  /\ \A u \in Letta \ {t} : turn[u] \in {"running", "closing"} => context[u] # context[t]
  /\ turn' = [turn EXCEPT ![t] = "running"]
  /\ UNCHANGED <<cache, call, request, aborted, process>>

\* A turn that ends leaves its context.
End(t) ==
  /\ turn' = [turn EXCEPT ![t] = "done"] /\ context' = [context EXCEPT ![t] = None]
  /\ aborted' = aborted \ {t}
  /\ UNCHANGED <<cache, call, agent, hop, parent, process>>

LeaveQueue(t) == turn[t] = "queued" /\ t \in aborted /\ End(t)

\* Mutant: only a turn that queues is timed.
CancelQueued(t) == turn[t] = "queued" /\ t \notin aborted /\ aborted' = aborted \cup {t}

\* Its timer, or a cancellation of its task.
Cancel(t) == Live(t) /\ t \notin aborted /\ aborted' = aborted \cup {t}
Timeout(t) == Cancel(t) /\ UNCHANGED <<cache, call, turn, request, process>>

\* The stream ends, or is aborted: the session's resources are closed, which
\* aborts its call, and the turn ends when that has settled.
CloseSession(t) ==
  /\ t \in Letta /\ turn[t] = "running"
  /\ turn' = [turn EXCEPT ![t] = "closing"]
  /\ UNCHANGED <<cache, call, request, aborted, process>>

Settled(t) ==
  /\ turn[t] = IF t \in Letta THEN "closing" ELSE "running"
  /\ call[t] = "none"
EndTurn(t) == Settled(t) /\ End(t)

----------------------------------------------------------------------------
(* Their calls *)

\* The tool exists in a session whose turn may delegate.
CallTool(t) ==
  /\ turn[t] = "running" /\ call[t] = "none" /\ t \notin aborted
  /\ agent[t] = "letta" => WithinHops(hop[t] + 1)
  /\ Goto(t, "token")
  /\ UNCHANGED <<cache, turn, request, aborted, process>>

Token(t) ==
  /\ ~Interrupted(t)
  /\ UseCached(t, Provider(t)) \/ (t \in Letta /\ Join(t)) \/ (t \notin Letta /\ Queue(t))
  /\ UNCHANGED <<turn, request, aborted, process>>

Lock(t) ==
  /\ t \notin Letta /\ ~Interrupted(t) /\ Acquire(t)
  /\ UNCHANGED <<turn, request, aborted, process>>

Exchanged ==
  /\ \E ok \in BOOLEAN :
       SharedExchange(Waiters, ok) \/ \E t \in Turns : LockedExchange(t, ok)
  /\ UNCHANGED <<turn, request, aborted, process>>

TokenExpires ==
  /\ \E p \in Providers : Expire(p)
  /\ UNCHANGED <<turn, request, aborted, process>>

\* The request arrives at the agent called.  A Letta agent looks at its hop; the
\* reference agent, which only Letta agents call, looks at none.
Send(t) ==
  /\ call[t] = "sending" /\ ~Interrupted(t)
  /\ \E u \in Unused :
       \/ /\ process = "open" /\ Admitted(SentHop(t), TRUE)
          /\ \E x \in Named : Open(u, "letta", x, SentHop(t), t)
       \/ t \in Letta /\ Open(u, "reference", None, 0, t)
  /\ Goto(t, "polling")
  /\ UNCHANGED <<cache, aborted, process>>

\* It fails, is refused or is not answered.
SendFails(t) ==
  /\ call[t] = "sending" /\ Goto(t, "none")
  /\ UNCHANGED <<cache, turn, request, aborted, process>>

Answered(t) ==
  /\ call[t] = "polling" /\ \A u \in Child(t) : ~Live(u)
  /\ Goto(t, "none")
  /\ UNCHANGED <<cache, turn, request, aborted, process>>

\* An interrupted call leaves the provider, or cancels the task it polls; the
\* reference agent cancels nothing, and a cancellation may fail.
Stop(t) ==
  /\ Interrupted(t)
  /\ \/ call[t] \in {"token", "waiting", "exchanging", "sending"} /\ Withdraw(t) /\ UNCHANGED aborted
     \/ /\ call[t] = "polling" /\ Goto(t, "none") /\ UNCHANGED cache
        /\ \/ t \in Letta /\ aborted' = aborted \cup {u \in Child(t) : Live(u)}
           \/ UNCHANGED aborted
  /\ UNCHANGED <<turn, request, process>>

----------------------------------------------------------------------------
(* The process of the Letta agents *)

\* SIGTERM: the runtimes refuse new turns and abort those they have.
Shutdown ==
  /\ process = "open" /\ process' = "draining"
  /\ aborted' = aborted \cup {t \in Letta : Live(t)}
  /\ UNCHANGED <<cache, call, turn, request>>

\* Mutant: turns that queue or close are forgotten.
DrainedSessions == \A t \in Letta : turn[t] # "running"

\* A process has drained when none of its turns is queued, running or closing.
Drained == \A t \in Letta : ~Live(t)
Exit ==
  /\ process = "draining" /\ Drained
  /\ process' = "complete"
  /\ UNCHANGED <<cache, call, turn, request, aborted>>

\* The deadline of the shutdown, or a binding that is not complete in its own.
Kill ==
  /\ process = "draining" /\ process' = "incomplete"
  /\ turn' = [t \in Turns |-> IF t \in Letta /\ Live(t) THEN "killed" ELSE turn[t]]
  /\ call' = [t \in Turns |-> IF t \in Letta /\ Live(t) THEN "none" ELSE call[t]]
  /\ context' = [t \in Turns |-> None]
  /\ exchanges' = [exchanges EXCEPT !["shared"] = 0] /\ inFlight' = FALSE
  /\ UNCHANGED <<fresh, lock, agent, hop, parent, aborted>>

----------------------------------------------------------------------------
Move(t) ==
  \/ Begin(t) \/ LeaveQueue(t) \/ EndTurn(t) \/ Token(t) \/ Answered(t) \/ Stop(t)
Next ==
  \/ \E t \in Turns : \/ Start(t) \/ Timeout(t) \/ CloseSession(t) \/ CallTool(t) \/ Lock(t)
                      \/ Send(t) \/ SendFails(t) \/ Move(t)
  \/ Exchanged \/ TokenExpires \/ Shutdown \/ Exit \/ Kill

Spec == Init /\ [][Next]_vars

\* Timers fire; a turn that is aborted is ended by its runner, whatever its
\* exchange, its peer or the turn it waits for does.
Ends(t) == Move(t) \/ (t \in aborted /\ CloseSession(t))
FairSpec == Spec /\ \A t \in Turns : WF_vars(Timeout(t)) /\ WF_vars(Ends(t))
=============================================================================
