------------------------------- MODULE AgentixScopes -------------------------------
(***************************************************************************)
(* The Agentix-shaped provider (integrations/agentix.py): create, aci,     *)
(* aclose, delete and get of sandboxes, and session(), the scope that puts *)
(* them in a row.  Provider calls run in threads (asyncio.to_thread): a    *)
(* task that is cancelled stops waiting for its thread, and the thread     *)
(* goes on.  The provider and its sandboxes are external.  A scope and its *)
(* sandbox are named alike.                                                *)
(***************************************************************************)
EXTENDS Naturals

CONSTANT Scopes   \* session() blocks

VARIABLES
    where,      \* of a scope: where its task is
    substrate,  \* its sandbox
    handles,    \* _handles
    session,    \* sandbox._session: "none", "up" or "closed"
    thread,     \* the call in a thread for this scope
    refusals,   \* sandboxes the provider failed to destroy
    abandoned   \* scopes whose task was cancelled while it entered or left

scopeVars == <<where, substrate, handles, session, thread, refusals, abandoned>>

--------------------------------------------------------------------------------
Goto(s, p, call) == where' = [where EXCEPT ![s] = p] /\ thread' = [thread EXCEPT ![s] = call]

\* create(): provider.create, or provider.resume of the golden checkpoint.
Enter(s) ==
    /\ where[s] = "out" /\ Goto(s, "entering", "create")
    /\ UNCHANGED <<substrate, handles, session, refusals, abandoned>>

\* The handle is kept only if the task still waits.
Created(s) ==
    /\ thread[s] = "create"
    /\ \/ /\ substrate' = [substrate EXCEPT ![s] = "up"]
          /\ handles' = IF where[s] = "entering" THEN handles \cup {s} ELSE handles
          /\ Goto(s, IF where[s] = "entering" THEN "inside" ELSE where[s], "none")
       \/ Goto(s, "left", "none") /\ UNCHANGED <<substrate, handles>>
    /\ UNCHANGED <<session, refusals, abandoned>>

\* aci(): connect to it, once; the sandbox may not answer.
Aci(s) ==
    /\ where[s] = "inside" /\ session[s] = "none" /\ substrate[s] = "up"
    /\ session' = [session EXCEPT ![s] = "up"]
    /\ UNCHANGED <<where, substrate, handles, thread, refusals, abandoned>>

\* delete(): the handle is popped, then destroyed; an id that is not known is nothing to do.
DeleteBox(s) ==
    IF s \in handles THEN handles' = handles \ {s} /\ Goto(s, "deleting", "destroy")
    ELSE UNCHANGED handles /\ Goto(s, "left", "none")

\* The block ends, by itself, by an error or cancelled: aclose(), if there is a session.
Exit(s) ==
    /\ where[s] = "inside" /\ thread[s] = "none"
    /\ IF session[s] = "up" THEN Goto(s, "closing", "close") /\ UNCHANGED handles ELSE DeleteBox(s)
    /\ UNCHANGED <<substrate, session, refusals, abandoned>>

\* A mutant for ScopesSound: an error of close() goes through aclose().
CloseRaises(s) ==
    /\ thread[s] = "close"
    /\ session' = [session EXCEPT ![s] = IF where[s] = "closing" THEN "none" ELSE "closed"]
    /\ \/ IF where[s] = "closing" THEN DeleteBox(s) ELSE UNCHANGED handles /\ Goto(s, where[s], "none")
       \/ UNCHANGED handles /\ Goto(s, "left", "none")
    /\ UNCHANGED <<substrate, refusals, abandoned>>

\* close() of the session is over, whatever it raised.
SessionClosed(s) ==
    /\ thread[s] = "close"
    /\ session' = [session EXCEPT ![s] = IF where[s] = "closing" THEN "none" ELSE "closed"]
    /\ IF where[s] = "closing" THEN DeleteBox(s) ELSE UNCHANGED handles /\ Goto(s, where[s], "none")
    /\ UNCHANGED <<substrate, refusals, abandoned>>

\* Another task deletes the sandbox by its id while the block runs.
DeleteById(s) ==
    /\ where[s] = "inside" /\ thread[s] = "none" /\ s \in handles
    /\ handles' = handles \ {s} /\ Goto(s, "inside", "destroy")
    /\ UNCHANGED <<substrate, session, refusals, abandoned>>

\* provider.destroy has returned, or raised, which delete() suppresses.
Destroyed(s) ==
    /\ thread[s] = "destroy"
    /\ \/ substrate' = [substrate EXCEPT ![s] = "gone"] /\ UNCHANGED refusals
       \/ refusals' = refusals \cup {s} /\ UNCHANGED substrate
    /\ Goto(s, IF where[s] = "deleting" THEN "left" ELSE where[s], "none")
    /\ UNCHANGED <<handles, session, abandoned>>

\* The task is cancelled while it waits for a thread: it leaves, the thread goes on.  (In the
\* block a cancellation is an Exit.)
Cancel(s) ==
    /\ where[s] \in {"entering", "closing", "deleting"}
    /\ where' = [where EXCEPT ![s] = "left"]
    /\ abandoned' = IF where[s] = "deleting" THEN abandoned ELSE abandoned \cup {s}
    /\ UNCHANGED <<substrate, handles, session, thread, refusals>>

\* The sandbox dies by itself.
BoxDies(s) ==
    /\ substrate[s] = "up" /\ substrate' = [substrate EXCEPT ![s] = "gone"]
    /\ UNCHANGED <<where, handles, session, thread, refusals, abandoned>>

--------------------------------------------------------------------------------
ScopeInit ==
    /\ where = [s \in Scopes |-> "out"] /\ substrate = [s \in Scopes |-> "none"] /\ handles = {}
    /\ session = [s \in Scopes |-> "none"] /\ thread = [s \in Scopes |-> "none"]
    /\ refusals = {} /\ abandoned = {}

ScopeNext ==
    \E s \in Scopes :
        \/ Enter(s) \/ Created(s) \/ Aci(s) \/ Exit(s) \/ SessionClosed(s) \/ DeleteById(s)
        \/ Destroyed(s) \/ Cancel(s) \/ BoxDies(s)

--------------------------------------------------------------------------------
Left(s) == where[s] = "left" /\ thread[s] = "none"

\* ScopeDeletes: when a block that was entered has been left, delete() has been called for its
\* sandbox (agentix.py, session: "its session closed and the sandbox deleted on exit").  A task
\* that is cancelled while aclose() waits for its thread does not come to the delete.
ScopeDeletes == \A s \in Scopes : Left(s) => s \notin handles

\* ScopeCleansUp: a sandbox whose block has been left is gone, unless the provider refused to
\* destroy it or the task was cancelled while it entered or closed the session.
ScopeCleansUp == \A s \in Scopes : Left(s) /\ substrate[s] = "up" => s \in refusals \cup abandoned

\* NoneForgotten: a sandbox whose handle the provider has dropped is gone, or a thread is at
\* work on it, or the provider refused to destroy it, or its creator did not wait for it.
NoneForgotten ==
    \A s \in Scopes : substrate[s] = "up" /\ s \notin handles /\ thread[s] # "destroy" =>
        s \in refusals \cup abandoned

\* NoSessionLeft: a session that is up belongs to a block that still runs or to a thread that
\* closes it.
NoSessionLeft == \A s \in Scopes : session[s] = "up" => where[s] = "inside" \/ thread[s] = "close"

ScopesSound == ScopeCleansUp /\ NoneForgotten /\ NoSessionLeft
================================================================================
