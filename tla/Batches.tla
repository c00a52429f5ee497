---------------------------------- MODULE Batches ----------------------------------
(***************************************************************************)
(* Several actions in one call of the Python SDK (sdk/python/src/shinken/  *)
(* client.py): act_batch, which sends an action when the one before it is  *)
(* answered and stops at a failure, and step, which sends all of them and  *)
(* then collects the answers; the gateway that refuses a verb before it is *)
(* sent; and the row each action gets.                                     *)
(*                                                                         *)
(* The runtime executes what it reads in order and answers in order.  An   *)
(* answer may come after its timeout; the sandbox may die at any time,     *)
(* which the client sees when it has read what came before.  The trailing  *)
(* screenshot of step, coordinates and the rows' texts are left out.       *)
(***************************************************************************)
EXTENDS Naturals, Sequences, SequencesExt

CONSTANT MaxActs

Index == 1 .. MaxActs

VARIABLES
    acts,   \* the actions: what the gateway decides, and whether act() is to observe
    form,   \* "batch" or "step"
    stop,   \* stop_on_error
    at,     \* [pc, i]: where the caller is
    rows,   \* the status of each action
    waits,  \* futures by action: in _pending ("ack"), in _pending_obs ("obs")
    got,    \* what the resolved futures hold
    up, down, \* the wire
    link,   \* "up", "dead", or "noticed" when the reader has failed the futures
    ran,    \* what the runtime has made of each action
    order   \* the actions it has executed

vars == <<acts, form, stop, at, rows, waits, got, up, down, link, ran, order>>
wire == <<up, down, link, ran, order>>
call == <<acts, form, stop>>

Acts == [gate : {"allow", "deny", "ask"}, look : BOOLEAN]
N == Len(acts)
Goto(pc, i) == at' = [pc |-> pc, i |-> i]
Here(pc) == at.pc = pc

--------------------------------------------------------------------------------
(* The gateway.                                                                 *)

\* _gate: whether the handler of "ask" approves.
MayPass(a, approved) == a.gate = "allow" \/ (a.gate = "ask" /\ approved)

--------------------------------------------------------------------------------
(* act_batch: one act() after the other.                                        *)

\* classify_exception
Classify(e) == CASE e = "lost" -> "sandbox_died" [] e = "late" -> "timeout" [] OTHER -> "error"

SkipNothing(i, status) == [rows EXCEPT ![i] = status]
\* After a failure that ends the batch the others are not sent.
SkipRest(i, status) == [k \in Index |-> IF k = i THEN status ELSE IF k \in i + 1 .. N THEN "skipped" ELSE rows[k]]

Fatal(status) == stop \/ status = "sandbox_died"

\* The row of action i of a batch, and what it means for the others.
Finish(i, status) ==
    IF status # "ok" /\ Fatal(status)
    THEN rows' = SkipRest(i, status) /\ Goto("returned", i)
    ELSE rows' = [rows EXCEPT ![i] = status] /\ Goto(IF i = N THEN "returned" ELSE "gate", i + 1)

Refused ==
    /\ Here("gate") /\ form = "batch"
    /\ \E approved \in BOOLEAN : ~MayPass(acts[at.i], approved)
    /\ Finish(at.i, Classify("denied"))
    /\ UNCHANGED <<call, waits, got, wire>>

\* Both futures are registered before the send.
Futures(a) == IF a.look THEN {"ack", "obs"} ELSE {"ack"}

Act ==
    /\ Here("gate") /\ form = "batch"
    /\ \E approved \in BOOLEAN : MayPass(acts[at.i], approved)
    /\ \/ /\ link = "up" /\ up' = Append(up, at.i)
          /\ waits' = [waits EXCEPT ![at.i] = Futures(acts[at.i])]
          /\ Goto("await", at.i) /\ UNCHANGED rows
       \/ link # "up" /\ Finish(at.i, Classify("lost")) /\ UNCHANGED <<up, waits>>
    /\ UNCHANGED <<call, got, down, link, ran, order>>

\* What the futures of action i say: nothing yet, or a status.
Status(i) ==
    IF "lost" \in got[i] THEN Classify("lost")
    ELSE IF "nack" \in got[i] \/ "obsfail" \in got[i] THEN Classify("nack")
    ELSE IF "ack" \in got[i] /\ (form = "batch" /\ acts[i].look => "obs" \in got[i]) THEN "ok"
    ELSE "none"

Answered ==
    /\ Here("await") /\ form = "batch" /\ Status(at.i) # "none"
    /\ Finish(at.i, Status(at.i)) /\ waits' = [waits EXCEPT ![at.i] = {}]
    /\ UNCHANGED <<call, got, wire>>

TimedOut ==
    /\ Here("await") /\ form = "batch" /\ Status(at.i) = "none"
    /\ Finish(at.i, Classify("late")) /\ waits' = [waits EXCEPT ![at.i] = {}]
    /\ UNCHANGED <<call, got, wire>>

--------------------------------------------------------------------------------
(* step: everything is sent before anything is awaited.                         *)

\* No await between the gates, the messages and the futures.
Compose ==
    /\ Here("gate") /\ form = "step"
    /\ \E approved \in [Index -> BOOLEAN] :
         LET ships == {k \in 1 .. N : MayPass(acts[k], approved[k])} IN
         /\ rows' = [k \in Index |-> IF k \in 1 .. N \ ships THEN Classify("denied") ELSE rows[k]]
         /\ waits' = [k \in Index |-> IF k \in ships THEN {"ack"} ELSE {}]
    /\ Goto("send", 1) /\ UNCHANGED <<call, got, wire>>

Send ==
    /\ Here("send")
    /\ \/ at.i > N /\ Goto("await", 1) /\ UNCHANGED <<up, waits, got>>
       \/ at.i <= N /\ rows[at.i] # "none" /\ Goto("send", at.i + 1) /\ UNCHANGED <<up, waits, got>>
       \/ /\ at.i <= N /\ rows[at.i] = "none" /\ link = "up"
          /\ up' = Append(up, at.i) /\ Goto("send", at.i + 1) /\ UNCHANGED <<waits, got>>
       \* A send that fails fails every future that is not resolved; no more is sent.
       \/ /\ at.i <= N /\ rows[at.i] = "none" /\ link # "up"
          /\ got' = [k \in Index |-> IF waits[k] # {} THEN got[k] \cup {"lost"} ELSE got[k]]
          /\ waits' = [k \in Index |-> {}]
          /\ Goto("await", 1) /\ UNCHANGED up
    /\ UNCHANGED <<call, rows, down, link, ran, order>>

\* The rows in order; an answer that is there is taken, and each wait has its own timeout.
Collect ==
    /\ Here("await") /\ form = "step"
    /\ \/ at.i > N /\ Goto("returned", N) /\ UNCHANGED <<rows, waits>>
       \/ at.i <= N /\ rows[at.i] # "none" /\ Goto("await", at.i + 1) /\ UNCHANGED <<rows, waits>>
       \/ /\ at.i <= N /\ rows[at.i] = "none"
          /\ rows' = [rows EXCEPT ![at.i] = IF Status(at.i) = "none" THEN Classify("late") ELSE Status(at.i)]
          /\ waits' = [waits EXCEPT ![at.i] = {}] /\ Goto("await", at.i + 1)
    /\ UNCHANGED <<call, got, wire>>

--------------------------------------------------------------------------------
(* The reader, and the runtime.                                                 *)

\* An answer nobody waits for any more is dropped; obs and obsfail are for _pending_obs.
Dispatch ==
    /\ down # <<>>
    /\ LET m == Head(down)
           table == IF m.kind \in {"ack", "nack"} THEN "ack" ELSE "obs"
       IN  IF table \in waits[m.i]
           THEN /\ got' = [got EXCEPT ![m.i] = @ \cup {m.kind}]
                /\ waits' = [waits EXCEPT ![m.i] = @ \ {table}]
           ELSE UNCHANGED <<got, waits>>
    /\ down' = Tail(down)
    /\ UNCHANGED <<call, at, rows, up, link, ran, order>>

\* The end of the connection fails every future.
Notice ==
    /\ link = "dead" /\ down = <<>> /\ link' = "noticed"
    /\ got' = [k \in Index |-> IF waits[k] # {} THEN got[k] \cup {"lost"} ELSE got[k]]
    /\ waits' = [k \in Index |-> {}]
    /\ UNCHANGED <<call, at, rows, up, down, ran, order>>

Msg(i, kind) == [i |-> i, kind |-> kind]

\* The capture that follows an ack may fail.
Execute ==
    /\ link = "up" /\ up # <<>>
    /\ LET i == Head(up) IN
       \/ /\ ran' = [ran EXCEPT ![i] = "failed"]
          /\ down' = Append(down, Msg(i, "nack"))
       \/ /\ ran' = [ran EXCEPT ![i] = "ok"]
          /\ \/ ~acts[i].look /\ down' = Append(down, Msg(i, "ack"))
             \/ /\ acts[i].look
                /\ \E shot \in {"obs", "obsfail"} : down' = down \o <<Msg(i, "ack"), Msg(i, shot)>>
    /\ order' = Append(order, Head(up)) /\ up' = Tail(up)
    /\ UNCHANGED <<call, at, rows, waits, got, link>>

\* The sandbox dies; it may have executed the first action it had not answered.
Die ==
    /\ link = "up" /\ link' = "dead" /\ up' = <<>>
    /\ \/ UNCHANGED <<ran, order>>
       \/ /\ up # <<>> /\ ran' = [ran EXCEPT ![Head(up)] = "ok"]
          /\ order' = Append(order, Head(up))
    /\ UNCHANGED <<call, at, rows, waits, got, down>>

--------------------------------------------------------------------------------
BatchInit ==
    /\ \E n \in Index : acts \in [1 .. n -> Acts]
    /\ form \in {"batch", "step"} /\ stop \in BOOLEAN
    /\ form = "step" => stop /\ \A k \in DOMAIN acts : ~acts[k].look
    /\ at = [pc |-> "gate", i |-> 1]
    /\ rows = [k \in Index |-> "none"] /\ waits = [k \in Index |-> {}] /\ got = [k \in Index |-> {}]
    /\ up = <<>> /\ down = <<>> /\ link = "up"
    /\ ran = [k \in Index |-> "no"] /\ order = <<>>

BatchNext ==
    \/ Refused \/ Act \/ Answered \/ TimedOut
    \/ Compose \/ Send \/ Collect
    \/ Dispatch \/ Notice \/ Execute \/ Die

BatchSpec == BatchInit /\ [][BatchNext]_vars

--------------------------------------------------------------------------------
Returned == Here("returned")

\* "each result row therefore reports that action's REAL outcome": ok was executed, an
\* action that was refused or skipped never is, not even later, and one that failed was
\* answered so, or its capture was.
RowsAreReal ==
    Returned =>
        \A k \in DOMAIN acts :
            /\ rows[k] # "none"
            /\ rows[k] = "ok" => ran[k] = "ok"
            /\ rows[k] = "skipped" => ran[k] = "no" /\ ~Contains(up, k)
            /\ rows[k] = "error" => \/ ran[k] = "failed" \/ (acts[k].look /\ ran[k] = "ok")
                                    \/ acts[k].gate # "allow" /\ ran[k] = "no" /\ ~Contains(up, k)

\* Actions are executed in their order, and a batch that stops on errors executes none
\* after one that did not end well.
OrderIsKept ==
    /\ \A j, k \in DOMAIN order : j < k => order[j] < order[k]
    /\ form = "batch" /\ stop =>
         \A j, k \in DOMAIN acts : j < k /\ ran[k] # "no" => rows[j] = "ok"

\* What a batch or a step says of its actions is what became of them.
BatchesHonest == RowsAreReal /\ OrderIsKept
================================================================================
