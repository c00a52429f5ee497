----------------------------- MODULE RequestsProofs -----------------------------
(***************************************************************************)
(* What a connection asks of the guest: the execs (Execs), for any number  *)
(* of connections, execs and permits, and the structured observation       *)
(* (Observations), for any desktop and any budget.                         *)
(***************************************************************************)
EXTENDS Execs, Observations, FiniteSetTheorems, TLAPS

--------------------------------------------------------------------------------
(* Execs.                                                                       *)

\* TypeOK without the bounds that need the ledger, or the permits' conservation.
ServerTyped ==
    /\ permits \in Nat
    /\ link \in [Conns -> {"down", "open", "closing"}]
    /\ serve \in [Conns -> Execs \cup {0}]
    /\ out \in [Conns -> 0 .. OutboundCap]
    /\ writer \in [Conns -> BOOLEAN]

TasksTyped ==
    /\ pc \in [Execs -> Pc]
    /\ conn \in [Execs -> Conns \cup {0}]
    /\ form \in [Execs -> {"none", "streamed", "buffered"}]
    /\ dropping \in [Execs -> BOOLEAN]
    /\ verdict \in [Execs -> Verdict]

ProcsTyped ==
    /\ leader \in [Execs -> {"none", "live", "ended", "killed"}]
    /\ rest \in [Execs -> {"none", "group", "escaped"}]
    /\ made \in [Execs -> 0 .. MaxChunks]

IoTyped ==
    /\ pipe \in [Execs -> 0 .. PipeCap]
    /\ pump \in [Execs -> {"none", "reading", "done"}]
    /\ funnel \in [Execs -> 0 .. FunnelCap]
    /\ fwd \in [Execs -> {"none", "recv", "holding", "sending", "aborted", "done", "dropped"}]
    /\ lost \in [Execs -> BOOLEAN]
    /\ deaf \in [Execs -> BOOLEAN]
    /\ got \in [Execs -> Nat]

Typing == ServerTyped /\ TasksTyped /\ ProcsTyped /\ IoTyped

\* The chunk the forwarder has taken from the funnel and not yet passed on.
InHand(e) == IF fwd[e] \in {"holding", "sending", "aborted"} THEN 1 ELSE 0

Traced(e) == pipe[e] + funnel[e] + got[e] + InHand(e)

\* No chunk is invented, and one goes missing only when somebody admits it: the forwarder or
\* read_capped (`truncated`), the forwarder that has no client, or the verdict.
Ledger(e) ==
    /\ Traced(e) <= made[e]
    /\ ~lost[e] /\ ~deaf[e] /\ ~verdict[e].truncated => Traced(e) = made[e]

\* An exec that has no child yet has nothing.
Unborn(e) ==
    pc[e] \in {"idle", "admitted", "starting"} =>
        /\ leader[e] = "none" /\ rest[e] = "none" /\ pump[e] = "none" /\ fwd[e] = "none"
        /\ Traced(e) = 0 /\ made[e] = 0 /\ ~lost[e] /\ ~deaf[e]

\* The readers, by the form of the exec: when they are done, nobody can write any more, or the
\* verdict tells of the rest.
Readers(e) ==
    /\ pc[e] # "idle" => form[e] # "none" /\ conn[e] \in Conns
    /\ pc[e] \in {"waiting", "expired", "joining"} =>
          /\ pump[e] # "none"
          /\ form[e] = "streamed" => fwd[e] \in {"recv", "holding", "sending", "done"}
    /\ form[e] # "streamed" => fwd[e] = "none" /\ funnel[e] = 0 /\ ~deaf[e]
    /\ fwd[e] = "none" => funnel[e] = 0
    /\ form[e] = "streamed" /\ pump[e] # "none" => fwd[e] # "none"
    /\ fwd[e] \in {"aborted", "dropped"} => verdict[e].truncated
    /\ fwd[e] = "done" => funnel[e] = 0 /\ pump[e] = "done"
    /\ pump[e] = "done" => verdict[e].truncated \/ (pipe[e] = 0 /\ ~PipesHeld(e))

\* What the task has found, place by place.
Found(e) ==
    /\ pc[e] \in {"idle", "admitted", "starting", "waiting", "expired"} => verdict[e] = NoVerdict
    /\ pc[e] = "joining" => ~verdict[e].truncated
    /\ pc[e] \in {"joining", "exiting", "answered"} =>
          /\ verdict[e].code => leader[e] = "ended" /\ ~verdict[e].timed_out
          /\ verdict[e].timed_out => leader[e] # "live" /\ rest[e] # "group"

\* An exec about to answer has nobody of its group left; if it admits no loss, every chunk
\* has been passed on and its readers are over.
Settled(e) ==
    pc[e] \in {"exiting", "answered"} =>
        /\ leader[e] # "live" /\ rest[e] # "group"
        /\ verdict[e].truncated \/
              /\ ~lost[e] /\ ~deaf[e] /\ pipe[e] = 0 /\ funnel[e] = 0 /\ InHand(e) = 0
              /\ ~PipesHeld(e) /\ pump[e] # "reading" /\ fwd[e] \in {"none", "done"}

ExecInv(e) == Ledger(e) /\ Unborn(e) /\ Readers(e) /\ Found(e) /\ Settled(e)

\* The inductive invariant.
ExecsInv == Typing /\ \A e \in Execs : ExecInv(e)

--------------------------------------------------------------------------------
(* What a step on one exec leaves of the others.                               *)

View(e) == <<pc[e], conn[e], form[e], verdict[e], leader[e], rest[e], made[e],
             pipe[e], pump[e], funnel[e], fwd[e], lost[e], deaf[e], got[e]>>

\* The invariant of an exec speaks of its own state alone.
LEMMA SameView ==
    ASSUME NEW e, ExecInv(e), UNCHANGED View(e)
    PROVE  ExecInv(e)'
<1>1. /\ pc'[e] = pc[e] /\ conn'[e] = conn[e] /\ form'[e] = form[e] /\ verdict'[e] = verdict[e]
      /\ leader'[e] = leader[e] /\ rest'[e] = rest[e] /\ made'[e] = made[e] /\ pipe'[e] = pipe[e]
      /\ pump'[e] = pump[e] /\ funnel'[e] = funnel[e] /\ fwd'[e] = fwd[e] /\ lost'[e] = lost[e]
      /\ deaf'[e] = deaf[e] /\ got'[e] = got[e]
  BY DEF View
<1>2. Ledger(e)' /\ Unborn(e)' /\ Settled(e)'
  BY <1>1 DEF ExecInv, Ledger, Unborn, Settled, Traced, InHand, PipesHeld
<1>3. Readers(e)' /\ Found(e)'
  BY <1>1 DEF ExecInv, Readers, Found, PipesHeld
<1>4. QED
  BY <1>2, <1>3 DEF ExecInv

\* A step of the child, the readers or the task of an exec leaves the other execs alone.
LEMMA OthersUntouched ==
    ASSUME Typing, NEW e \in Execs, ChildStep(e) \/ ReaderStep(e) \/ TaskStep(e),
           NEW f \in Execs, f # e
    PROVE  UNCHANGED View(f)
<1> USE DEF View, Typing, ServerTyped, TasksTyped, ProcsTyped, IoTyped, procVars, ioVars, taskVars
<1>1. CASE ChildStep(e)
  BY <1>1 DEF ChildStep, Write, Fork, Escape, LeaderExits, RestExits
<1>2. CASE Pump(e) \/ ReadCapped(e) \/ Eof(e)
  BY <1>2 DEF Pump, ReadCapped, Eof
<1>3. CASE Recv(e) \/ Forward(e) \/ ForwarderEnds(e) \/ LastPoll(e)
  BY <1>3 DEF Recv, Forward, ForwarderEnds, LastPoll
<1>4. CASE Spawn(e) \/ SpawnFails(e) \/ Reaped(e) \/ Expire(e) \/ TimeOut(e)
  BY <1>4 DEF Spawn, SpawnFails, Reaped, Expire, TimeOut, KillTree
<1>5. CASE Joined(e) \/ Stalled(e)
  BY <1>5 DEF Joined, Stalled, KillTree, KillHolders, LossTold
<1>6. CASE Answer(e) \/ Drop(e)
  BY <1>6 DEF Answer, Drop, KillLeader
<1>7. QED
  BY <1>1, <1>2, <1>3, <1>4, <1>5, <1>6 DEF ReaderStep, TaskStep

\* The types of one exec.
LEMMA Types ==
    ASSUME Typing, NEW e \in Execs
    PROVE  /\ pc[e] \in Pc /\ verdict[e] \in Verdict
           /\ form[e] \in {"none", "streamed", "buffered"}
           /\ leader[e] \in {"none", "live", "ended", "killed"}
           /\ rest[e] \in {"none", "group", "escaped"}
           /\ made[e] \in Nat /\ pipe[e] \in Nat /\ funnel[e] \in Nat /\ got[e] \in Nat
           /\ pump[e] \in {"none", "reading", "done"}
           /\ fwd[e] \in {"none", "recv", "holding", "sending", "aborted", "done", "dropped"}
           /\ lost[e] \in BOOLEAN /\ deaf[e] \in BOOLEAN
BY BoundsAssumption DEF Typing, ServerTyped, TasksTyped, ProcsTyped, IoTyped, BoundsAssumption

\* An exec without a child has no chunk anywhere.
LEMMA UnbornEmpty ==
    ASSUME Typing, NEW e \in Execs, ExecInv(e), pc[e] \in {"idle", "admitted", "starting"}
    PROVE  /\ leader[e] = "none" /\ rest[e] = "none" /\ pump[e] = "none" /\ fwd[e] = "none"
           /\ ~lost[e] /\ ~deaf[e] /\ pipe[e] = 0 /\ funnel[e] = 0
<1>1. /\ leader[e] = "none" /\ rest[e] = "none" /\ pump[e] = "none" /\ fwd[e] = "none"
      /\ ~lost[e] /\ ~deaf[e] /\ Traced(e) = 0
  BY DEF ExecInv, Unborn
<1>2. pipe[e] \in Nat /\ funnel[e] \in Nat /\ got[e] \in Nat /\ InHand(e) \in Nat
  BY Types DEF InHand
<1>3. \A p, f, g, h \in Nat : p + f + g + h = 0 => p = 0 /\ f = 0
  OBVIOUS
<1>4. pipe[e] = 0 /\ funnel[e] = 0
  BY <1>1, <1>2, <1>3 DEF Traced
<1>5. QED
  BY <1>1, <1>4

--------------------------------------------------------------------------------
(* The child and its descendants.                                              *)

\* Everything of an exec but its processes and its chunks stays when they move.
LEMMA ChildKeeps ==
    ASSUME ExecsInv, NEW e \in Execs, ChildStep(e)
    PROVE  ExecInv(e)'
<1>0. Typing /\ ExecInv(e)
  BY DEF ExecsInv
<1> USE Types, <1>0
<1>1. /\ pc'[e] = pc[e] /\ conn'[e] = conn[e] /\ form'[e] = form[e] /\ verdict'[e] = verdict[e]
      /\ pump'[e] = pump[e] /\ funnel'[e] = funnel[e] /\ fwd'[e] = fwd[e] /\ lost'[e] = lost[e]
      /\ deaf'[e] = deaf[e] /\ got'[e] = got[e]
  BY DEF ChildStep, Write, Fork, Escape, LeaderExits, RestExits, taskVars, ioVars
<1>2. CASE Write(e)
  <2>1. /\ made'[e] = made[e] + 1 /\ pipe'[e] = pipe[e] + 1 /\ leader'[e] = leader[e]
        /\ rest'[e] = rest[e] /\ PipesHeld(e)
    BY <1>2 DEF Write, Typing, ServerTyped, TasksTyped, ProcsTyped, IoTyped
  <2>2. Ledger(e)'
    BY <1>1, <2>1 DEF ExecInv, Ledger, Traced, InHand
  <2>3. Unborn(e)' /\ Settled(e)'
    BY <1>1, <2>1 DEF ExecInv, Unborn, Settled, PipesHeld
  <2>4. Readers(e)' /\ Found(e)'
    BY <1>1, <2>1 DEF ExecInv, Readers, Found, PipesHeld
  <2>5. QED
    BY <2>2, <2>3, <2>4 DEF ExecInv
<1>3. CASE Fork(e) \/ Escape(e) \/ LeaderExits(e) \/ RestExits(e)
  <2>1. /\ made'[e] = made[e] /\ pipe'[e] = pipe[e]
        /\ leader'[e] = leader[e] \/ (leader[e] = "live" /\ leader'[e] = "ended")
        /\ rest'[e] = "group" /\ rest[e] # "group" => leader[e] = "live"
        /\ PipesHeld(e)
        /\ PipesHeld(e)' => PipesHeld(e)
    BY <1>3 DEF Fork, Escape, LeaderExits, RestExits, Typing, ServerTyped, TasksTyped,
                     ProcsTyped, IoTyped, ioVars, PipesHeld
  <2>2. Ledger(e)'
    BY <1>1, <2>1 DEF ExecInv, Ledger, Traced, InHand
  <2>3. Unborn(e)' /\ Settled(e)'
    BY <1>1, <2>1 DEF ExecInv, Unborn, Settled, PipesHeld, Traced, InHand
  <2>4. Readers(e)' /\ Found(e)'
    BY <1>1, <2>1 DEF ExecInv, Readers, Found, PipesHeld
  <2>5. QED
    BY <2>2, <2>3, <2>4 DEF ExecInv
<1>4. QED
  BY <1>2, <1>3 DEF ChildStep

--------------------------------------------------------------------------------
(* The readers and the forwarder.                                              *)

\* A chunk on its way from the pipe to the channel is in one place at a time, and where it is
\* dropped a flag is set; the readers run while nobody has given them up.
LEMMA ReaderKeeps ==
    ASSUME ExecsInv, NEW e \in Execs, ReaderStep(e)
    PROVE  ExecInv(e)'
<1>0. Typing /\ ExecInv(e)
  BY DEF ExecsInv
<1> USE Types, <1>0
<1>1. /\ pc'[e] = pc[e] /\ conn'[e] = conn[e] /\ form'[e] = form[e] /\ verdict'[e] = verdict[e]
      /\ leader'[e] = leader[e] /\ rest'[e] = rest[e] /\ made'[e] = made[e]
      /\ PipesHeld(e)' = PipesHeld(e)
  BY DEF ReaderStep, Pump, ReadCapped, Eof, Recv, Forward, ForwarderEnds, LastPoll,
     taskVars, procVars, PipesHeld
<1>2. CASE Pump(e)
  <2>1. /\ pump[e] = "reading" /\ form[e] = "streamed" /\ pipe[e] > 0
        /\ fwd'[e] = fwd[e] /\ lost'[e] = lost[e] /\ deaf'[e] = deaf[e] /\ got'[e] = got[e]
        /\ \/ /\ fwd[e] # "dropped" /\ pump'[e] = pump[e]
              /\ funnel'[e] = funnel[e] + 1 /\ pipe'[e] = pipe[e] - 1
           \/ /\ fwd[e] = "dropped" /\ pump'[e] = "done"
              /\ funnel'[e] = funnel[e] /\ pipe'[e] = pipe[e]
    BY <1>2 DEF Pump, Typing, ServerTyped, TasksTyped, ProcsTyped, IoTyped
  <2>2. fwd[e] # "none"
    BY <2>1 DEF ExecInv, Readers, Unborn, Settled, Found
  <2>3. Ledger(e)'
    BY <1>1, <2>1 DEF ExecInv, Ledger, Traced, InHand
  <2>4. Unborn(e)' /\ Settled(e)'
    BY <1>1, <2>1 DEF ExecInv, Unborn, Settled, Readers
  <2>5. Readers(e)' /\ Found(e)'
    BY <1>1, <2>1, <2>2 DEF ExecInv, Readers, Found
  <2>6. QED
    BY <2>3, <2>4, <2>5 DEF ExecInv
<1>3. CASE ReadCapped(e)
  <2>1. /\ pump[e] = "reading" /\ form[e] = "buffered" /\ pipe[e] > 0 /\ pipe'[e] = pipe[e] - 1
        /\ pump'[e] = pump[e] /\ fwd'[e] = fwd[e] /\ deaf'[e] = deaf[e] /\ funnel'[e] = funnel[e]
        /\ \/ lost'[e] = lost[e] /\ got'[e] = got[e] + 1
           \/ lost'[e] = TRUE /\ got'[e] = got[e]
    BY <1>3 DEF ReadCapped, Typing, ServerTyped, TasksTyped, ProcsTyped, IoTyped
  <2>2. Ledger(e)'
    BY <1>1, <2>1 DEF ExecInv, Ledger, Traced, InHand
  <2>3. Unborn(e)' /\ Settled(e)'
    BY <1>1, <2>1 DEF ExecInv, Unborn, Settled
  <2>4. Readers(e)' /\ Found(e)'
    BY <1>1, <2>1 DEF ExecInv, Readers, Found
  <2>5. QED
    BY <2>2, <2>3, <2>4 DEF ExecInv
<1>4. CASE Eof(e) \/ ForwarderEnds(e)
  <2>1. /\ pipe'[e] = pipe[e] /\ funnel'[e] = funnel[e] /\ got'[e] = got[e]
        /\ lost'[e] = lost[e] /\ deaf'[e] = deaf[e]
        /\ \/ /\ pump[e] = "reading" /\ pump'[e] = "done" /\ pipe[e] = 0 /\ ~PipesHeld(e)
              /\ fwd'[e] = fwd[e]
           \/ /\ fwd[e] = "recv" /\ fwd'[e] = "done" /\ funnel[e] = 0 /\ pump[e] = "done"
              /\ pump'[e] = "done"
    BY <1>4 DEF Eof, ForwarderEnds, Typing, ServerTyped, TasksTyped, ProcsTyped, IoTyped
  <2>2. Ledger(e)'
    BY <1>1, <2>1 DEF ExecInv, Ledger, Traced, InHand
  <2>3. Unborn(e)' /\ Settled(e)'
    BY <1>1, <2>1 DEF ExecInv, Unborn, Settled, InHand
  <2>4. Readers(e)' /\ Found(e)'
    BY <1>1, <2>1 DEF ExecInv, Readers, Found
  <2>5. QED
    BY <2>2, <2>3, <2>4 DEF ExecInv
<1>5. CASE Recv(e) \/ Forward(e)
  <2>1. /\ pipe'[e] = pipe[e] /\ pump'[e] = pump[e] /\ fwd[e] \in {"recv", "holding", "sending"}
        /\ fwd'[e] \in {"recv", "holding", "sending"}
    BY <1>5 DEF Recv, Forward, Typing, ServerTyped, TasksTyped, ProcsTyped, IoTyped
  <2>2. /\ funnel'[e] <= funnel[e] /\ funnel'[e] \in Nat
        /\ deaf[e] => deaf'[e]
        /\ lost[e] => lost'[e]
        /\ Traced(e)' \in {Traced(e), Traced(e) - 1}
        /\ Traced(e)' = Traced(e) - 1 => lost'[e] \/ deaf'[e]
    <3>1. CASE Recv(e)
      <4>1. /\ fwd[e] = "recv" /\ funnel[e] > 0 /\ funnel'[e] = funnel[e] - 1
            /\ got'[e] = got[e] /\ deaf'[e] = deaf[e]
            /\ \/ (lost[e] \/ deaf[e]) /\ fwd'[e] = fwd[e] /\ lost'[e] = lost[e]
               \/ lost'[e] = TRUE /\ fwd'[e] = fwd[e]
               \/ lost'[e] = lost[e] /\ fwd'[e] = "holding"
        BY <3>1 DEF Recv, Typing, ServerTyped, TasksTyped, ProcsTyped, IoTyped
      <4>2. QED
        BY <2>1, <4>1 DEF Traced, InHand
    <3>2. CASE Forward(e)
      <4>1. /\ fwd[e] \in {"holding", "sending"} /\ funnel'[e] = funnel[e] /\ lost'[e] = lost[e]
            /\ \/ fwd'[e] = "recv" /\ got'[e] = got[e] + 1 /\ deaf'[e] = deaf[e]
               \/ fwd'[e] = "sending" /\ got'[e] = got[e] /\ deaf'[e] = deaf[e]
               \/ fwd'[e] = "recv" /\ got'[e] = got[e] /\ deaf'[e] = TRUE
        BY <3>2 DEF Forward, Typing, ServerTyped, TasksTyped, ProcsTyped, IoTyped
      <4>2. QED
        BY <2>1, <4>1 DEF Traced, InHand
    <3>3. QED
      BY <1>5, <3>1, <3>2
  <2>3. Ledger(e)'
    BY <1>1, <2>1, <2>2 DEF ExecInv, Ledger, Traced, InHand
  <2>4. Unborn(e)' /\ Settled(e)' /\ Found(e)'
    <3>1. pc[e] \notin {"idle", "admitted", "starting"}
      BY <2>1 DEF ExecInv, Unborn
    <3>2. pc[e] \in {"exiting", "answered"} => verdict[e].truncated
      BY <2>1 DEF ExecInv, Settled
    <3>3. QED
      BY <1>1, <2>1, <3>1, <3>2 DEF ExecInv, Unborn, Settled, Found
  <2>5. Readers(e)'
    BY <1>1, <2>1, <2>2 DEF ExecInv, Readers
  <2>6. QED
    BY <2>3, <2>4, <2>5 DEF ExecInv
<1>6. CASE LastPoll(e)
  <2>1. /\ fwd[e] = "aborted" /\ fwd'[e] = "dropped" /\ verdict[e].truncated
        /\ pipe'[e] = pipe[e] /\ funnel'[e] = funnel[e] /\ pump'[e] = pump[e]
        /\ lost'[e] = lost[e] /\ deaf'[e] = deaf[e] /\ got'[e] \in {got[e], got[e] + 1}
    BY <1>6 DEF LastPoll, Typing, ServerTyped, TasksTyped, ProcsTyped, IoTyped, ExecInv, Readers
  <2>2. Ledger(e)'
    BY <1>1, <2>1 DEF ExecInv, Ledger, Traced, InHand
  <2>3. Unborn(e)' /\ Settled(e)'
    BY <1>1, <2>1 DEF ExecInv, Unborn, Settled
  <2>4. Readers(e)' /\ Found(e)'
    BY <1>1, <2>1 DEF ExecInv, Readers, Found
  <2>5. QED
    BY <2>2, <2>3, <2>4 DEF ExecInv
<1>7. QED
  BY <1>2, <1>3, <1>4, <1>5, <1>6 DEF ReaderStep

--------------------------------------------------------------------------------
(* The exec task.                                                              *)

\* What the task writes in a verdict.
LEMMA VerdictFields ==
    ASSUME NEW v \in Verdict, NEW b \in BOOLEAN
    PROVE  /\ [v EXCEPT !.code = b] \in Verdict
           /\ [v EXCEPT !.code = b].code = b
           /\ [v EXCEPT !.code = b].timed_out = v.timed_out
           /\ [v EXCEPT !.code = b].truncated = v.truncated
           /\ [v EXCEPT !.truncated = b] \in Verdict
           /\ [v EXCEPT !.truncated = b].truncated = b
           /\ [v EXCEPT !.truncated = b].timed_out = v.timed_out
           /\ [v EXCEPT !.truncated = b].code = v.code
BY DEF Verdict

\* kill_tree leaves nobody in the group, and nobody comes back.
LEMMA KillTreeEffect ==
    ASSUME Typing, NEW e \in Execs, KillTree(e)
    PROVE  /\ leader' \in [Execs -> {"none", "live", "ended", "killed"}]
           /\ rest' \in [Execs -> {"none", "group", "escaped"}]
           /\ leader'[e] # "live" /\ rest'[e] # "group"
           /\ leader[e] # "live" => leader'[e] = leader[e]
           /\ rest'[e] = rest[e] \/ rest'[e] = "none"
           /\ PipesHeld(e)' => PipesHeld(e)
BY DEF KillTree, Typing, ServerTyped, TasksTyped, ProcsTyped, IoTyped, PipesHeld

\* From the spawn to the verdict the task knows what it waits for.
LEMMA WaitKeeps ==
    ASSUME ExecsInv, NEW e \in Execs,
           Spawn(e) \/ SpawnFails(e) \/ Reaped(e) \/ Expire(e) \/ TimeOut(e)
    PROVE  ExecInv(e)'
<1>0. Typing /\ ExecInv(e)
  BY DEF ExecsInv
<1> USE Types, <1>0
<1>1. /\ conn'[e] = conn[e] /\ form'[e] = form[e] /\ made'[e] = made[e] /\ pipe'[e] = pipe[e]
      /\ funnel'[e] = funnel[e] /\ lost'[e] = lost[e] /\ deaf'[e] = deaf[e] /\ got'[e] = got[e]
  BY DEF Spawn, SpawnFails, Reaped, Expire, TimeOut, procVars, ioVars
<1>2. CASE Spawn(e)
  <2>1. /\ pc[e] = "starting" /\ pc'[e] = "waiting" /\ leader'[e] = "live" /\ rest'[e] = rest[e]
        /\ pump'[e] = "reading" /\ verdict'[e] = verdict[e]
        /\ fwd'[e] = IF form[e] = "streamed" THEN "recv" ELSE "none"
    BY <1>2 DEF Spawn, Typing, ServerTyped, TasksTyped, ProcsTyped, IoTyped
  <2>2. Ledger(e)'
    BY <1>1, <2>1 DEF ExecInv, Ledger, Traced, InHand, Unborn
  <2>3. Unborn(e)' /\ Settled(e)' /\ Found(e)'
    BY <1>1, <2>1 DEF ExecInv, Unborn, Settled, Found
  <2>4. Readers(e)'
    BY <1>1, <2>1 DEF ExecInv, Readers, Unborn, Traced, InHand
  <2>5. QED
    BY <2>2, <2>3, <2>4 DEF ExecInv
<1>3. CASE SpawnFails(e)
  <2>1. /\ pc[e] = "starting" /\ pc'[e] = "exiting" /\ leader'[e] = leader[e] /\ rest'[e] = rest[e]
        /\ pump'[e] = pump[e] /\ fwd'[e] = fwd[e] /\ verdict'[e] = verdict[e]
    BY <1>3 DEF SpawnFails, Typing, ServerTyped, TasksTyped, ProcsTyped, IoTyped, procVars, ioVars
  <2>2. Ledger(e)' /\ Unborn(e)' /\ Readers(e)'
    BY <1>1, <2>1 DEF ExecInv, Ledger, Traced, InHand, Unborn, Readers, PipesHeld
  <2>3. Found(e)'
    BY <1>1, <2>1 DEF ExecInv, Found, NoVerdict
  <2>4. /\ leader[e] = "none" /\ rest[e] = "none" /\ pump[e] = "none" /\ fwd[e] = "none"
        /\ ~lost[e] /\ ~deaf[e] /\ pipe[e] = 0 /\ funnel[e] = 0
    BY <2>1, UnbornEmpty
  <2>5. Settled(e)'
    BY <1>1, <2>1, <2>4 DEF Settled, PipesHeld, InHand
  <2>6. QED
    BY <2>2, <2>3, <2>5 DEF ExecInv
<1>4. CASE Reaped(e)
  <2>1. /\ pc[e] = "waiting" /\ pc'[e] = "joining" /\ leader'[e] = leader[e] /\ rest'[e] = rest[e]
        /\ pump'[e] = pump[e] /\ fwd'[e] = fwd[e] /\ leader[e] # "live"
        /\ verdict'[e] = [verdict[e] EXCEPT !.code = ExitCode(e)]
    BY <1>4 DEF Reaped, Typing, ServerTyped, TasksTyped, ProcsTyped, IoTyped, procVars, ioVars
  <2>2. /\ verdict'[e].code = (leader[e] = "ended") /\ ~verdict'[e].timed_out
        /\ verdict'[e].truncated = verdict[e].truncated /\ ~verdict[e].truncated
    BY <2>1, VerdictFields DEF ExitCode, ExecInv, Found, NoVerdict
  <2>3. Ledger(e)' /\ Unborn(e)' /\ Settled(e)'
    BY <1>1, <2>1, <2>2 DEF ExecInv, Ledger, Traced, InHand, Unborn, Settled
  <2>4. Readers(e)'
    BY <1>1, <2>1, <2>2 DEF ExecInv, Readers, PipesHeld
  <2>5. Found(e)'
    BY <1>1, <2>1, <2>2 DEF Found
  <2>6. QED
    BY <2>3, <2>4, <2>5 DEF ExecInv
<1>5. CASE Expire(e)
  <2>1. /\ pc[e] = "waiting" /\ pc'[e] = "expired" /\ leader'[e] = leader[e] /\ rest'[e] = rest[e]
        /\ pump'[e] = pump[e] /\ fwd'[e] = fwd[e] /\ verdict'[e] = verdict[e]
    BY <1>5 DEF Expire, Typing, ServerTyped, TasksTyped, ProcsTyped, IoTyped, procVars, ioVars
  <2>2. Ledger(e)' /\ Unborn(e)' /\ Settled(e)'
    BY <1>1, <2>1 DEF ExecInv, Ledger, Traced, InHand, Unborn, Settled
  <2>3. Readers(e)' /\ Found(e)'
    BY <1>1, <2>1 DEF ExecInv, Readers, PipesHeld, Found
  <2>4. QED
    BY <2>2, <2>3 DEF ExecInv
<1>6. CASE TimeOut(e)
  <2>1. /\ pc[e] = "expired" /\ pc'[e] = "joining" /\ KillTree(e)
        /\ pump'[e] = pump[e] /\ fwd'[e] = fwd[e]
        /\ verdict'[e] = [timed_out |-> TRUE, code |-> FALSE, truncated |-> FALSE]
    BY <1>6 DEF TimeOut, Typing, ServerTyped, TasksTyped, ProcsTyped, IoTyped, ioVars
  <2>2. ~verdict[e].truncated /\ ~verdict'[e].truncated /\ ~verdict'[e].code /\ verdict'[e].timed_out
    BY <2>1 DEF ExecInv, Found, NoVerdict
  <2>3. Ledger(e)' /\ Unborn(e)' /\ Settled(e)'
    BY <1>1, <2>1, <2>2 DEF ExecInv, Ledger, Traced, InHand, Unborn, Settled
  <2>4. Readers(e)'
    BY <1>1, <2>1, <2>2, KillTreeEffect DEF ExecInv, Readers
  <2>5. Found(e)'
    BY <1>1, <2>1, <2>2, KillTreeEffect DEF Found
  <2>6. QED
    BY <2>3, <2>4, <2>5 DEF ExecInv
<1>7. QED
  BY <1>2, <1>3, <1>4, <1>5, <1>6

\* The end of the output, in time or not, and the answer: what is missing is admitted.
LEMMA EndKeeps ==
    ASSUME ExecsInv, NEW e \in Execs, Joined(e) \/ Stalled(e) \/ Answer(e) \/ Drop(e)
    PROVE  ExecInv(e)'
<1>0. Typing /\ ExecInv(e)
  BY DEF ExecsInv
<1> USE Types, <1>0
<1>1. /\ conn'[e] = conn[e] /\ form'[e] = form[e] /\ made'[e] = made[e] /\ pipe'[e] = pipe[e]
      /\ funnel'[e] = funnel[e] /\ lost'[e] = lost[e] /\ deaf'[e] = deaf[e]
  BY DEF Joined, Stalled, Answer, Drop, procVars, ioVars
<1>2. CASE Joined(e)
  <2>1. /\ pc[e] = "joining" /\ Drained(e)
        /\ pump'[e] = pump[e] /\ fwd'[e] = fwd[e] /\ got'[e] = got[e]
    BY <1>2 DEF Joined, ioVars
  <2>2. ~verdict[e].truncated /\ pump[e] = "done" /\ fwd[e] \in {"none", "done"} /\ funnel[e] = 0
        /\ pipe[e] = 0 /\ ~PipesHeld(e)
    BY <2>1 DEF Drained, ExecInv, Found, Readers
  <2>3. CASE deaf[e]
    <3>1. pc'[e] = "abandoned" /\ KillTree(e) /\ verdict'[e] = verdict[e]
      BY <1>2, <2>3 DEF Joined, Typing, ServerTyped, TasksTyped, ProcsTyped, IoTyped
    <3>2. Ledger(e)' /\ Unborn(e)' /\ Found(e)' /\ Settled(e)'
      BY <1>1, <2>1, <3>1 DEF ExecInv, Ledger, Traced, InHand, Unborn, Found, Settled
    <3>3. Readers(e)'
      BY <1>1, <2>1, <3>1, KillTreeEffect DEF ExecInv, Readers
    <3>4. QED
      BY <3>2, <3>3 DEF ExecInv
  <2>4. CASE ~deaf[e]
    <3>1. /\ pc'[e] = "exiting" /\ leader'[e] = leader[e] /\ rest'[e] = rest[e]
          /\ verdict'[e] = [verdict[e] EXCEPT !.truncated = lost[e]]
      BY <1>2, <2>4 DEF Joined, Typing, ServerTyped, TasksTyped, ProcsTyped, IoTyped
    <3>2. /\ verdict'[e].truncated = lost[e] /\ verdict'[e].code = verdict[e].code
          /\ verdict'[e].timed_out = verdict[e].timed_out
      BY <3>1, VerdictFields
    <3>3. Ledger(e)' /\ Unborn(e)'
      BY <1>1, <2>1, <2>2, <3>1, <3>2 DEF ExecInv, Ledger, Traced, InHand, Unborn
    <3>4. Readers(e)' /\ Found(e)'
      BY <1>1, <2>1, <2>2, <3>1, <3>2 DEF ExecInv, Readers, Found, PipesHeld
    <3>5. Settled(e)'
      BY <1>1, <2>1, <2>2, <2>4, <3>1, <3>2 DEF Settled, InHand, PipesHeld
    <3>6. QED
      BY <3>3, <3>4, <3>5 DEF ExecInv
  <2>5. QED
    BY <2>3, <2>4
<1>3. CASE Stalled(e)
  <2>1. /\ pc[e] = "joining" /\ pc'[e] = "exiting" /\ ~Drained(e) /\ KillTree(e)
        /\ verdict'[e] = [verdict[e] EXCEPT !.truncated = TRUE]
        /\ \/ /\ form[e] = "buffered" /\ pump'[e] = "done" /\ got'[e] = 0 /\ fwd'[e] = fwd[e]
           \/ /\ form[e] # "buffered" /\ pump'[e] = pump[e] /\ got'[e] = got[e]
              /\ fwd'[e] = IF fwd[e] \in {"recv", "sending"} THEN "dropped" ELSE "aborted"
    BY <1>3 DEF Stalled, Typing, ServerTyped, TasksTyped, ProcsTyped, IoTyped,
                     GraceOver, KillHolders, LossTold
  <2>2. /\ verdict'[e].truncated /\ verdict'[e].code = verdict[e].code
        /\ verdict'[e].timed_out = verdict[e].timed_out
    BY <2>1, VerdictFields
  <2>3. form[e] # "buffered" => form[e] = "streamed" /\ fwd[e] \in {"recv", "holding", "sending"}
    BY <2>1 DEF ExecInv, Readers, Drained
  <2>4. Traced(e)' <= Traced(e)
    BY <1>1, <2>1, <2>3 DEF Traced, InHand
  <2>5. Ledger(e)' /\ Unborn(e)'
    BY <1>1, <2>1, <2>2, <2>4 DEF ExecInv, Ledger, Unborn, Traced, InHand
  <2>6. Readers(e)'
    BY <1>1, <2>1, <2>2, <2>3 DEF ExecInv, Readers
  <2>7. Found(e)' /\ Settled(e)'
    BY <2>1, <2>2, KillTreeEffect DEF ExecInv, Found, Settled
  <2>8. QED
    BY <2>5, <2>6, <2>7 DEF ExecInv
<1>4. CASE Answer(e)
  <2>1. /\ pc[e] = "exiting" /\ pc'[e] \in {"answered", "abandoned"} /\ verdict'[e] = verdict[e]
        /\ leader'[e] = leader[e] /\ rest'[e] = rest[e] /\ pump'[e] = pump[e]
        /\ fwd'[e] = fwd[e] /\ got'[e] = got[e]
    BY <1>4 DEF Answer, Typing, ServerTyped, TasksTyped, ProcsTyped, IoTyped, procVars, ioVars
  <2>2. Ledger(e)' /\ Unborn(e)'
    BY <1>1, <2>1 DEF ExecInv, Ledger, Unborn, Traced, InHand
  <2>3. Readers(e)' /\ Found(e)' /\ Settled(e)'
    BY <1>1, <2>1 DEF ExecInv, Readers, Found, Settled, PipesHeld, InHand
  <2>4. QED
    BY <2>2, <2>3 DEF ExecInv
<1>5. CASE Drop(e)
  <2>1. /\ pc[e] # "idle" /\ pc'[e] = "abandoned" /\ verdict'[e] = verdict[e]
        /\ rest'[e] = rest[e] /\ leader'[e] = IF leader[e] = "live" THEN "killed" ELSE leader[e]
        /\ pump'[e] = pump[e] /\ fwd'[e] = fwd[e] /\ got'[e] = got[e]
    BY <1>5 DEF Drop, KillLeader, Typing, ServerTyped, TasksTyped, ProcsTyped, IoTyped, ioVars
  <2>2. Ledger(e)' /\ Unborn(e)' /\ Found(e)' /\ Settled(e)'
    BY <1>1, <2>1 DEF ExecInv, Ledger, Unborn, Traced, InHand, Found, Settled
  <2>3. Readers(e)'
    BY <1>1, <2>1 DEF ExecInv, Readers, PipesHeld
  <2>4. QED
    BY <2>2, <2>3 DEF ExecInv
<1>6. QED
  BY <1>2, <1>3, <1>4, <1>5

--------------------------------------------------------------------------------
(* The read loop and the writer.                                               *)

\* The read loop takes an exec up before it has a child, and gives one up before it has one;
\* it leaves all others alone.
LEMMA ConnKeeps ==
    ASSUME ExecsInv, NEW c \in Conns, ConnStep(c) \/ WriterStep(c), NEW e \in Execs
    PROVE  ExecInv(e)'
<1>0. Typing /\ ExecInv(e)
  BY DEF ExecsInv
<1> USE Types, <1>0
<1>1. ASSUME NEW x \in Execs, NEW f \in {"streamed", "buffered"}, Admit(c, x, f)
      PROVE  ExecInv(e)'
  <2>1. CASE e # x
    BY <1>1, <2>1, SameView
       DEF Admit, View, Typing, ServerTyped, TasksTyped, ProcsTyped, IoTyped, procVars, ioVars
  <2>2. CASE e = x
    <3>1. /\ pc[e] = "idle" /\ pc'[e] \in {"admitted", "starting"} /\ form'[e] = f /\ conn'[e] = c
          /\ verdict'[e] = verdict[e] /\ leader'[e] = leader[e] /\ rest'[e] = rest[e]
          /\ made'[e] = made[e] /\ pipe'[e] = pipe[e] /\ pump'[e] = pump[e]
          /\ funnel'[e] = funnel[e] /\ fwd'[e] = fwd[e] /\ lost'[e] = lost[e]
          /\ deaf'[e] = deaf[e] /\ got'[e] = got[e]
      BY <1>1, <2>2 DEF Admit, Typing, ServerTyped, TasksTyped, ProcsTyped, IoTyped, procVars, ioVars
    <3>2. /\ leader[e] = "none" /\ rest[e] = "none" /\ pump[e] = "none" /\ fwd[e] = "none"
          /\ ~lost[e] /\ ~deaf[e] /\ pipe[e] = 0 /\ funnel[e] = 0
      BY <3>1, UnbornEmpty
    <3>3. Ledger(e)' /\ Unborn(e)'
      BY <3>1 DEF ExecInv, Ledger, Unborn, Traced, InHand
    <3>4. Readers(e)' /\ Found(e)' /\ Settled(e)'
      BY <3>1, <3>2 DEF ExecInv, Readers, Found, Settled
    <3>5. QED
      BY <3>3, <3>4 DEF ExecInv
  <2>3. QED
    BY <2>1, <2>2
<1>2. CASE Reply(c) \/ Hangup(c)
  <2>1. /\ conn'[e] = conn[e] /\ form'[e] = form[e]
        /\ verdict'[e] = verdict[e] /\ leader'[e] = leader[e] /\ rest'[e] = rest[e]
        /\ made'[e] = made[e] /\ pipe'[e] = pipe[e] /\ pump'[e] = pump[e]
        /\ funnel'[e] = funnel[e] /\ fwd'[e] = fwd[e] /\ lost'[e] = lost[e]
        /\ deaf'[e] = deaf[e] /\ got'[e] = got[e]
    BY <1>2 DEF Reply, Hangup, procVars, ioVars
  <2>2. pc'[e] = pc[e] \/ (pc[e] = "admitted" /\ pc'[e] \in {"starting", "abandoned"})
    BY <1>2 DEF Reply, Hangup, Acking, Typing, ServerTyped, TasksTyped, ProcsTyped, IoTyped
  <2>3. Ledger(e)' /\ Unborn(e)' /\ Found(e)' /\ Settled(e)'
    BY <2>1, <2>2 DEF ExecInv, Ledger, Unborn, Traced, InHand, Found, Settled, PipesHeld
  <2>4. Readers(e)'
    BY <2>1, <2>2 DEF ExecInv, Readers, PipesHeld
  <2>5. QED
    BY <2>3, <2>4 DEF ExecInv
<1>3. ASSUME \/ \E x \in Execs : Refuse(c, x)
             \/ NackNobody(c) \/ Closed(c) \/ Connect(c) \/ WriterStep(c)
      PROVE  ExecInv(e)'
  <2>1. UNCHANGED View(e)
    BY <1>3 DEF Refuse, NackNobody, Closed, Connect, WriterStep, Deliver, WriterFails,
       View, taskVars, procVars, ioVars
  <2>2. QED
    BY <2>1, SameView
<1>4. QED
  BY <1>1, <1>2, <1>3 DEF ConnStep

--------------------------------------------------------------------------------
(* Types, one group of variables at a time.                                    *)

\* What a step leaves alone stays typed.
LEMMA StaysTyped ==
    /\ ServerTyped /\ UNCHANGED <<permits, serveVars, channelVars>> => ServerTyped'
    /\ TasksTyped /\ UNCHANGED taskVars => TasksTyped'
    /\ ProcsTyped /\ UNCHANGED procVars => ProcsTyped'
    /\ IoTyped /\ UNCHANGED ioVars => IoTyped'
<1>1. ServerTyped /\ UNCHANGED <<permits, serveVars, channelVars>> => ServerTyped'
  BY DEF ServerTyped, serveVars, channelVars
<1>2. TasksTyped /\ UNCHANGED taskVars => TasksTyped'
  BY DEF TasksTyped, taskVars
<1>3. ProcsTyped /\ UNCHANGED procVars => ProcsTyped'
  BY DEF ProcsTyped, procVars
<1>4. IoTyped /\ UNCHANGED ioVars => IoTyped'
  BY DEF IoTyped, ioVars
<1>5. QED
  BY <1>1, <1>2, <1>3, <1>4

\* A message that finds room keeps the channel in its bound.
LEMMA QueueTyped ==
    ASSUME ServerTyped, NEW c, Room(c), Queue(c)
    PROVE  out' \in [Conns -> 0 .. OutboundCap]
<1>1. CASE c \in Conns
  <2>1. out[c] \in 0 .. OutboundCap /\ out[c] < OutboundCap /\ OutboundCap \in Nat
    BY <1>1, BoundsAssumption DEF ServerTyped, Room, BoundsAssumption
  <2>2. out[c] + 1 \in 0 .. OutboundCap
    BY <2>1
  <2>3. QED
    BY <2>2 DEF ServerTyped, Queue
<1>2. CASE c \notin Conns
  BY <1>2 DEF ServerTyped, Queue
<1>3. QED
  BY <1>1, <1>2

\* Every step of the read loops and of the writers keeps the types.
LEMMA ConnTyped ==
    ASSUME Typing, NEW c \in Conns, ConnStep(c) \/ WriterStep(c)
    PROVE  Typing'
<1>0. ServerTyped /\ TasksTyped /\ ProcsTyped /\ IoTyped
  BY DEF Typing
<1>a. ProcsTyped' /\ IoTyped'
  <2>1. UNCHANGED <<procVars, ioVars>>
    BY DEF ConnStep, WriterStep, Admit, Refuse, Reply, NackNobody, Hangup, Closed, Connect,
       Deliver, WriterFails
  <2>2. QED
    BY <1>0, <2>1, StaysTyped
<1>1. ASSUME NEW e \in Execs, NEW f \in {"streamed", "buffered"}, Admit(c, e, f)
      PROVE  ServerTyped' /\ TasksTyped'
  <2>1. permits' \in Nat /\ serve' \in [Conns -> Execs \cup {0}]
    BY <1>0, <1>1 DEF Admit, ServerTyped
  <2>2. ServerTyped'
    BY <1>0, <1>1, <2>1 DEF Admit, ServerTyped, channelVars
  <2>3. pc' \in [Execs -> Pc] /\ conn' \in [Execs -> Conns \cup {0}]
    BY <1>0, <1>1 DEF Admit, TasksTyped, Pc
  <2>4. form' \in [Execs -> {"none", "streamed", "buffered"}]
    BY <1>0, <1>1 DEF Admit, TasksTyped
  <2>5. TasksTyped'
    BY <1>0, <1>1, <2>3, <2>4 DEF Admit, TasksTyped
  <2>6. QED
    BY <2>2, <2>5
<1>2. ASSUME NEW e \in Execs, Refuse(c, e) PROVE ServerTyped' /\ TasksTyped'
  <2>1. ServerTyped'
    BY <1>0, <1>2 DEF Refuse, ServerTyped, channelVars
  <2>2. QED
    BY <1>0, <1>2, <2>1, StaysTyped DEF Refuse
<1>3. CASE Reply(c)
  <2>1. out' \in [Conns -> 0 .. OutboundCap]
    BY <1>0, <1>3, QueueTyped DEF Reply
  <2>2. ServerTyped'
    BY <1>0, <1>3, <2>1 DEF Reply, ServerTyped
  <2>3. pc' \in [Execs -> Pc]
    BY <1>0, <1>3 DEF Reply, TasksTyped, Pc
  <2>4. TasksTyped'
    BY <1>0, <1>3, <2>3 DEF Reply, TasksTyped
  <2>5. QED
    BY <1>a, <2>2, <2>4 DEF Typing
<1>4. CASE NackNobody(c) \/ Closed(c) \/ Connect(c) \/ Deliver(c) \/ WriterFails(c)
  <2>1. UNCHANGED <<permits, taskVars>>
    BY <1>4 DEF NackNobody, Closed, Connect, Deliver, WriterFails
  <2>2. TasksTyped'
    BY <1>0, <2>1, StaysTyped
  <2>3. ServerTyped'
    <3>1. CASE NackNobody(c)
      BY <1>0, <3>1 DEF NackNobody, ServerTyped, channelVars
    <3>2. CASE Closed(c)
      BY <1>0, <3>2, BoundsAssumption DEF Closed, ServerTyped, BoundsAssumption
    <3>3. CASE Connect(c)
      BY <1>0, <3>3 DEF Connect, ServerTyped
    <3>4. CASE Deliver(c)
      BY <1>0, <3>4, BoundsAssumption DEF Deliver, ServerTyped, serveVars, BoundsAssumption
    <3>5. CASE WriterFails(c)
      BY <1>0, <3>5, BoundsAssumption DEF WriterFails, ServerTyped, serveVars, BoundsAssumption
    <3>6. QED
      BY <1>4, <3>1, <3>2, <3>3, <3>4, <3>5
  <2>4. QED
    BY <1>a, <2>2, <2>3 DEF Typing
<1>5. CASE Hangup(c)
  <2>1. dropping' \in [Execs -> BOOLEAN]
    BY <1>0, <1>5 DEF Hangup, TasksTyped, Holding
  <2>2. permits' \in Nat
    BY <1>0, <1>5 DEF Hangup, ServerTyped
  <2>3. pc' \in [Execs -> Pc]
    BY <1>0, <1>5 DEF Hangup, TasksTyped, Pc
  <2>4. ServerTyped'
    BY <1>0, <1>5, <2>2 DEF Hangup, ServerTyped, channelVars
  <2>5. TasksTyped'
    BY <1>0, <1>5, <2>1, <2>3 DEF Hangup, TasksTyped
  <2>6. QED
    BY <1>a, <2>4, <2>5 DEF Typing
<1>6. QED
  BY <1>a, <1>1, <1>2, <1>3, <1>4, <1>5 DEF ConnStep, WriterStep, Typing

\* Every step of a child keeps the types.
LEMMA ChildTyped ==
    ASSUME Typing, NEW e \in Execs, ChildStep(e)
    PROVE  Typing'
<1>0. ServerTyped /\ TasksTyped /\ ProcsTyped /\ IoTyped
  BY DEF Typing
<1>1. UNCHANGED <<permits, serveVars, channelVars, taskVars>>
  BY DEF ChildStep, Write, Fork, Escape, LeaderExits, RestExits
<1>2. ProcsTyped'
  BY <1>0, BoundsAssumption DEF ChildStep, Write, Fork, Escape, LeaderExits, RestExits,
     ProcsTyped, BoundsAssumption
<1>3. IoTyped'
  BY <1>0, BoundsAssumption DEF ChildStep, Write, Fork, Escape, LeaderExits, RestExits,
     IoTyped, ioVars, BoundsAssumption
<1>4. QED
  BY <1>0, <1>1, <1>2, <1>3, StaysTyped DEF Typing

\* Every step of the readers keeps the types.
LEMMA ReaderTyped ==
    ASSUME Typing, NEW e \in Execs, ReaderStep(e)
    PROVE  Typing'
<1>0. ServerTyped /\ TasksTyped /\ ProcsTyped /\ IoTyped
  BY DEF Typing
<1>1. UNCHANGED <<permits, serveVars, writer, taskVars, procVars>>
  BY DEF ReaderStep, Pump, ReadCapped, Eof, Recv, Forward, ForwarderEnds, LastPoll, channelVars
<1>2. out' \in [Conns -> 0 .. OutboundCap]
  BY <1>0, QueueTyped DEF ReaderStep, Pump, ReadCapped, Eof, Recv, Forward, ForwarderEnds,
     LastPoll, channelVars, ServerTyped
<1>3. ServerTyped'
  BY <1>0, <1>1, <1>2 DEF ServerTyped, serveVars
<1>4. IoTyped'
  <2> USE <1>0, BoundsAssumption DEF IoTyped, BoundsAssumption
  <2>1. CASE Pump(e)
    BY <2>1 DEF Pump
  <2>2. CASE ReadCapped(e)
    <3>1. pipe' \in [Execs -> 0 .. PipeCap]
      BY <2>2 DEF ReadCapped
    <3>2. \/ got' = [got EXCEPT ![e] = @ + 1] /\ lost' = lost
          \/ got' = got /\ lost' = [lost EXCEPT ![e] = TRUE]
      BY <2>2 DEF ReadCapped
    <3>3. got' \in [Execs -> Nat]
      BY <3>2
    <3>4. lost' \in [Execs -> BOOLEAN]
      BY <3>2
    <3>5. UNCHANGED <<pump, funnel, fwd, deaf>>
      BY <2>2 DEF ReadCapped
    <3>6. QED
      BY <3>1, <3>3, <3>4, <3>5
  <2>3. CASE Eof(e) \/ ForwarderEnds(e)
    BY <2>3 DEF Eof, ForwarderEnds
  <2>4. CASE Recv(e)
    <3>1. funnel' \in [Execs -> 0 .. FunnelCap]
      BY <2>4 DEF Recv
    <3>2. /\ lost' \in [Execs -> BOOLEAN]
          /\ fwd' = fwd \/ fwd' = [fwd EXCEPT ![e] = "holding"]
      BY <2>4 DEF Recv
    <3>3. QED
      BY <2>4, <3>1, <3>2 DEF Recv
  <2>5. CASE Forward(e)
    <3>1. /\ got' = got \/ got' = [got EXCEPT ![e] = @ + 1]
          /\ deaf' = deaf \/ deaf' = [deaf EXCEPT ![e] = TRUE]
      BY <2>5 DEF Forward
    <3>2. fwd' = [fwd EXCEPT ![e] = "recv"] \/ fwd' = [fwd EXCEPT ![e] = "sending"]
      BY <2>5 DEF Forward
    <3>3. got' \in [Execs -> Nat]
      BY <3>1
    <3>4. deaf' \in [Execs -> BOOLEAN]
      BY <3>1
    <3>5. UNCHANGED <<pipe, pump, funnel, lost>>
      BY <2>5 DEF Forward
    <3>6. QED
      BY <3>2, <3>3, <3>4, <3>5
  <2>6. CASE LastPoll(e)
    BY <2>6 DEF LastPoll
  <2>7. QED
    BY <2>1, <2>2, <2>3, <2>4, <2>5, <2>6 DEF ReaderStep
<1>5. QED
  BY <1>0, <1>1, <1>3, <1>4, StaysTyped DEF Typing

\* Every step of a task keeps the types.
LEMMA TaskTyped ==
    ASSUME Typing, NEW e \in Execs, TaskStep(e)
    PROVE  Typing'
<1>0. ServerTyped /\ TasksTyped /\ ProcsTyped /\ IoTyped /\ verdict[e] \in Verdict
  BY DEF Typing, TasksTyped
<1>1. ServerTyped'
  <2>1. permits' \in Nat /\ UNCHANGED <<serveVars, writer>>
    BY <1>0 DEF TaskStep, Spawn, SpawnFails, Reaped, Expire, TimeOut, Joined, Stalled, Answer, Drop,
       DropPermit, ServerTyped, channelVars
  <2>2. out' = out \/ (Room(conn[e]) /\ Queue(conn[e]))
    BY DEF TaskStep, Spawn, SpawnFails, Reaped, Expire, TimeOut, Joined, Stalled, Answer, Drop,
       channelVars
  <2>3. out' \in [Conns -> 0 .. OutboundCap]
    BY <1>0, <2>2, QueueTyped DEF ServerTyped
  <2>4. QED
    BY <1>0, <2>1, <2>3 DEF ServerTyped, serveVars
<1>2. TasksTyped'
  <2>1. verdict' \in [Execs -> Verdict]
    <3>1. \/ verdict' = verdict
          \/ \E v \in Verdict : verdict' = [verdict EXCEPT ![e] = v]
      <4>1. CASE Reaped(e)
        BY <1>0, <4>1, VerdictFields DEF Reaped, ExitCode
      <4>2. CASE TimeOut(e)
        BY <4>2 DEF TimeOut, Verdict
      <4>3. CASE Joined(e)
        <5>1. lost[e] \in BOOLEAN
          BY <1>0 DEF IoTyped
        <5>2. [verdict[e] EXCEPT !.truncated = lost[e]] \in Verdict
          BY <1>0, <5>1, VerdictFields
        <5>3. \/ verdict' = verdict
              \/ verdict' = [verdict EXCEPT ![e] = [verdict[e] EXCEPT !.truncated = lost[e]]]
          BY <4>3 DEF Joined
        <5>4. QED
          BY <5>2, <5>3
      <4>4. CASE Stalled(e)
        BY <1>0, <4>4, VerdictFields DEF Stalled, LossTold
      <4>5. CASE Spawn(e) \/ SpawnFails(e) \/ Expire(e) \/ Answer(e) \/ Drop(e)
        BY <4>5 DEF Spawn, SpawnFails, Expire, Answer, Drop
      <4>6. QED
        BY <4>1, <4>2, <4>3, <4>4, <4>5 DEF TaskStep
    <3>2. QED
      BY <1>0, <3>1 DEF TasksTyped
  <2>2. pc' \in [Execs -> Pc] /\ dropping' \in [Execs -> BOOLEAN] /\ UNCHANGED <<conn, form>>
    BY <1>0 DEF TaskStep, Spawn, SpawnFails, Reaped, Expire, TimeOut, Joined, Stalled, Answer, Drop,
       TasksTyped, Pc
  <2>3. QED
    BY <1>0, <2>1, <2>2 DEF TasksTyped
<1>3. ProcsTyped'
  <2>1. made' = made
    BY DEF TaskStep, Spawn, SpawnFails, Reaped, Expire, TimeOut, Joined, Stalled, Answer, Drop, procVars
  <2>2. \/ UNCHANGED <<leader, rest>> \/ KillTree(e) \/ KillLeader(e)
        \/ leader' = [leader EXCEPT ![e] = "live"] /\ rest' = rest
    BY DEF TaskStep, Spawn, SpawnFails, Reaped, Expire, TimeOut, Joined, Stalled, KillHolders,
       Answer, Drop, procVars
  <2>3. QED
    BY <1>0, <2>1, <2>2 DEF ProcsTyped, KillTree, KillLeader
<1>4. IoTyped'
  <2>1. CASE UNCHANGED ioVars
    BY <1>0, <2>1, StaysTyped
  <2>2. CASE Spawn(e)
    BY <1>0, <2>2 DEF Spawn, IoTyped
  <2>3. CASE Stalled(e)
    BY <1>0, <2>3 DEF Stalled, IoTyped
  <2>4. QED
    BY <2>1, <2>2, <2>3 DEF TaskStep, SpawnFails, Reaped, Expire, TimeOut, Joined, Answer, Drop
<1>5. QED
  BY <1>1, <1>2, <1>3, <1>4 DEF Typing

--------------------------------------------------------------------------------
(* The invariant.                                                              *)

LEMMA ExecsInitInv == ExecInit => ExecsInv
<1> SUFFICES ASSUME ExecInit PROVE ExecsInv
  OBVIOUS
<1> USE BoundsAssumption DEF ExecInit, BoundsAssumption
<1>1. Typing
  BY DEF Typing, ServerTyped, TasksTyped, ProcsTyped, IoTyped, Pc, NoVerdict, Verdict
<1>2. ASSUME NEW e \in Execs PROVE ExecInv(e)
  BY DEF ExecInv, Ledger, Unborn, Readers, Found, Settled, Traced, InHand, PipesHeld, NoVerdict
<1>3. QED
  BY <1>1, <1>2 DEF ExecsInv

\* Every step of the server, the children and the readers keeps the invariant.
LEMMA ExecsNextInv == ExecsInv /\ [ExecNext]_execVars => ExecsInv'
<1> SUFFICES ASSUME ExecsInv, [ExecNext]_execVars PROVE ExecsInv'
  OBVIOUS
<1>0. Typing /\ \A e \in Execs : ExecInv(e)
  BY DEF ExecsInv
<1>1. ASSUME NEW c \in Conns, ConnStep(c) \/ WriterStep(c) PROVE ExecsInv'
  BY <1>0, <1>1, ConnTyped, ConnKeeps DEF ExecsInv
<1>2. ASSUME NEW e \in Execs, ChildStep(e) \/ ReaderStep(e) \/ TaskStep(e) PROVE ExecsInv'
  <2>1. Typing'
    BY <1>0, <1>2, ChildTyped, ReaderTyped, TaskTyped
  <2>2. ExecInv(e)'
    BY <1>2, ChildKeeps, ReaderKeeps, WaitKeeps, EndKeeps DEF TaskStep
  <2>3. ASSUME NEW f \in Execs, f # e PROVE ExecInv(f)'
    BY <1>0, <1>2, <2>3, OthersUntouched, SameView
  <2>4. QED
    BY <2>1, <2>2, <2>3 DEF ExecsInv
<1>3. CASE UNCHANGED execVars
  <2>1. Typing'
    BY <1>0, <1>3, StaysTyped DEF execVars, Typing
  <2>2. ASSUME NEW e \in Execs PROVE ExecInv(e)'
    BY <1>0, <1>3, SameView DEF execVars, taskVars, procVars, ioVars, View
  <2>3. QED
    BY <2>1, <2>2 DEF ExecsInv
<1>4. QED
  BY <1>1, <1>2, <1>3 DEF ExecNext

THEOREM Inductive == ExecSafety => []ExecsInv
  BY ExecsInitInv, ExecsNextInv, PTL DEF ExecSafety

\* No answer hides a chunk it lost, an exit code it did not see, or a deadline that passed:
\* for any number of chunks, and however the pumps, the forwarder, the grace and the kill
\* interleave.
THEOREM AnswersAlwaysHonest == ExecSafety => []AnswersAreHonest
<1>1. ExecsInv => AnswersAreHonest
  <2> SUFFICES ASSUME ExecsInv, NEW e \in Execs
               PROVE  /\ pc[e] = "answered" /\ ~verdict[e].truncated =>
                            got[e] = made[e] /\ ~PipesHeld(e)
                      /\ pc[e] \in {"exiting", "answered"} =>
                            /\ verdict[e].code => leader[e] = "ended" /\ ~verdict[e].timed_out
                            /\ verdict[e].timed_out => leader[e] # "live" /\ rest[e] # "group"
    BY DEF AnswersAreHonest, HonestLoss, VerdictHonest
  <2>0. Typing /\ ExecInv(e)
    BY DEF ExecsInv
  <2>1. pc[e] = "answered" /\ ~verdict[e].truncated => got[e] = made[e] /\ ~PipesHeld(e)
    BY <2>0, Types DEF ExecInv, Settled, Ledger, Traced
  <2>2. QED
    BY <2>0, <2>1 DEF ExecInv, Found
<1>2. QED
  BY <1>1, Inductive, PTL

--------------------------------------------------------------------------------
(* The permits.                                                                *)

Holders == {e \in Execs : Holding(e)}

\* The execs that hold a permit are finitely many.
LEMMA HoldersFinite == IsFiniteSet(Holders) /\ Cardinality(Holders) \in Nat
<1>1. Holders \in SUBSET Execs /\ IsFiniteSet(Execs)
  BY ConnsAssumption DEF Holders, ConnsAssumption
<1>2. IsFiniteSet(Holders)
  BY <1>1, FS_Subset
<1>3. QED
  BY <1>2, FS_CardinalityType

\* A step that takes a permit makes one more holder, one that gives it back one less.
LEMMA PermitStep ==
    ASSUME ExecsInv, [ExecNext]_execVars
    PROVE  \/ permits' = permits /\ Holders' = Holders
           \/ \E e \in Execs : /\ e \notin Holders /\ Holders' = Holders \cup {e}
                               /\ permits > 0 /\ permits' = permits - 1
           \/ \E e \in Execs : /\ e \in Holders /\ Holders' = Holders \ {e}
                               /\ permits' = permits + 1
<1>0. pc \in [Execs -> Pc]
  BY DEF ExecsInv, Typing, TasksTyped
<1>1. ASSUME NEW c \in Conns, NEW e \in Execs, NEW f \in {"streamed", "buffered"}, Admit(c, e, f)
      PROVE  /\ e \notin Holders /\ Holders' = Holders \cup {e}
             /\ permits > 0 /\ permits' = permits - 1
  BY <1>0, <1>1 DEF Admit, Holders, Holding
<1>2. ASSUME NEW c \in Conns, Hangup(c), serve[c] # 0
      PROVE  \E e \in Execs : /\ e \in Holders /\ Holders' = Holders \ {e}
                              /\ permits' = permits + 1
  <2>1. PICK e \in Execs : serve[c] = e /\ pc[e] = "admitted"
    BY <1>2 DEF Hangup, Acking
  <2>2. pc' = [pc EXCEPT ![e] = "abandoned"] /\ permits' = permits + 1
    BY <1>2, <2>1 DEF Hangup
  <2>3. QED
    BY <1>0, <2>1, <2>2 DEF Holders, Holding
<1>3. ASSUME NEW c \in Conns, \/ Hangup(c) /\ serve[c] = 0
                              \/ \E e \in Execs : Refuse(c, e)
                              \/ NackNobody(c) \/ Closed(c) \/ Connect(c) \/ WriterStep(c)
      PROVE  permits' = permits /\ Holders' = Holders
  <2>1. permits' = permits /\ pc' = pc
    BY <1>3 DEF Hangup, Refuse, NackNobody, Closed, Connect, WriterStep, Deliver, WriterFails, taskVars
  <2>2. QED
    BY <2>1 DEF Holders, Holding
<1>4. ASSUME NEW c \in Conns, Reply(c) PROVE permits' = permits /\ Holders' = Holders
  <2>1. permits' = permits /\ \A e \in Execs : Holding(e)' = Holding(e)
    BY <1>0, <1>4 DEF Reply, Acking, Holding
  <2>2. QED
    BY <2>1 DEF Holders
<1>5. ASSUME NEW e \in Execs, ChildStep(e) \/ ReaderStep(e)
      PROVE  permits' = permits /\ Holders' = Holders
  <2>1. permits' = permits /\ pc' = pc
    BY <1>5 DEF ChildStep, Write, Fork, Escape, LeaderExits, RestExits, ReaderStep, Pump, ReadCapped,
       Eof, Recv, Forward, ForwarderEnds, LastPoll, taskVars
  <2>2. QED
    BY <2>1 DEF Holders, Holding
<1>6. ASSUME NEW e \in Execs, TaskStep(e)
      PROVE  \/ permits' = permits /\ Holders' = Holders
             \/ e \in Holders /\ Holders' = Holders \ {e} /\ permits' = permits + 1
  <2>1. Holding(e) /\ \A f \in Execs : f # e => pc'[f] = pc[f]
    BY <1>0, <1>6 DEF TaskStep, Spawn, SpawnFails, Reaped, Expire, TimeOut, Joined, Stalled, Answer,
       Drop, Holding
  <2>2. \/ permits' = permits /\ Holding(e)'
        \/ permits' = permits + 1 /\ ~Holding(e)'
    BY <1>0, <1>6 DEF TaskStep, Spawn, SpawnFails, Reaped, Expire, TimeOut, Joined, Stalled, Answer,
       Drop, DropPermit, Holding
  <2>3. \A f \in Execs : f # e => Holding(f)' = Holding(f)
    BY <2>1 DEF Holding
  <2>4. QED
    BY <2>1, <2>2, <2>3 DEF Holders
<1>7. CASE UNCHANGED execVars
  BY <1>7 DEF execVars, taskVars, Holders, Holding
<1>8. QED
  BY <1>1, <1>2, <1>3, <1>4, <1>5, <1>6, <1>7 DEF ExecNext, ConnStep

\* The semaphore's books balance after every step.
LEMMA PermitsConservedStep == ExecsInv /\ PermitsConserved /\ [ExecNext]_execVars => PermitsConserved'
<1> SUFFICES ASSUME ExecsInv, PermitsConserved, [ExecNext]_execVars PROVE PermitsConserved'
  OBVIOUS
<1>1. permits \in Nat /\ permits + Cardinality(Holders) = MaxExecs
  BY DEF ExecsInv, Typing, ServerTyped, PermitsConserved, Holders
<1>2. CASE permits' = permits /\ Holders' = Holders
  BY <1>1, <1>2 DEF PermitsConserved, Holders
<1>3. ASSUME NEW e \in Execs, e \notin Holders, Holders' = Holders \cup {e}, permits' = permits - 1
      PROVE  PermitsConserved'
  <2>1. Cardinality(Holders') = Cardinality(Holders) + 1
    BY <1>3, HoldersFinite, FS_AddElement
  <2>2. permits' + Cardinality(Holders') = MaxExecs
    BY <1>1, <1>3, <2>1, HoldersFinite
  <2>3. QED
    BY <2>2 DEF PermitsConserved, Holders
<1>4. ASSUME NEW e \in Execs, e \in Holders, Holders' = Holders \ {e}, permits' = permits + 1
      PROVE  PermitsConserved'
  <2>1. Cardinality(Holders') = Cardinality(Holders) - 1
    BY <1>4, HoldersFinite, FS_RemoveElement
  <2>2. permits' + Cardinality(Holders') = MaxExecs
    BY <1>1, <1>4, <2>1, HoldersFinite
  <2>3. QED
    BY <2>2 DEF PermitsConserved, Holders
<1>5. QED
  BY <1>2, <1>3, <1>4, PermitStep

\* MAX_EXECS is never exceeded and never eroded: with the types, every permit is free or held by
\* one exec that is not over, and an exec that was answered leaves nobody of its group.
THEOREM ExecsAlwaysSound == ExecSafety => []ExecsSound
<1>1. ExecInit => PermitsConserved
  <2> SUFFICES ASSUME ExecInit PROVE PermitsConserved
    OBVIOUS
  <2>1. {e \in Execs : Holding(e)} = {}
    BY DEF ExecInit, Holding
  <2>2. QED
    BY <2>1, FS_EmptySet, BoundsAssumption DEF ExecInit, PermitsConserved, BoundsAssumption
<1>2. ExecsInv /\ PermitsConserved => TypeOK
  <2> SUFFICES ASSUME ExecsInv, PermitsConserved PROVE TypeOK
    OBVIOUS
  <2>0. ServerTyped /\ TasksTyped /\ ProcsTyped /\ IoTyped
    BY DEF ExecsInv, Typing
  <2>1. permits \in 0 .. MaxExecs
    BY <2>0, HoldersFinite, BoundsAssumption DEF PermitsConserved, Holders, ServerTyped, BoundsAssumption
  <2>2. got \in [Execs -> 0 .. MaxChunks]
    <3>1. ASSUME NEW e \in Execs PROVE got[e] \in 0 .. MaxChunks
      <4>1. /\ pipe[e] \in Nat /\ funnel[e] \in Nat /\ got[e] \in Nat /\ InHand(e) \in Nat
            /\ made[e] \in 0 .. MaxChunks /\ MaxChunks \in Nat
        BY <2>0, Types, BoundsAssumption DEF Typing, ProcsTyped, InHand, BoundsAssumption
      <4>2. pipe[e] + funnel[e] + got[e] + InHand(e) <= made[e]
        BY DEF ExecsInv, ExecInv, Ledger, Traced
      <4>3. \A p, f, g, h, w, x \in Nat : p + f + g + h <= w /\ w <= x => g <= x
        OBVIOUS
      <4>4. QED
        BY <4>1, <4>2, <4>3
    <3>2. QED
      BY <2>0, <3>1 DEF IoTyped
  <2>3. QED
    BY <2>0, <2>1, <2>2 DEF TypeOK, ServerTyped, TasksTyped, ProcsTyped, IoTyped
<1>3. ExecsInv => NoPipeHolderLeft
  BY DEF ExecsInv, ExecInv, Settled, NoPipeHolderLeft
<1>4. QED
  BY <1>1, <1>2, <1>3, PermitsConservedStep, Inductive, PTL DEF ExecSafety, ExecsSound

--------------------------------------------------------------------------------
(* Observations.                                                                *)

\* Only ids that were minted resolve, or were ever shown.
OnlyMinted == \A d \in Ids : live[d] # None \/ meant[d] # None => d <= next_id

\* A snapshot has one line for an id.
OneLineEach(lines) == \A l, m \in lines : l[1] = m[1] => l = m

ObservationsInv ==
    /\ ObservationTypeOK
    /\ RefsKeepIdentity
    /\ OnlyMinted
    /\ OneLineEach(last_lines)
    /\ DiffFaithful

--------------------------------------------------------------------------------
(* The tree, and the ids that one snapshot gives to its nodes.                 *)

\* A tree is a sequence of nodes.
LEMMA TreeShape ==
    ASSUME NEW t \in Trees
    PROVE  /\ Len(t) \in Nat
           /\ t \in [1 .. Len(t) -> Node]
  <1>1. PICK n \in 0 .. MaxNodes : t \in [1 .. n -> Node]
    BY DEF Trees
  <1>2. n \in Nat
    BY ObservationsAssumption
  <1>3. t \in Seq(Node) /\ Len(t) = n
    BY <1>1, <1>2
  <1> QED BY <1>1, <1>2, <1>3

\* Every node has a key and a content.
LEMMA NodeShape ==
    ASSUME tree \in Trees, NEW i \in Nodes
    PROVE  i \in Nat \ {0} /\ tree[i].key \in Keys /\ tree[i].content \in Contents
  BY TreeShape DEF Nodes, Node

FreshUpTo(i) == {j \in 1 .. i : Fresh(j)}

\* A fresh node is counted; whoever comes later counts it too.
LEMMA FreshCounted ==
    ASSUME NEW i \in Nat, NEW j \in Nat, i <= j
    PROVE  /\ Cardinality(FreshUpTo(i)) \in Nat
           /\ Cardinality(FreshUpTo(i)) <= Cardinality(FreshUpTo(j))
           /\ i < j /\ Fresh(j) => Cardinality(FreshUpTo(i)) < Cardinality(FreshUpTo(j))
  <1>1. IsFiniteSet(1 .. j)
    BY FS_Interval
  <1>2. FreshUpTo(j) \subseteq 1 .. j /\ FreshUpTo(i) \subseteq FreshUpTo(j)
    BY DEF FreshUpTo
  <1>3. IsFiniteSet(FreshUpTo(j))
    BY <1>1, <1>2, FS_Subset
  <1>4. /\ IsFiniteSet(FreshUpTo(i))
        /\ Cardinality(FreshUpTo(i)) <= Cardinality(FreshUpTo(j))
    BY <1>2, <1>3, FS_Subset
  <1>5. Cardinality(FreshUpTo(i)) \in Nat /\ Cardinality(FreshUpTo(j)) \in Nat
    BY <1>3, <1>4, FS_CardinalityType
  <1>6. ASSUME i < j, Fresh(j)
        PROVE  Cardinality(FreshUpTo(i)) < Cardinality(FreshUpTo(j))
    <2>1. j \in FreshUpTo(j) /\ j \notin FreshUpTo(i)
      BY <1>6 DEF FreshUpTo
    <2>2. Cardinality(FreshUpTo(i)) # Cardinality(FreshUpTo(j))
      BY <2>1, <1>2, <1>3, FS_Subset
    <2> QED BY <2>2, <1>4, <1>5
  <1> QED BY <1>4, <1>5, <1>6

\* An id is new, and at most the counter's next value, or one that its key has.
LEMMA IdRange ==
    ASSUME ObservationTypeOK, NEW i \in Nodes
    PROVE  /\ Minted(Len(tree)) \in Nat /\ next_id <= Minted(Len(tree))
           /\ IdAt(i) \in 1 .. Minted(Len(tree))
           /\ Fresh(i) => IdAt(i) > next_id
           /\ ~Fresh(i) => IdAt(i) <= next_id /\ IdAt(i) = ids[tree[i].key] /\ IdAt(i) # 0
  <1>1. /\ Len(tree) \in Nat /\ i \in Nat /\ 0 < i /\ i <= Len(tree)
        /\ tree[i].key \in Keys
    BY TreeShape, NodeShape DEF ObservationTypeOK, Nodes
  <1>2. /\ next_id \in Nat
        /\ ids[tree[i].key] \in 0 .. next_id
    BY <1>1, ObservationsAssumption DEF ObservationTypeOK
  <1>3. /\ Cardinality(FreshUpTo(0)) \in Nat /\ Cardinality(FreshUpTo(i)) \in Nat
        /\ Cardinality(FreshUpTo(Len(tree))) \in Nat
        /\ Cardinality(FreshUpTo(i)) <= Cardinality(FreshUpTo(Len(tree)))
        /\ Fresh(i) => Cardinality(FreshUpTo(0)) < Cardinality(FreshUpTo(i))
    BY <1>1, FreshCounted
  <1>4. \A j \in Nat : Minted(j) = next_id + Cardinality(FreshUpTo(j))
    BY DEF Minted, FreshUpTo
  <1>5. CASE Fresh(i)
    <2>1. IdAt(i) = Minted(i)
      BY <1>5 DEF IdAt
    <2> QED BY <2>1, <1>1, <1>2, <1>3, <1>4, <1>5
  <1>6. CASE ~Fresh(i)
    <2>1. IdAt(i) = ids[tree[i].key] /\ ids[tree[i].key] # 0
      BY <1>6 DEF IdAt, Fresh
    <2> QED BY <2>1, <1>1, <1>2, <1>3, <1>4, <1>6
  <1> QED BY <1>5, <1>6

\* No two nodes of a snapshot have one id.
LEMMA IdsApart ==
    ASSUME ObservationTypeOK, RefsKeepIdentity, NEW i \in Nodes, NEW j \in Nodes, i < j
    PROVE  IdAt(i) # IdAt(j)
  <1>1. /\ i \in Nat \ {0} /\ j \in Nat \ {0} /\ tree[i].key \in Keys /\ tree[j].key \in Keys
    BY NodeShape DEF ObservationTypeOK
  <1>2. next_id \in Nat
    BY ObservationsAssumption DEF ObservationTypeOK
  <1>3. CASE Fresh(i) /\ Fresh(j)
    <2>1. Cardinality(FreshUpTo(i)) < Cardinality(FreshUpTo(j))
      BY <1>1, <1>3, FreshCounted
    <2>2. Cardinality(FreshUpTo(i)) \in Nat /\ Cardinality(FreshUpTo(j)) \in Nat
      BY <1>1, FreshCounted
    <2>3. /\ IdAt(i) = next_id + Cardinality(FreshUpTo(i))
          /\ IdAt(j) = next_id + Cardinality(FreshUpTo(j))
      BY <1>3 DEF IdAt, Minted, FreshUpTo
    <2> QED BY <2>1, <2>2, <2>3, <1>2
  <1>4. CASE (Fresh(i) /\ ~Fresh(j)) \/ (~Fresh(i) /\ Fresh(j))
    <2>1. IdAt(i) \in Nat /\ IdAt(j) \in Nat
      BY IdRange
    <2> QED BY <2>1, <1>2, <1>4, IdRange
  <1>5. CASE ~Fresh(i) /\ ~Fresh(j)
    <2>1. tree[i].key # tree[j].key
      BY <1>1, <1>5 DEF Fresh
    <2>2. /\ IdAt(i) = ids[tree[i].key] /\ IdAt(j) = ids[tree[j].key]
          /\ IdAt(i) # 0 /\ IdAt(j) # 0
      BY <1>5, IdRange
    <2> QED BY <2>1, <2>2, <1>1 DEF RefsKeepIdentity
  <1> QED BY <1>3, <1>4, <1>5

\* The same for nodes in any order: two nodes with one id are one node.
LEMMA IdNamesNode ==
    ASSUME ObservationTypeOK, RefsKeepIdentity, NEW i \in Nodes, NEW j \in Nodes,
           IdAt(i) = IdAt(j)
    PROVE  i = j
  <1>1. i \in Nat /\ j \in Nat
    BY NodeShape DEF ObservationTypeOK
  <1> QED BY <1>1, IdsApart

--------------------------------------------------------------------------------
(* One snapshot.                                                               *)

\* The index that a snapshot builds resolves the id of a node to its key, and no other id.
LEMMA LiveOfNode ==
    ASSUME ObservationTypeOK, RefsKeepIdentity, Minted(Len(tree)) <= MaxId
    PROVE  /\ \A i \in Nodes : IdAt(i) \in Ids /\ SnapshotLive[IdAt(i)] = tree[i].key
           /\ \A d \in Ids : SnapshotLive[d] # None <=> \E i \in Nodes : IdAt(i) = d
           /\ SnapshotLive \in [Ids -> Keys \cup {None}]
  <1>1. \A i \in Nodes : IdAt(i) \in Ids
    <2>1. MaxId \in Nat
      BY ObservationsAssumption
    <2> QED BY <2>1, IdRange DEF Ids
  <1>2. ASSUME NEW d \in Ids, NEW i \in Nodes, IdAt(i) = d
        PROVE  SnapshotLive[d] = tree[i].key
    <2>1. (CHOOSE j \in Nodes : IdAt(j) = d) = i
      BY <1>2, IdNamesNode
    <2> QED BY <1>2, <2>1 DEF SnapshotLive
  <1>3. ASSUME NEW d \in Ids, ~ \E i \in Nodes : IdAt(i) = d
        PROVE  SnapshotLive[d] = None
    BY <1>3 DEF SnapshotLive
  <1>4. \A i \in Nodes : tree[i].key \in Keys
    BY NodeShape DEF ObservationTypeOK
  <1>5. SnapshotLive = [d \in Ids |-> SnapshotLive[d]]
    BY DEF SnapshotLive
  <1>6. \A d \in Ids : SnapshotLive[d] \in Keys \cup {None}
    BY <1>2, <1>3, <1>4
  <1> QED BY <1>1, <1>2, <1>3, <1>4, <1>5, <1>6, KeysAssumption

\* The id that a snapshot keeps for a key is one of its nodes' with that key, or 0.
LEMMA IdOfKey ==
    ASSUME ObservationTypeOK, NEW k \in Keys
    PROVE  \/ SnapshotIds[k] = 0
           \/ \E i \in Nodes : tree[i].key = k /\ SnapshotIds[k] = IdAt(i)
  <1>1. CASE \E i \in Nodes : LastWith(k, i)
    <2>1. PICK i \in Nodes : LastWith(k, i) /\ i = CHOOSE j \in Nodes : LastWith(k, j)
      BY <1>1
    <2> QED BY <2>1 DEF SnapshotIds, LastWith
  <1>2. CASE ~ \E i \in Nodes : LastWith(k, i)
    BY <1>2 DEF SnapshotIds, Vanished
  <1> QED BY <1>1, <1>2

\* The ids of the lines are those that resolve.
LEMMA IdsOfLines ==
    ASSUME ObservationTypeOK, RefsKeepIdentity, Minted(Len(tree)) <= MaxId
    PROVE  /\ Lines \subseteq (1 .. Minted(Len(tree))) \X Contents
           /\ IdsOf(Lines) = {d \in Ids : SnapshotLive[d] # None}
  <1>1. \A i \in Nodes : IdAt(i) \in 1 .. Minted(Len(tree)) /\ tree[i].content \in Contents
    BY IdRange, NodeShape DEF ObservationTypeOK
  <1>2. \A d : d \in IdsOf(Lines) <=> \E i \in Nodes : IdAt(i) = d
    <2>1. ASSUME NEW d, d \in IdsOf(Lines)
          PROVE  \E i \in Nodes : IdAt(i) = d
      BY <2>1 DEF IdsOf, Lines
    <2>2. ASSUME NEW i \in Nodes
          PROVE  IdAt(i) \in IdsOf(Lines)
      <3>1. <<IdAt(i), tree[i].content>> \in Lines
        BY DEF Lines
      <3>2. <<IdAt(i), tree[i].content>>[1] = IdAt(i)
        OBVIOUS
      <3> QED BY <3>1, <3>2 DEF IdsOf
    <2> QED BY <2>1, <2>2
  <1>3. \A i \in Nodes : IdAt(i) \in Ids
    BY LiveOfNode
  <1>4. IdsOf(Lines) = {d \in Ids : SnapshotLive[d] # None}
    BY <1>2, <1>3, LiveOfNode
  <1> QED BY <1>1, <1>4 DEF Lines

\* The lines of a snapshot have ids of their own.
LEMMA LinesApart ==
    ASSUME ObservationTypeOK, RefsKeepIdentity
    PROVE  OneLineEach(Lines)
  <1> SUFFICES ASSUME NEW l \in Lines, NEW m \in Lines, l[1] = m[1]
               PROVE  l = m
    BY DEF OneLineEach
  <1>1. PICK i \in Nodes : l = <<IdAt(i), tree[i].content>>
    BY DEF Lines
  <1>2. PICK j \in Nodes : m = <<IdAt(j), tree[j].content>>
    BY DEF Lines
  <1> QED BY <1>1, <1>2, IdNamesNode

\* A client that applies the diff to the lines of the last snapshot has those of this one.
LEMMA DiffApplied ==
    ASSUME ObservationTypeOK, RefsKeepIdentity, OneLineEach(last_lines), view = last_lines
    PROVE  {l \in view : l[1] \notin Removed \cup IdsOf(Updated)} \cup Updated = Lines
  <1>1. \A l, m \in Lines : l[1] = m[1] => l = m
    BY LinesApart DEF OneLineEach
  <1>2. ASSUME NEW l \in view, l[1] \notin Removed, l[1] \notin IdsOf(Updated)
        PROVE  l \in Lines
    <2>1. PICK m \in Lines : m[1] = l[1]
      BY <1>2 DEF Removed, IdsOf
    <2>2. m \in last_lines
      BY <2>1, <1>2 DEF Updated, IdsOf
    <2>3. m = l
      BY <2>1, <2>2 DEF OneLineEach
    <2> QED BY <2>3
  <1>3. ASSUME NEW l \in Lines, l \notin Updated
        PROVE  l \in view /\ l[1] \notin Removed \cup IdsOf(Updated)
    <2>1. l \in view
      BY <1>3 DEF Updated
    <2>2. l[1] \notin Removed
      BY DEF Removed, IdsOf
    <2>3. l[1] \notin IdsOf(Updated)
      BY <1>1, <1>3 DEF Updated, IdsOf
    <2> QED BY <2>1, <2>2, <2>3
  <1>4. Updated \subseteq Lines
    BY DEF Updated
  <1> QED BY <1>2, <1>3, <1>4

--------------------------------------------------------------------------------
(* The invariant is inductive.                                                 *)

LEMMA ObservationsInitInv == Init => ObservationsInv
  <1> SUFFICES ASSUME Init PROVE ObservationsInv
    OBVIOUS
  <1> USE ObservationsAssumption
  <1>1. ObservationTypeOK
    BY DEF Init, ObservationTypeOK
  <1>2. RefsKeepIdentity /\ OnlyMinted /\ OneLineEach(last_lines)
    BY DEF Init, RefsKeepIdentity, OnlyMinted, OneLineEach
  <1>3. DiffFaithful
    BY DEF Init, DiffFaithful, IdsOf
  <1> QED BY <1>1, <1>2, <1>3 DEF ObservationsInv

\* All but the desktop stays as it is.
LEMMA DesktopStep ==
    ASSUME ObservationsInv, tree' \in Trees, looked' \in BOOLEAN, UNCHANGED <<stateVars, clientVars>>
    PROVE  ObservationsInv'
  <1> USE DEF ObservationsInv, stateVars, clientVars
  <1>1. ObservationTypeOK'
    BY DEF ObservationTypeOK
  <1>2. RefsKeepIdentity' /\ OnlyMinted' /\ OneLineEach(last_lines)'
    BY DEF RefsKeepIdentity, OnlyMinted, OneLineEach
  <1>3. DiffFaithful'
    BY DEF DiffFaithful, IdsOf
  <1> QED BY <1>1, <1>2, <1>3

\* A node keeps its key when its content changes.
LEMMA ElementStep ==
    ASSUME ObservationsInv, NEW d \in Ids, ElementVerb(d)
    PROVE  ObservationsInv'
  <1>1. CASE UNCHANGED vars
    BY <1>1, DesktopStep DEF vars, ObservationsInv, ObservationTypeOK
  <1>2. CASE ~UNCHANGED vars
    <2>1. PICK i \in Driven(d), text \in Contents :
            /\ tree' = [tree EXCEPT ![i].content = text]
            /\ looked' = TRUE
            /\ UNCHANGED <<stateVars, clientVars>>
      BY <1>2 DEF ElementVerb
    <2>2. PICK n \in 0 .. MaxNodes : tree \in [1 .. n -> Node]
      BY DEF ObservationsInv, ObservationTypeOK, Trees
    <2>3. tree' \in [1 .. n -> Node]
      BY <2>1, <2>2 DEF Node
    <2> QED BY <2>1, <2>3, DesktopStep DEF Trees
  <1> QED BY <1>1, <1>2

\* The client's knowledge of a ref never changes, and the snapshot agrees with it: an id that
\* was minted before goes to the key it had.
LEMMA ObserveKeepsMeaning ==
    ASSUME ObservationsInv, NEW diff \in BOOLEAN, Observe(diff), NEW d \in Ids, live'[d] # None
    PROVE  live'[d] = meant'[d]
  <1> USE DEF ObservationsInv
  <1>1. /\ live' = SnapshotLive /\ Minted(Len(tree)) <= MaxId
        /\ meant' = [e \in Ids |-> IF meant[e] = None THEN SnapshotLive[e] ELSE meant[e]]
    BY DEF Observe
  <1>2. CASE meant[d] = None
    BY <1>1, <1>2
  <1>3. CASE meant[d] # None
    <2>1. PICK i \in Nodes : IdAt(i) = d /\ SnapshotLive[d] = tree[i].key
      BY <1>1, LiveOfNode
    <2>2. d <= next_id
      BY <1>3 DEF OnlyMinted
    <2>3. next_id \in Nat /\ d \in Nat
      BY ObservationsAssumption DEF ObservationTypeOK, Ids
    <2>4. ~Fresh(i)
      BY <2>1, <2>2, <2>3, IdRange
    <2>5. ids[tree[i].key] = d /\ d # 0
      BY <2>1, <2>4, IdRange
    <2>6. tree[i].key \in Keys
      BY NodeShape DEF ObservationTypeOK
    <2>7. live[d] = tree[i].key
      BY <2>5, <2>6 DEF RefsKeepIdentity
    <2>8. meant[d] = tree[i].key
      BY <2>6, <2>7, KeysAssumption DEF RefsKeepIdentity
    <2> QED BY <1>1, <1>3, <2>1, <2>8
  <1> QED BY <1>2, <1>3

LEMMA ObserveStep ==
    ASSUME ObservationsInv, NEW diff \in BOOLEAN, Observe(diff)
    PROVE  ObservationsInv'
  <1> USE DEF ObservationsInv
  <1>1. /\ revision < MaxRevision /\ revision' = revision + 1
        /\ next_id' = Minted(Len(tree)) /\ Minted(Len(tree)) <= MaxId
        /\ ids' = SnapshotIds /\ live' = SnapshotLive /\ last_lines' = Lines
        /\ meant' = [d \in Ids |-> IF meant[d] = None THEN SnapshotLive[d] ELSE meant[d]]
        /\ looked' = TRUE /\ tree' = tree
    BY DEF Observe, Baseline
  <1>2. view' = Lines
    <2>1. {l \in view : l[1] \notin Removed \cup IdsOf(Updated)} \cup Updated = Lines
      BY DiffApplied DEF DiffFaithful
    <2> QED BY <2>1 DEF Observe
  <1>3. /\ Lines \subseteq (1 .. next_id') \X Contents
        /\ IdsOf(Lines) = {d \in Ids : live'[d] # None}
    BY <1>1, IdsOfLines
  <1>4. next_id' \in 0 .. MaxId /\ next_id \in Nat /\ next_id <= next_id'
    <2>1. CASE Nodes = {}
      <3>1. Len(tree) = 0
        <4>1. Len(tree) \in Nat
          BY TreeShape DEF ObservationTypeOK
        <4>2. ~(1 \in 1 .. Len(tree))
          BY <2>1 DEF Nodes
        <4> QED BY <4>1, <4>2
      <3>2. Minted(0) = next_id + Cardinality(FreshUpTo(0)) /\ FreshUpTo(0) = {}
        BY DEF Minted, FreshUpTo
      <3>3. Minted(0) = next_id + 0
        BY <3>2, FS_EmptySet
      <3> QED BY <1>1, <3>1, <3>3, ObservationsAssumption DEF ObservationTypeOK
    <2>2. CASE Nodes # {}
      <3>1. PICK i \in Nodes : TRUE
        BY <2>2
      <3>2. Minted(Len(tree)) \in Nat /\ next_id <= Minted(Len(tree))
        BY <3>1, IdRange
      <3> QED BY <1>1, <3>2, ObservationsAssumption DEF ObservationTypeOK
    <2> QED BY <2>1, <2>2
  <1>5. ids' \in [Keys -> 0 .. next_id']
    <2>1. ASSUME NEW k \in Keys
          PROVE  SnapshotIds[k] \in 0 .. next_id'
      BY <1>1, <1>4, <2>1, IdOfKey, IdRange
    <2>2. SnapshotIds = [k \in Keys |-> SnapshotIds[k]]
      BY DEF SnapshotIds
    <2> QED BY <1>1, <2>1, <2>2
  <1>6. live' \in [Ids -> Keys \cup {None}] /\ meant' \in [Ids -> Keys \cup {None}]
    <2>1. SnapshotLive \in [Ids -> Keys \cup {None}]
      BY <1>1, LiveOfNode
    <2> QED BY <1>1, <2>1 DEF ObservationTypeOK
  <1>7. ObservationTypeOK'
    BY <1>1, <1>2, <1>3, <1>4, <1>5, <1>6, ObservationsAssumption DEF ObservationTypeOK
  <1>8. RefsKeepIdentity'
    <2>1. ASSUME NEW d \in Ids, live'[d] # None
          PROVE  live'[d] = meant'[d]
      BY <2>1, ObserveKeepsMeaning
    <2>2. ASSUME NEW k \in Keys, ids'[k] # 0
          PROVE  live'[ids'[k]] = k
      <3>1. PICK i \in Nodes : tree[i].key = k /\ SnapshotIds[k] = IdAt(i)
        BY <1>1, <2>2, IdOfKey
      <3> QED BY <1>1, <3>1, LiveOfNode
    <2> QED BY <2>1, <2>2 DEF RefsKeepIdentity
  <1>9. OnlyMinted'
    <2>1. ASSUME NEW d \in Ids, live'[d] # None \/ meant'[d] # None
          PROVE  d <= next_id'
      <3>1. d \in Nat
        BY DEF Ids
      <3>2. CASE meant[d] # None
        BY <1>4, <3>1, <3>2 DEF OnlyMinted
      <3>3. CASE meant[d] = None
        <4>1. SnapshotLive[d] # None
          BY <1>1, <2>1, <3>3
        <4>2. PICK i \in Nodes : IdAt(i) = d
          BY <1>1, <4>1, LiveOfNode
        <4> QED BY <1>1, <4>2, IdRange
      <3> QED BY <3>2, <3>3
    <2> QED BY <2>1 DEF OnlyMinted
  <1>10. OneLineEach(last_lines)'
    <2>1. OneLineEach(Lines)
      BY LinesApart
    <2> QED BY <1>1, <2>1 DEF OneLineEach
  <1>11. DiffFaithful'
    BY <1>1, <1>2, <1>3 DEF DiffFaithful, IdsOf
  <1> QED BY <1>7, <1>8, <1>9, <1>10, <1>11

LEMMA ObservationsNextInv == ObservationsInv /\ [Next]_vars => ObservationsInv'
  <1> SUFFICES ASSUME ObservationsInv, [Next]_vars PROVE ObservationsInv'
    OBVIOUS
  <1>1. ASSUME NEW t \in Trees, Change(t) PROVE ObservationsInv'
    BY <1>1, DesktopStep DEF Change
  <1>2. ASSUME NEW diff \in BOOLEAN, Observe(diff) PROVE ObservationsInv'
    BY <1>2, ObserveStep
  <1>3. CASE UNCHANGED vars
    BY <1>3, DesktopStep DEF vars, ObservationsInv, ObservationTypeOK
  <1>4. ASSUME NEW d \in Ids, ElementVerb(d) PROVE ObservationsInv'
    BY <1>4, ElementStep
  <1> QED BY <1>1, <1>2, <1>3, <1>4 DEF Next, ObserveFails

--------------------------------------------------------------------------------
(* What follows from it.                                                       *)

\* A ref, of whatever age, drives no element but the one it was shown for.
LEMMA RefsFromInv == ObservationsInv => RefsSound
  <1> SUFFICES ASSUME ObservationsInv PROVE RefsSound
    OBVIOUS
  <1> USE DEF ObservationsInv
  <1>1. NeverAnotherElement
    <2> SUFFICES ASSUME NEW d \in Ids, NEW i \in Driven(d)
                 PROVE  tree[i].key = meant[d]
      BY DEF NeverAnotherElement
    <2>1. i \in Nodes /\ tree[i].key = live[d]
      BY DEF Driven
    <2>2. live[d] # None
      BY <2>1, NodeShape, KeysAssumption DEF ObservationTypeOK
    <2> QED BY <2>1, <2>2 DEF RefsKeepIdentity
  <1>2. RefsDistinct
    BY IdNamesNode DEF RefsDistinct
  <1> QED BY <1>1, <1>2 DEF RefsSound

\* The inductive invariant holds always (ObserveState::observe, resolve).
THEOREM ObservationsInductive == ObservationSpec => []ObservationsInv
  <1> QED BY ObservationsInitInv, ObservationsNextInv, PTL DEF ObservationSpec

\* RefsSound: whatever the desktop does with its elements and their bus paths, and however
\* many observations ago a client was given a ref, the ref resolves to the element it was
\* shown for or is refused, and no two nodes of a snapshot share one.
THEOREM RefsAlwaysSound == ObservationSpec => []RefsSound
  <1> QED BY ObservationsInductive, RefsFromInv, PTL

\* DiffFaithful: a client that applies the diffs and full trees it is sent, in whatever mix
\* and for every budget, knows exactly the lines of the latest snapshot (render_diff).
THEOREM DiffAlwaysFaithful == ObservationSpec => []DiffFaithful
  <1>1. ObservationsInv => DiffFaithful
    BY DEF ObservationsInv
  <1> QED BY <1>1, ObservationsInductive, PTL
================================================================================
