------------------------------ MODULE Screencasts ------------------------------
(***************************************************************************)
(* The server side of a screencast in shinkend (src/shinkend/src/main.rs): *)
(* the resume registry that is shared by every connection, the capture     *)
(* tasks that push frames, the permits that bound them, and the part of a  *)
(* connection's read loop (`serve`) that starts, resumes and stops them.   *)
(*                                                                         *)
(* A generation, once drawn from `next_gen`, belongs to at most one        *)
(* capture task, so a task is named by its generation here.  The content   *)
(* of a frame, the codec and the capture itself are left out: a tick       *)
(* either has something new to send or has not.  Aborting a task is what   *)
(* tokio makes of it: a flag the task meets the next time it is polled, so *)
(* a task between two awaits still sends and records.                      *)
(***************************************************************************)
EXTENDS Integers, FiniteSets

CONSTANTS
    Conns,            \* connection slots
    CallIds,          \* call ids clients use; a new stream is named by its call id
    MaxScreencasts,   \* MAX_SCREENCASTS, permits shared by all connections
    RegistryMax,      \* STREAM_REGISTRY_MAX
    OutboundCap,      \* OUTBOUND_CAP, the bound of a connection's writer channel
    ResumeTtl,        \* STREAM_RESUME_TTL, in units of Tick
    MaxGen,           \* bound of the exploration: generations drawn
    MaxSeq            \* bound of the exploration: frames of a stream

ASSUME ConnsAssumption == 0 \notin Conns /\ IsFiniteSet(CallIds)
ASSUME BoundsAssumption ==
    /\ MaxScreencasts \in Nat
    /\ RegistryMax \in Nat \ {0}
    /\ OutboundCap \in Nat \ {0}
    /\ ResumeTtl \in Nat \ {0}
    /\ MaxGen \in Nat
    /\ MaxSeq \in Nat

Gens == 1 .. MaxGen

VARIABLES
    streams,   \* StreamRegistry: call id -> entry, Absent when there is none
    next_gen,  \* RegistryInner::next_gen
    permits,   \* free permits of the screencast semaphore
    task,      \* generation -> the capture task that owns it
    link,      \* connection: "down", "open", or "closing" once its read loop is over
    serve,     \* where the read loop of a connection is
    spec,      \* the ScreencastSpec and the generation a Start is working on
    handle,    \* the JoinHandle `serve` keeps: a generation, 0 for None
    out,       \* messages in the writer channel
    writer     \* whether the writer task still holds the channel's receiver

registryVars == <<streams, next_gen>>
connVars == <<link, serve, spec, handle>>
channelVars == <<out, writer>>
vars == <<registryVars, permits, task, connVars, channelVars>>

--------------------------------------------------------------------------------
(* The registry.  `age` is now - last_seen, counted up to the TTL; `born` is   *)
(* the generation under which the logical stream was registered: it tells two  *)
(* streams that reuse a call id apart, and no step reads it.                   *)

Entry == [next_seq : Nat, age : 0 .. ResumeTtl, generation : 0 .. MaxGen, born : 0 .. MaxGen]

Absent == [next_seq |-> 0, age |-> 0, generation |-> 0, born |-> 0]

Held(r) == {s \in CallIds : r[s].generation # 0}

\* retain(|e| now - e.last_seen < STREAM_RESUME_TTL), on every register and resume
Pruned == [s \in CallIds |-> IF streams[s].age < ResumeTtl THEN streams[s] ELSE Absent]

Stalest(r) == {s \in Held(r) : \A t \in Held(r) : r[t].age <= r[s].age}

\* What a register of `id` removes from r: {id} stands for nothing, it is overwritten.
EvictNothing(r, id) == {id}

Victims(r, id) ==
    IF Cardinality(Held(r)) >= RegistryMax /\ id \notin Held(r) THEN Stalest(r) ELSE {id}

\* StreamRegistry::register_at
RegisterAt(id, next_seq) ==
    LET gen == next_gen + 1 IN
    /\ next_gen' = gen
    /\ \E victim \in Victims(Pruned, id) :
          streams' = [Pruned EXCEPT
              ![victim] = Absent,
              ![id] = [next_seq |-> next_seq, age |-> 0, generation |-> gen, born |-> gen]]

\* StreamRegistry::resume_at, for an id that is still held
ResumeAt(id) ==
    /\ next_gen' = next_gen + 1
    /\ streams' = [Pruned EXCEPT ![id].generation = next_gen + 1]

\* StreamRegistry::record_at: only the owning generation advances the stream
RecordAnyone(id, next_seq, gen) ==
    IF streams[id].generation # 0
    THEN [streams EXCEPT ![id] = [@ EXCEPT !.next_seq = next_seq, !.age = 0]]
    ELSE streams

RecordAt(id, next_seq, gen) ==
    IF streams[id].generation = gen
    THEN [streams EXCEPT ![id] = [@ EXCEPT !.next_seq = next_seq, !.age = 0]]
    ELSE streams

\* StreamRegistry::touch_at
TouchAt(id, gen) ==
    IF streams[id].generation = gen THEN [streams EXCEPT ![id].age = 0] ELSE streams

--------------------------------------------------------------------------------
(* Capture tasks.  "parked": awaiting the tick or the capture, the only places *)
(* where an abort takes effect; "captured": a frame is encoded; "sent": it is  *)
(* in the writer channel and not yet recorded; "gone": finished or dropped.    *)

TaskPc == {"unborn", "parked", "captured", "sent", "gone"}

Task == [pc : TaskPc, conn : Conns \cup {0}, sid : CallIds \cup {0},
         start : Nat, seq : Nat, born : 0 .. MaxGen, aborted : BOOLEAN]

Unborn == [pc |-> "unborn", conn |-> 0, sid |-> 0,
           start |-> 0, seq |-> 0, born |-> 0, aborted |-> FALSE]

Gone == [pc |-> "gone", conn |-> 0, sid |-> 0,
         start |-> 0, seq |-> 0, born |-> 0, aborted |-> FALSE]

Running(g) == task[g].pc \in {"parked", "captured", "sent"}

RunningOn(c) == {g \in Gens : Running(g) /\ task[g].conn = c}

\* The task ends, by itself or dropped at an await: its permit goes back with it.
EndKeepingPermit(g) ==
    /\ task' = [task EXCEPT ![g] = Gone]
    /\ UNCHANGED permits

End(g) ==
    /\ task' = [task EXCEPT ![g] = Gone]
    /\ permits' = permits + 1

\* A tick with nothing new: a clean tick, or a frame equal to the last one sent.
CaptureIdle(g) ==
    /\ task[g].pc = "parked" /\ ~task[g].aborted
    /\ streams' = TouchAt(task[g].sid, g)
    /\ UNCHANGED <<next_gen, permits, task, connVars, channelVars>>

\* A tick that captured something new.
Capture(g) ==
    /\ task[g].pc = "parked" /\ ~task[g].aborted
    /\ task[g].seq < MaxSeq
    /\ streams' = TouchAt(task[g].sid, g)
    /\ task' = [task EXCEPT ![g].pc = "captured"]
    /\ UNCHANGED <<next_gen, permits, connVars, channelVars>>

\* The capture failed, or the blocking pool is gone: break.
CaptureFailed(g) ==
    /\ task[g].pc = "parked" /\ ~task[g].aborted
    /\ End(g)
    /\ UNCHANGED <<registryVars, connVars, channelVars>>

Moved(t, pc) == [[t EXCEPT !.pc = pc] EXCEPT !.seq = @ + 1]

\* out.try_send(msg): seq moves only when the channel took the frame.
RoomIgnored(c) == writer[c]

Room(c) == writer[c] /\ out[c] < OutboundCap

\* TrySendError::Full: the frame is dropped and its number kept for the next one.
DropFrameCounted(g) == task' = [task EXCEPT ![g] = Moved(@, "parked")]

DropFrame(g) == task' = [task EXCEPT ![g].pc = "parked"]

Send(g) ==
    LET c == task[g].conn IN
    /\ task[g].pc = "captured"
    /\ \/ /\ Room(c)
          /\ out' = [out EXCEPT ![c] = @ + 1]
          /\ task' = [task EXCEPT ![g] = Moved(@, "sent")]
          /\ UNCHANGED permits
       \/ /\ writer[c] /\ ~Room(c)
          /\ DropFrame(g)
          /\ UNCHANGED <<out, permits>>
       \/ /\ ~writer[c]
          /\ End(g)
          /\ UNCHANGED out
    /\ UNCHANGED <<registryVars, connVars, writer>>

\* streams.record(&spec.stream_id, seq, generation), after the frame went out
Record(g) ==
    /\ task[g].pc = "sent"
    /\ streams' = RecordAt(task[g].sid, task[g].seq, g)
    /\ task' = [task EXCEPT ![g].pc = "parked"]
    /\ UNCHANGED <<next_gen, permits, connVars, channelVars>>

\* The runtime polls an aborted task at an await and drops it there.
Drop(g) ==
    /\ task[g].pc = "parked" /\ task[g].aborted
    /\ End(g)
    /\ UNCHANGED <<registryVars, connVars, channelVars>>

--------------------------------------------------------------------------------
(* The read loop of a connection.  "ready": waiting for the next message;      *)
(* "resolved": the registry has answered a Start, no permit asked for yet;     *)
(* "spawned": the task runs and its ack is still to be queued; "nack" and      *)
(* "stopped": the refusal, or the ack of a stop, is still to be queued.        *)

ServePc == {"ready", "resolved", "spawned", "nack", "stopped"}

Spec == [gen : 0 .. MaxGen, sid : CallIds \cup {0}, start : Nat, born : 0 .. MaxGen]

NoSpec == [gen |-> 0, sid |-> 0, start |-> 0, born |-> 0]

Alive(c) == link[c] = "open"

\* `if let Some(h) = screencast.take() { h.abort() }`
AbortNothing(c) == task' = task

AbortHandle(c) ==
    task' = IF handle[c] = 0 THEN task ELSE [task EXCEPT ![handle[c]].aborted = TRUE]

\* The spec a Start goes on with, once the registry has answered.
Resolve(c, sid, start, born) ==
    spec' = [spec EXCEPT ![c] =
        [gen |-> next_gen + 1, sid |-> sid, start |-> start, born |-> born]]

\* StreamCtl::Start: abort the previous capture, then ask the registry.
StartFresh(c, id) ==
    /\ Alive(c) /\ serve[c] = "ready" /\ next_gen < MaxGen
    /\ AbortHandle(c)
    /\ RegisterAt(id, 0)
    /\ Resolve(c, id, 0, next_gen + 1)
    /\ handle' = [handle EXCEPT ![c] = 0]
    /\ serve' = [serve EXCEPT ![c] = "resolved"]
    /\ UNCHANGED <<permits, link, channelVars>>

\* A start with resume_stream = old, whose entry is still held.
StartResumed(c, old) ==
    /\ Alive(c) /\ serve[c] = "ready" /\ next_gen < MaxGen
    /\ old \in Held(Pruned)
    /\ AbortHandle(c)
    /\ ResumeAt(old)
    /\ Resolve(c, old, streams[old].next_seq, streams[old].born)
    /\ handle' = [handle EXCEPT ![c] = 0]
    /\ serve' = [serve EXCEPT ![c] = "resolved"]
    /\ UNCHANGED <<permits, link, channelVars>>

\* screencasts.try_acquire_owned(), then spawn_screencast
Acquire(c) ==
    /\ Alive(c) /\ serve[c] = "resolved"
    /\ IF permits > 0
       THEN /\ permits' = permits - 1
            /\ task' = [task EXCEPT ![spec[c].gen] =
                  [pc |-> "parked", conn |-> c, sid |-> spec[c].sid, start |-> spec[c].start,
                   seq |-> spec[c].start, born |-> spec[c].born, aborted |-> FALSE]]
            /\ handle' = [handle EXCEPT ![c] = spec[c].gen]
            /\ serve' = [serve EXCEPT ![c] = "spawned"]
       ELSE /\ serve' = [serve EXCEPT ![c] = "nack"]
            /\ UNCHANGED <<permits, task, handle>>
    /\ spec' = [spec EXCEPT ![c] = NoSpec]
    /\ UNCHANGED <<registryVars, link, channelVars>>

\* StreamCtl::Stop
Stop(c) ==
    /\ Alive(c) /\ serve[c] = "ready"
    /\ AbortHandle(c)
    /\ handle' = [handle EXCEPT ![c] = 0]
    /\ serve' = [serve EXCEPT ![c] = "stopped"]
    /\ UNCHANGED <<registryVars, permits, link, spec, channelVars>>

\* out.send(reply).await: waits for room in the channel.
Reply(c) ==
    /\ Alive(c) /\ serve[c] \in {"spawned", "nack", "stopped"}
    /\ Room(c)
    /\ out' = [out EXCEPT ![c] = @ + 1]
    /\ serve' = [serve EXCEPT ![c] = "ready"]
    /\ UNCHANGED <<registryVars, permits, task, link, spec, handle, writer>>

\* The nack to a client that is gone is dropped, and the loop goes on.
NackNobody(c) ==
    /\ Alive(c) /\ serve[c] = "nack" /\ ~writer[c]
    /\ serve' = [serve EXCEPT ![c] = "ready"]
    /\ UNCHANGED <<registryVars, permits, task, link, spec, handle, channelVars>>

\* A read loop that leaves its capture running.
HangupForgetting(c) ==
    /\ Alive(c) /\ serve[c] = "ready"
    /\ link' = [link EXCEPT ![c] = "closing"]
    /\ handle' = [handle EXCEPT ![c] = 0]
    /\ UNCHANGED <<registryVars, permits, task, serve, spec, channelVars>>

\* The loop ends: the peer is gone or idle too long, or an ack could not be queued.
Hangup(c) ==
    /\ Alive(c)
    /\ serve[c] = "ready" \/ (serve[c] \in {"spawned", "stopped"} /\ ~writer[c])
    /\ link' = [link EXCEPT ![c] = "closing"]
    /\ serve' = [serve EXCEPT ![c] = "ready"]
    /\ AbortHandle(c)
    /\ handle' = [handle EXCEPT ![c] = 0]
    /\ UNCHANGED <<registryVars, permits, spec, channelVars>>

\* serve returns: the writer has drained the channel, or WRITE_TIMEOUT aborts it.
Closed(c) ==
    /\ link[c] = "closing"
    /\ link' = [link EXCEPT ![c] = "down"]
    /\ out' = [out EXCEPT ![c] = 0]
    /\ writer' = [writer EXCEPT ![c] = FALSE]
    /\ UNCHANGED <<registryVars, permits, task, serve, spec, handle>>

\* A slot is taken by a new connection once nothing of the old one is left on it.
Connect(c) ==
    /\ link[c] = "down" /\ RunningOn(c) = {}
    /\ link' = [link EXCEPT ![c] = "open"]
    /\ writer' = [writer EXCEPT ![c] = TRUE]
    /\ UNCHANGED <<registryVars, permits, task, serve, spec, handle, out>>

--------------------------------------------------------------------------------
(* The writer task, and time.                                                  *)

\* One message goes out to the peer.
Deliver(c) ==
    /\ writer[c] /\ out[c] > 0
    /\ out' = [out EXCEPT ![c] = @ - 1]
    /\ UNCHANGED <<registryVars, permits, task, connVars, writer>>

\* A send failed or stalled past WRITE_TIMEOUT: the receiver goes, and the queue.
WriterFails(c) ==
    /\ writer[c] /\ out[c] > 0
    /\ out' = [out EXCEPT ![c] = 0]
    /\ writer' = [writer EXCEPT ![c] = FALSE]
    /\ UNCHANGED <<registryVars, permits, task, connVars>>

Tick ==
    /\ \E s \in Held(streams) : streams[s].age < ResumeTtl
    /\ streams' = [s \in CallIds |->
          IF streams[s].generation # 0 /\ streams[s].age < ResumeTtl
          THEN [streams[s] EXCEPT !.age = @ + 1] ELSE streams[s]]
    /\ UNCHANGED <<next_gen, permits, task, connVars, channelVars>>

--------------------------------------------------------------------------------
Init ==
    /\ streams = [s \in CallIds |-> Absent]
    /\ next_gen = 0
    /\ permits = MaxScreencasts
    /\ task = [g \in Gens |-> Unborn]
    /\ link = [c \in Conns |-> "down"]
    /\ serve = [c \in Conns |-> "ready"]
    /\ spec = [c \in Conns |-> NoSpec]
    /\ handle = [c \in Conns |-> 0]
    /\ out = [c \in Conns |-> 0]
    /\ writer = [c \in Conns |-> FALSE]

TaskStep(g) ==
    CaptureIdle(g) \/ Capture(g) \/ CaptureFailed(g) \/ Send(g) \/ Record(g) \/ Drop(g)

ConnStep(c) ==
    \/ \E id \in CallIds : StartFresh(c, id) \/ StartResumed(c, id)
    \/ Acquire(c) \/ Stop(c) \/ Reply(c) \/ NackNobody(c)
    \/ Hangup(c) \/ Closed(c) \/ Connect(c)

WriterStep(c) == Deliver(c) \/ WriterFails(c)

Next ==
    \/ \E g \in Gens : TaskStep(g)
    \/ \E c \in Conns : ConnStep(c) \/ WriterStep(c)
    \/ Tick

(* tokio polls every task that can run: a task between two awaits goes on, an  *)
(* aborted one is dropped, a writer sends or times out, and a read loop that   *)
(* holds a message finishes with it.                                           *)
Fairness ==
    /\ \A g \in Gens : WF_vars(Send(g)) /\ WF_vars(Record(g)) /\ WF_vars(Drop(g))
    /\ \A c \in Conns : /\ WF_vars(WriterStep(c))
                        /\ WF_vars(Acquire(c)) /\ WF_vars(NackNobody(c))
                        /\ SF_vars(Reply(c))
                        /\ WF_vars(Hangup(c) /\ serve[c] # "ready")

ScreencastSafety == Init /\ [][Next]_vars
ScreencastSpec == ScreencastSafety /\ Fairness

--------------------------------------------------------------------------------
(* Properties.                                                                 *)

\* Every variable has its type.  TLC's and the proofs' common ground.
TypeOK ==
    /\ streams \in [CallIds -> Entry]
    /\ next_gen \in 0 .. MaxGen
    /\ permits \in 0 .. MaxScreencasts
    /\ task \in [Gens -> Task]
    /\ link \in [Conns -> {"down", "open", "closing"}]
    /\ serve \in [Conns -> ServePc]
    /\ spec \in [Conns -> Spec]
    /\ handle \in [Conns -> 0 .. MaxGen]
    /\ out \in [Conns -> 0 .. OutboundCap]
    /\ writer \in [Conns -> BOOLEAN]

\* The generation guard of record_at: whatever aborted or half-open task still runs,
\* the registry knows exactly where the task that owns a stream is, so a resume hands
\* out the number that task would use next (or has just used, before it records it).
OwnerInSync ==
    \A s \in Held(streams), g \in Gens :
        streams[s].generation = g /\ Running(g) =>
            /\ task[g].sid = s
            /\ task[g].born = streams[s].born
            /\ task[g].seq = streams[s].next_seq + (IF task[g].pc = "sent" THEN 1 ELSE 0)

\* The semaphore: a permit is in the pool or with one running task, through aborts,
\* failed captures, closed channels and refused starts.
PermitsConserved ==
    permits + Cardinality({g \in Gens : Running(g)}) = MaxScreencasts

\* A capture nobody has told to stop is the one its connection's JoinHandle names, and
\* that connection is open: none runs on after the read loop has forgotten it.
NoOrphanCapture ==
    \A g \in Gens : Running(g) /\ ~task[g].aborted =>
        Alive(task[g].conn) /\ handle[task[g].conn] = g

\* register_at: a client that mints stream ids cannot grow the registry.
RegistryBounded == Cardinality(Held(streams)) <= RegistryMax

\* The registry implements logical streams with one owner at a time: no resume, prune,
\* eviction or late record moves a position back or by more than one frame.
Logical == INSTANCE LogicalStreams WITH
    Streams <- CallIds,
    owner <- [s \in CallIds |-> streams[s].generation],
    position <- [s \in CallIds |-> streams[s].next_seq],
    latest <- next_gen

LogicalSpec == Logical!Spec

\* A capture that was stopped, superseded or whose connection ended is over some day,
\* and with that its permit is free, however the channel and the peer behave.
SupersededCaptureEnds ==
    \A g \in Gens : []<>(Running(g) => handle[task[g].conn] = g)

\* Every start or stop is answered, at the limit too, or the connection is over:
\* nothing in the read loop waits for somebody else's screencast to end.
StreamRequestAnswered ==
    \A c \in Conns : []<>(serve[c] = "ready")

\* "monotonic frame index within a stream" (schema/aci.schema.json:89): no two tasks
\* of one logical stream send a frame with the same number.  The code does not keep this: a resume
\* may come between the old task's try_send and its record.
NoFrameNumberTwice ==
    \A g, h \in Gens :
        g # h /\ Running(g) /\ Running(h) /\ task[g].born = task[h].born =>
            task[g].start .. (task[g].seq - 1) \cap task[h].start .. (task[h].seq - 1) = {}

\* Both promises of a connection's read loop: what it has stopped ends, and what it is asked is
\* answered.
StreamsEnd == SupersededCaptureEnds /\ StreamRequestAnswered
================================================================================
