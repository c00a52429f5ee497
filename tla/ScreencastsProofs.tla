--------------------------- MODULE ScreencastsProofs ---------------------------
(***************************************************************************)
(* Safety of Screencasts for every number of connections, call ids,        *)
(* permits and registry entries, from one inductive invariant.             *)
(***************************************************************************)
EXTENDS Screencasts, FiniteSetTheorems, TLAPS

\* TypeOK without the upper bound of permits, which needs their conservation.
Typing ==
    /\ streams \in [CallIds -> Entry]
    /\ next_gen \in 0 .. MaxGen
    /\ permits \in Nat
    /\ task \in [Gens -> Task]
    /\ link \in [Conns -> {"down", "open", "closing"}]
    /\ serve \in [Conns -> ServePc]
    /\ spec \in [Conns -> Spec]
    /\ handle \in [Conns -> 0 .. MaxGen]
    /\ out \in [Conns -> 0 .. OutboundCap]
    /\ writer \in [Conns -> BOOLEAN]

\* A generation above next_gen has been given to nobody.
DrawnInOrder ==
    /\ \A g \in Gens : task[g].pc # "unborn" => g <= next_gen
    /\ \A s \in CallIds : streams[s].generation <= next_gen

\* A running task knows its connection and its stream.
RunningTyped == \A g \in Gens : Running(g) => task[g].conn \in Conns /\ task[g].sid \in CallIds

\* Between the registry's answer and the permit, a Start holds a generation no task
\* has and no other Start holds, and the entry it owns, if it is still there, is where
\* the answer said; the previous capture has been told to stop.
Pending(c) == serve[c] = "resolved"

PendingOwns ==
    \A c \in Conns : Pending(c) =>
        /\ spec[c].gen \in Gens /\ spec[c].gen <= next_gen
        /\ spec[c].sid \in CallIds
        /\ task[spec[c].gen].pc = "unborn"
        /\ \A s \in CallIds : streams[s].generation = spec[c].gen =>
              s = spec[c].sid /\ streams[s].next_seq = spec[c].start /\ streams[s].born = spec[c].born

PendingApart ==
    \A c, d \in Conns : Pending(c) /\ Pending(d) /\ c # d => spec[c].gen # spec[d].gen

PendingQuiet == \A c \in Conns : Pending(c) => handle[c] = 0 /\ Alive(c)

IInv ==
    /\ Typing
    /\ DrawnInOrder
    /\ RunningTyped
    /\ PendingOwns
    /\ PendingApart
    /\ PendingQuiet
    /\ OwnerInSync
    /\ NoOrphanCapture

--------------------------------------------------------------------------------
(* What the operators on the registry and on a task keep.                      *)

\* touch_at keeps the entries of the registry well typed.
LEMMA TouchTyped ==
    ASSUME BoundsAssumption, streams \in [CallIds -> Entry], NEW id, NEW g
    PROVE  TouchAt(id, g) \in [CallIds -> Entry]
<1>1. \A s \in CallIds : [streams[s] EXCEPT !.age = 0] \in Entry
  BY DEF Entry, BoundsAssumption
<1>2. QED
  BY <1>1 DEF TouchAt

\* record_at keeps the entries well typed, for any position.
LEMMA RecordTyped ==
    ASSUME BoundsAssumption, streams \in [CallIds -> Entry], NEW id, NEW g, NEW n \in Nat
    PROVE  RecordAt(id, n, g) \in [CallIds -> Entry]
<1> DEFINE at(e) == [e EXCEPT !.next_seq = n]
<1>1. \A e \in Entry : at(e) \in Entry
  BY DEF Entry
<1>2. \A e \in Entry : [e EXCEPT !.age = 0] \in Entry
  BY DEF Entry, BoundsAssumption
<1>3. \A e \in Entry : [at(e) EXCEPT !.age = 0] \in Entry
  <2> HIDE DEF at
  <2> QED BY <1>1, <1>2
<1>4. \A s \in CallIds : [streams[s] EXCEPT !.next_seq = n, !.age = 0] \in Entry
  BY <1>3
<1>5. QED
  BY <1>4 DEF RecordAt

\* Pruning by TTL only removes entries.
LEMMA PrunedTyped ==
    ASSUME BoundsAssumption, streams \in [CallIds -> Entry]
    PROVE  Pruned \in [CallIds -> Entry]
BY DEF Pruned, Absent, Entry, BoundsAssumption

\* register_at stores a well typed entry under the generation it draws.
LEMMA RegisterTyped ==
    ASSUME BoundsAssumption, streams \in [CallIds -> Entry],
           next_gen \in Nat, next_gen < MaxGen, NEW id \in CallIds, RegisterAt(id, 0)
    PROVE  streams' \in [CallIds -> Entry] /\ next_gen' \in 0 .. MaxGen
<1>1. Pruned \in [CallIds -> Entry]
  BY PrunedTyped
<1>2. QED
  BY <1>1 DEF RegisterAt, Absent, Entry, BoundsAssumption

\* resume_at keeps the entries well typed.
LEMMA ResumeTyped ==
    ASSUME BoundsAssumption, streams \in [CallIds -> Entry],
           next_gen \in Nat, next_gen < MaxGen, NEW id \in CallIds, ResumeAt(id)
    PROVE  streams' \in [CallIds -> Entry] /\ next_gen' \in 0 .. MaxGen
<1>1. Pruned \in [CallIds -> Entry]
  BY PrunedTyped
<1>2. QED
  BY <1>1 DEF ResumeAt, Entry, BoundsAssumption

\* Time stops at the TTL: an age stays in its range.
LEMMA TickTyped ==
    ASSUME BoundsAssumption, streams \in [CallIds -> Entry], Tick
    PROVE  streams' \in [CallIds -> Entry]
BY DEF Tick, Entry, BoundsAssumption

\* Aborting a handle sets a flag of a task and nothing else.
LEMMA AbortTyped ==
    ASSUME task \in [Gens -> Task], NEW c, AbortHandle(c)
    PROVE  task' \in [Gens -> Task]
BY DEF AbortHandle, Task

\* A task that ends stays a task.
LEMMA EndTyped ==
    ASSUME BoundsAssumption, task \in [Gens -> Task], permits \in Nat, NEW g, End(g)
    PROVE  task' \in [Gens -> Task] /\ permits' \in Nat
<1>1. Gone \in Task
  BY DEF Gone, Task, TaskPc, BoundsAssumption
<1>2. task' \in [Gens -> Task]
  BY <1>1 DEF End
<1>3. QED
  BY <1>2 DEF End

\* A task that has sent a frame is a task at the next number.
LEMMA MovedTyped ==
    ASSUME NEW t \in Task, NEW pc \in TaskPc
    PROVE  Moved(t, pc) \in Task
<1>1. [t EXCEPT !.pc = pc] \in Task
  BY DEF Task
<1>2. \A u \in Task : [u EXCEPT !.seq = @ + 1] \in Task
  BY DEF Task
<1>3. QED
  BY <1>1, <1>2 DEF Moved

\* A task that moves on is a task.
LEMMA PcTyped ==
    ASSUME task \in [Gens -> Task], NEW g, NEW pc \in TaskPc
    PROVE  [task EXCEPT ![g].pc = pc] \in [Gens -> Task]
BY DEF Task

--------------------------------------------------------------------------------
(* Every step keeps the types.                                                 *)

\* Every step of the registry, the tasks, the read loops and the writers keeps the types.
LEMMA TypingStep == IInv /\ [Next]_vars => Typing'
<1> SUFFICES ASSUME IInv, [Next]_vars PROVE Typing'
  OBVIOUS
<1> USE BoundsAssumption
<1>0. Typing
  BY DEF IInv
<1> USE <1>0
<1>1. ASSUME NEW g \in Gens, CaptureIdle(g) PROVE Typing'
  BY <1>1, TouchTyped DEF CaptureIdle, Typing, connVars, channelVars
<1>2. ASSUME NEW g \in Gens, Capture(g) PROVE Typing'
  BY <1>2, TouchTyped, PcTyped DEF Capture, Typing, connVars, channelVars, TaskPc
<1>3. ASSUME NEW g \in Gens, CaptureFailed(g) PROVE Typing'
  BY <1>3, EndTyped DEF CaptureFailed, Typing, registryVars, connVars, channelVars
<1>4. ASSUME NEW g \in Gens, Send(g) PROVE Typing'
  <2>1. Moved(task[g], "sent") \in Task
    BY MovedTyped DEF Typing, TaskPc
  <2>2. [task EXCEPT ![g].pc = "parked"] \in [Gens -> Task]
    BY PcTyped DEF Typing, TaskPc
  <2>3. task' \in [Gens -> Task] /\ permits' \in Nat
    <3>1. CASE End(g)
      BY <3>1, EndTyped DEF Typing
    <3>2. CASE permits' = permits /\ task' = [task EXCEPT ![g] = Moved(@, "sent")]
      BY <3>2, <2>1 DEF Typing
    <3>3. CASE permits' = permits /\ task' = [task EXCEPT ![g].pc = "parked"]
      BY <3>3, <2>2 DEF Typing
    <3>4. QED
      BY <1>4, <3>1, <3>2, <3>3 DEF Send, DropFrame
  <2>4. out' \in [Conns -> 0 .. OutboundCap]
    BY <1>4 DEF Send, Room, DropFrame, Typing, BoundsAssumption
  <2>5. QED
    BY <1>4, <2>3, <2>4 DEF Send, Room, DropFrame, Typing, registryVars, connVars
<1>5. ASSUME NEW g \in Gens, Record(g) PROVE Typing'
  <2>1. task[g].seq \in Nat
    BY DEF Typing, Task
  <2>2. QED
    BY <1>5, <2>1, RecordTyped, PcTyped DEF Record, Typing, connVars, channelVars, TaskPc
<1>6. ASSUME NEW g \in Gens, Drop(g) PROVE Typing'
  BY <1>6, EndTyped DEF Drop, Typing, registryVars, connVars, channelVars
<1>7. ASSUME NEW c \in Conns, NEW id \in CallIds, StartFresh(c, id) PROVE Typing'
  <2>1. streams' \in [CallIds -> Entry] /\ next_gen' \in 0 .. MaxGen
    BY <1>7, RegisterTyped DEF StartFresh, Typing
  <2>2. task' \in [Gens -> Task]
    BY <1>7, AbortTyped DEF StartFresh, Typing
  <2>3. spec' \in [Conns -> Spec]
    BY <1>7 DEF StartFresh, Typing, Resolve, Spec, BoundsAssumption
  <2>4. handle' \in [Conns -> 0 .. MaxGen] /\ serve' \in [Conns -> ServePc]
    BY <1>7 DEF StartFresh, Typing, ServePc, BoundsAssumption
  <2>5. QED
    BY <1>7, <2>1, <2>2, <2>3, <2>4 DEF StartFresh, Typing, channelVars
<1>8. ASSUME NEW c \in Conns, NEW id \in CallIds, StartResumed(c, id) PROVE Typing'
  <2>1. streams' \in [CallIds -> Entry] /\ next_gen' \in 0 .. MaxGen
    BY <1>8, ResumeTyped DEF StartResumed, Typing
  <2>2. task' \in [Gens -> Task]
    BY <1>8, AbortTyped DEF StartResumed, Typing
  <2>3. spec' \in [Conns -> Spec]
    BY <1>8 DEF StartResumed, Typing, Resolve, Spec, Entry, BoundsAssumption
  <2>4. handle' \in [Conns -> 0 .. MaxGen] /\ serve' \in [Conns -> ServePc]
    BY <1>8 DEF StartResumed, Typing, ServePc, BoundsAssumption
  <2>5. QED
    BY <1>8, <2>1, <2>2, <2>3, <2>4 DEF StartResumed, Typing, channelVars
<1>9. ASSUME NEW c \in Conns, Acquire(c) PROVE Typing'
  <2>5. spec[c] \in Spec
    BY DEF Typing
  <2>6. [pc |-> "parked", conn |-> c, sid |-> spec[c].sid, start |-> spec[c].start,
         seq |-> spec[c].start, born |-> spec[c].born, aborted |-> FALSE] \in Task
    BY <2>5 DEF Spec, Task, TaskPc
  <2>1. task' \in [Gens -> Task]
    BY <1>9, <2>6 DEF Acquire, Typing
  <2>2. spec' \in [Conns -> Spec]
    BY <1>9 DEF Acquire, Typing, NoSpec, Spec, BoundsAssumption
  <2>3. handle' \in [Conns -> 0 .. MaxGen]
    BY <1>9 DEF Acquire, Typing, Spec
  <2>4. QED
    BY <1>9, <2>1, <2>2, <2>3 DEF Acquire, Typing, registryVars, channelVars, ServePc
<1>10. ASSUME NEW c \in Conns, Stop(c) PROVE Typing'
  BY <1>10, AbortTyped DEF Stop, Typing, registryVars, channelVars, ServePc, BoundsAssumption
<1>11. ASSUME NEW c \in Conns, Reply(c) PROVE Typing'
  BY <1>11 DEF Reply, Room, Typing, registryVars, ServePc, BoundsAssumption
<1>12. ASSUME NEW c \in Conns, NackNobody(c) PROVE Typing'
  BY <1>12 DEF NackNobody, Typing, registryVars, channelVars, ServePc
<1>13. ASSUME NEW c \in Conns, Hangup(c) PROVE Typing'
  BY <1>13, AbortTyped DEF Hangup, Typing, registryVars, channelVars, ServePc, BoundsAssumption
<1>14. ASSUME NEW c \in Conns, Closed(c) PROVE Typing'
  BY <1>14 DEF Closed, Typing, registryVars, BoundsAssumption
<1>15. ASSUME NEW c \in Conns, Connect(c) PROVE Typing'
  BY <1>15 DEF Connect, Typing, registryVars
<1>16. ASSUME NEW c \in Conns, WriterStep(c) PROVE Typing'
  <2>1. out' \in [Conns -> 0 .. OutboundCap]
    BY <1>16 DEF WriterStep, Deliver, WriterFails, Typing, BoundsAssumption
  <2>2. QED
    BY <1>16, <2>1 DEF WriterStep, Deliver, WriterFails, Typing, registryVars, connVars
<1>17. CASE Tick
  BY <1>17, TickTyped DEF Tick, Typing, connVars, channelVars
<1>18. CASE UNCHANGED vars
  BY <1>18 DEF vars, Typing, registryVars, connVars, channelVars
<1>19. QED
  BY <1>1, <1>2, <1>3, <1>4, <1>5, <1>6, <1>7, <1>8, <1>9, <1>10, <1>11, <1>12, <1>13,
     <1>14, <1>15, <1>16, <1>17, <1>18 DEF Next, TaskStep, ConnStep

--------------------------------------------------------------------------------
(* What the shared steps change, field by field.                               *)

\* An abort leaves where a task is, what it owns and what it has sent.
LEMMA AbortEffect ==
    ASSUME Typing, NEW c \in Conns, AbortHandle(c), NEW g \in Gens
    PROVE  /\ task'[g].pc = task[g].pc /\ task'[g].conn = task[g].conn
           /\ task'[g].sid = task[g].sid /\ task'[g].seq = task[g].seq
           /\ task'[g].born = task[g].born
           /\ g = handle[c] => task'[g].aborted
           /\ g # handle[c] => task'[g] = task[g]
<1>1. handle[c] \in 0 .. MaxGen /\ task[g] \in Task /\ g \in 1 .. MaxGen /\ MaxGen \in Nat
  BY BoundsAssumption DEF Typing, Gens, BoundsAssumption
<1>2. CASE g = handle[c]
  <2>1. task'[g] = [task[g] EXCEPT !.aborted = TRUE]
    BY <1>1, <1>2 DEF AbortHandle, Typing
  <2>2. QED
    BY <1>1, <1>2, <2>1 DEF Task
<1>3. CASE g # handle[c]
  BY <1>3 DEF AbortHandle, Typing
<1>4. QED
  BY <1>2, <1>3

\* touch_at leaves position, owner and birth of every entry.
LEMMA TouchEffect ==
    ASSUME Typing, NEW id, NEW g, streams' = TouchAt(id, g), NEW s \in CallIds
    PROVE  /\ streams'[s].generation = streams[s].generation
           /\ streams'[s].next_seq = streams[s].next_seq
           /\ streams'[s].born = streams[s].born
BY DEF TouchAt, Typing, Entry

\* record_at moves the position of the entry its generation owns, and no other.
LEMMA RecordEffect ==
    ASSUME Typing, NEW id, NEW g, NEW n \in Nat, streams' = RecordAt(id, n, g), NEW s \in CallIds
    PROVE  /\ streams'[s].generation = streams[s].generation
           /\ streams'[s].born = streams[s].born
           /\ streams'[s].next_seq =
                 IF s = id /\ streams[s].generation = g THEN n ELSE streams[s].next_seq
<1> DEFINE at(e) == [e EXCEPT !.next_seq = n]
<1>1. ASSUME NEW e \in Entry
      PROVE  /\ at(e) \in Entry /\ at(e).generation = e.generation
             /\ at(e).born = e.born /\ at(e).next_seq = n
  BY DEF Entry
<1>2. ASSUME NEW e \in Entry
      PROVE  LET f == [e EXCEPT !.age = 0]
             IN  f.generation = e.generation /\ f.born = e.born /\ f.next_seq = e.next_seq
  BY DEF Entry
<1>3. streams[s] \in Entry
  BY DEF Typing
<1> DEFINE e2 == [streams[s] EXCEPT !.next_seq = n, !.age = 0]
<1>4. e2.generation = streams[s].generation /\ e2.born = streams[s].born /\ e2.next_seq = n
  <2>1. e2 = [at(streams[s]) EXCEPT !.age = 0]
    OBVIOUS
  <2> HIDE DEF at, e2
  <2>2. QED
    BY <1>1, <1>2, <1>3, <2>1
<1>5. streams'[s] = IF s = id /\ streams[s].generation = g THEN e2 ELSE streams[s]
  BY DEF RecordAt, Typing
<1> HIDE DEF e2
<1>6. QED
  BY <1>4, <1>5

\* The owner's record moves its stream to the number it records.
LEMMA OwnRecord ==
    ASSUME Typing, NEW g, NEW n \in Nat, NEW s \in CallIds, streams' = RecordAt(s, n, g),
           streams[s].generation = g
    PROVE  streams'[s].next_seq = n /\ streams'[s].born = streams[s].born
BY RecordEffect

\* After register_at an entry is as it was, dropped, or the new one.
LEMMA RegisterEffect ==
    ASSUME Typing, NEW id \in CallIds, RegisterAt(id, 0), NEW s \in CallIds
    PROVE  \/ s # id /\ streams'[s] = Absent
           \/ s # id /\ streams'[s] = streams[s]
           \/ s = id /\ streams'[s].generation = next_gen + 1 /\ streams'[s].next_seq = 0
<1>1. Pruned \in [CallIds -> Entry] /\ (Pruned[s] = Absent \/ Pruned[s] = streams[s])
  BY PrunedTyped, BoundsAssumption DEF Pruned, Typing
<1>2. PICK victim \in Victims(Pruned, id) :
        streams' = [Pruned EXCEPT ![victim] = Absent,
            ![id] = [next_seq |-> 0, age |-> 0, generation |-> next_gen + 1, born |-> next_gen + 1]]
  BY DEF RegisterAt
<1>3. CASE s = id
  BY <1>1, <1>2, <1>3
<1>4. CASE s # id
  BY <1>1, <1>2, <1>4 DEF Absent
<1>5. QED
  BY <1>3, <1>4

\* After resume_at an entry is as it was, dropped, or the resumed one with a new owner.
LEMMA ResumeEffect ==
    ASSUME Typing, NEW id \in CallIds, id \in Held(Pruned), ResumeAt(id), NEW s \in CallIds
    PROVE  \/ s # id /\ streams'[s] = Absent
           \/ s # id /\ streams'[s] = streams[s]
           \/ /\ s = id /\ streams'[s].generation = next_gen + 1
              /\ streams'[s].next_seq = streams[s].next_seq
              /\ streams'[s].born = streams[s].born
<1>1. Pruned \in [CallIds -> Entry] /\ (Pruned[s] = Absent \/ Pruned[s] = streams[s])
  BY PrunedTyped, BoundsAssumption DEF Pruned, Typing
<1>2. Pruned[id] = streams[id]
  BY DEF Pruned, Held, Absent
<1>3. streams' = [Pruned EXCEPT ![id].generation = next_gen + 1]
  BY DEF ResumeAt
<1>4. CASE s = id
  BY <1>1, <1>2, <1>3, <1>4 DEF Entry
<1>5. CASE s # id
  BY <1>1, <1>3, <1>5 DEF Absent
<1>6. QED
  BY <1>4, <1>5

\* A task after one of its own steps, as far as the registry and the handles care.
LEMMA SendEffect ==
    ASSUME Typing, NEW g \in Gens, Send(g), NEW h \in Gens
    PROVE  /\ h # g => task'[h] = task[h]
           /\ task'[g].pc # "gone" =>
                 /\ task'[g].conn = task[g].conn /\ task'[g].sid = task[g].sid
                 /\ task'[g].born = task[g].born /\ task'[g].aborted = task[g].aborted
                 /\ task'[g].pc \in {"sent", "parked"}
                 /\ task'[g].seq = task[g].seq + (IF task'[g].pc = "sent" THEN 1 ELSE 0)
<1>1. task[g] \in Task
  BY DEF Typing
<1>2. LET u == Moved(task[g], "sent")
      IN  u.conn = task[g].conn /\ u.sid = task[g].sid /\ u.born = task[g].born
          /\ u.aborted = task[g].aborted /\ u.pc = "sent" /\ u.seq = task[g].seq + 1
  <2> DEFINE t1 == [task[g] EXCEPT !.pc = "sent"]
  <2>1. t1 \in Task /\ t1.conn = task[g].conn /\ t1.sid = task[g].sid /\ t1.born = task[g].born
        /\ t1.aborted = task[g].aborted /\ t1.pc = "sent" /\ t1.seq = task[g].seq
    BY <1>1 DEF Task, TaskPc
  <2>2. Moved(task[g], "sent") = [t1 EXCEPT !.seq = @ + 1]
    BY DEF Moved
  <2> HIDE DEF t1
  <2>3. QED
    BY <2>1, <2>2 DEF Task
<1>3. CASE task' = [task EXCEPT ![g] = Moved(@, "sent")]
  BY <1>2, <1>3 DEF Typing
<1>4. CASE task' = [task EXCEPT ![g].pc = "parked"]
  BY <1>1, <1>4 DEF Typing, Task
<1>5. CASE task' = [task EXCEPT ![g] = Gone]
  BY <1>5 DEF Typing, Gone
<1>6. QED
  BY <1>3, <1>4, <1>5 DEF Send, DropFrame, End

\* The end of a task leaves the other tasks alone.
LEMMA EndEffect ==
    ASSUME Typing, NEW g \in Gens, End(g), NEW h \in Gens
    PROVE  task'[h] = IF h = g THEN Gone ELSE task[h]
BY DEF End, Typing

\* A task that moves on leaves the other tasks, and the rest of itself, alone.
LEMMA PcEffect ==
    ASSUME Typing, NEW g \in Gens, NEW pc, task' = [task EXCEPT ![g].pc = pc], NEW h \in Gens
    PROVE  /\ h # g => task'[h] = task[h]
           /\ task'[g].pc = pc
           /\ task'[g].conn = task[g].conn /\ task'[g].sid = task[g].sid
           /\ task'[g].born = task[g].born /\ task'[g].aborted = task[g].aborted
           /\ task'[g].seq = task[g].seq
BY DEF Typing, Task

--------------------------------------------------------------------------------
(* What a step does to the registry, seen from one entry.                      *)

\* An entry is dropped, or kept with its owner, or given to the next generation.
LEMMA EntryStep ==
    ASSUME IInv, [Next]_vars, NEW s \in CallIds
    PROVE  /\ next_gen' \in {next_gen, next_gen + 1}
           /\ \/ streams'[s].generation = 0
              \/ streams'[s].generation = streams[s].generation
              \/ streams'[s].generation = next_gen + 1 /\ next_gen' = next_gen + 1
<1>0. Typing
  BY DEF IInv
<1>1. ASSUME NEW g \in Gens, CaptureIdle(g) \/ Capture(g)
      PROVE  next_gen' = next_gen /\ streams'[s].generation = streams[s].generation
  BY <1>0, <1>1, TouchEffect DEF CaptureIdle, Capture
<1>2. ASSUME NEW g \in Gens, Record(g)
      PROVE  next_gen' = next_gen /\ streams'[s].generation = streams[s].generation
  BY <1>0, <1>2, RecordEffect DEF Record, Typing, Task
<1>3. ASSUME NEW c \in Conns, NEW id \in CallIds, StartFresh(c, id)
      PROVE  /\ next_gen' = next_gen + 1
             /\ \/ streams'[s].generation = 0
                \/ streams'[s].generation = streams[s].generation
                \/ streams'[s].generation = next_gen + 1
  <2>1. next_gen' = next_gen + 1
    BY <1>3 DEF StartFresh, RegisterAt
  <2>2. QED
    BY <1>0, <1>3, <2>1, RegisterEffect DEF StartFresh, Absent
<1>4. ASSUME NEW c \in Conns, NEW id \in CallIds, StartResumed(c, id)
      PROVE  /\ next_gen' = next_gen + 1
             /\ \/ streams'[s].generation = 0
                \/ streams'[s].generation = streams[s].generation
                \/ streams'[s].generation = next_gen + 1
  <2>1. next_gen' = next_gen + 1
    BY <1>4 DEF StartResumed, ResumeAt
  <2>2. QED
    BY <1>0, <1>4, <2>1, ResumeEffect DEF StartResumed, Absent
<1>5. CASE Tick
  BY <1>0, <1>5 DEF Tick, Typing, Entry
<1>6. CASE UNCHANGED registryVars
  BY <1>6 DEF registryVars
<1>7. QED
  BY <1>1, <1>2, <1>3, <1>4, <1>5, <1>6 DEF Next, TaskStep, ConnStep, WriterStep, vars,
     CaptureFailed, Send, Drop, Acquire, Stop, Reply, NackNobody, Hangup, Closed, Connect,
     Deliver, WriterFails

\* Position and birth of an entry that keeps its owner move with that owner's record only.
LEMMA OwnedStep ==
    ASSUME IInv, [Next]_vars, NEW s \in Held(streams), streams'[s].generation = streams[s].generation,
           ~ \E g \in Gens : Record(g) /\ streams[s].generation = g
    PROVE  streams'[s].next_seq = streams[s].next_seq /\ streams'[s].born = streams[s].born
<1>0. Typing /\ s \in CallIds /\ streams[s].generation \in Gens
  BY DEF IInv, Held, Typing, Entry, Gens
<1>a. streams[s].generation # next_gen + 1 /\ streams[s].generation # 0
  BY <1>0 DEF IInv, DrawnInOrder, Held, Typing, Entry
<1>1. ASSUME NEW g \in Gens, CaptureIdle(g) \/ Capture(g) PROVE
        streams'[s].next_seq = streams[s].next_seq /\ streams'[s].born = streams[s].born
  BY <1>0, <1>1, TouchEffect DEF CaptureIdle, Capture
<1>2. ASSUME NEW g \in Gens, Record(g) PROVE
        streams'[s].next_seq = streams[s].next_seq /\ streams'[s].born = streams[s].born
  <2>1. streams[s].generation # g
    BY <1>2
  <2>2. task[g].seq \in Nat
    BY <1>0 DEF Typing, Task
  <2>3. QED
    BY <1>0, <1>2, <2>1, <2>2, RecordEffect DEF Record
<1>3. ASSUME NEW c \in Conns, NEW id \in CallIds, StartFresh(c, id) PROVE
        streams'[s].next_seq = streams[s].next_seq /\ streams'[s].born = streams[s].born
  BY <1>0, <1>a, <1>3, RegisterEffect DEF StartFresh, Absent
<1>4. ASSUME NEW c \in Conns, NEW id \in CallIds, StartResumed(c, id) PROVE
        streams'[s].next_seq = streams[s].next_seq /\ streams'[s].born = streams[s].born
  BY <1>0, <1>a, <1>4, ResumeEffect DEF StartResumed, Absent
<1>5. CASE Tick
  BY <1>0, <1>5 DEF Tick, Typing, Entry
<1>6. CASE UNCHANGED registryVars
  BY <1>6 DEF registryVars
<1>7. QED
  BY <1>1, <1>2, <1>3, <1>4, <1>5, <1>6 DEF Next, TaskStep, ConnStep, WriterStep, vars,
     CaptureFailed, Send, Drop, Acquire, Stop, Reply, NackNobody, Hangup, Closed, Connect,
     Deliver, WriterFails

\* A task that moves on is where it moved to.
LEMMA MovedPc ==
    ASSUME NEW t \in Task, NEW pc \in TaskPc
    PROVE  Moved(t, pc).pc = pc
BY DEF Moved, Task

\* A task whose frame was queued or dropped, and that did not end, goes on with its permit.
LEMMA SendStays ==
    ASSUME Typing, NEW g \in Gens, Send(g), ~End(g)
    PROVE  task'[g].pc \in {"sent", "parked"} /\ permits' = permits
<1>1. task \in [Gens -> Task] /\ task[g] \in Task
  BY DEF Typing
<1>2. permits' = permits
  BY DEF Send
<1>3. CASE task' = [task EXCEPT ![g] = Moved(@, "sent")]
  <2>1. task'[g] = Moved(task[g], "sent")
    BY <1>1, <1>3
  <2>2. Moved(task[g], "sent").pc = "sent"
    BY <1>1, MovedPc DEF TaskPc
  <2>3. QED
    BY <1>2, <2>1, <2>2
<1>4. CASE DropFrame(g)
  <2>1. task'[g] = [task[g] EXCEPT !.pc = "parked"]
    BY <1>1, <1>4 DEF DropFrame
  <2>2. task'[g].pc = "parked"
    BY <1>1, <2>1 DEF Task
  <2>3. QED
    BY <1>2, <2>1, <2>2
<1>5. QED
  BY <1>2, <1>3, <1>4 DEF Send

\* What a step does to one task: its own step, a spawn, or an abort.
LEMMA TaskStepEffect ==
    ASSUME IInv, [Next]_vars, NEW g \in Gens
    PROVE  \/ task'[g] = task[g]
           \/ Running(g) /\ task'[g] = Gone
           \/ /\ Running(g) /\ task'[g].pc \in {"parked", "captured", "sent"}
              /\ task'[g].conn = task[g].conn /\ task'[g].sid = task[g].sid
              /\ task'[g].born = task[g].born /\ task'[g].aborted = task[g].aborted
              /\ \/ Send(g) /\ task'[g].pc \in {"parked", "sent"}
                    /\ task'[g].seq = task[g].seq + (IF task'[g].pc = "sent" THEN 1 ELSE 0)
                 \/ Capture(g) /\ task[g].pc = "parked" /\ task'[g].pc = "captured" /\ task'[g].seq = task[g].seq
                 \/ Record(g) /\ task[g].pc = "sent" /\ task'[g].pc = "parked" /\ task'[g].seq = task[g].seq
           \/ /\ task'[g].pc = task[g].pc /\ task'[g].conn = task[g].conn
              /\ task'[g].sid = task[g].sid /\ task'[g].seq = task[g].seq
              /\ task'[g].born = task[g].born /\ task'[g].aborted
              /\ \E c \in Conns : AbortHandle(c)
           \/ \E c \in Conns :
                 /\ Acquire(c) /\ g = spec[c].gen
                 /\ task'[g] = [pc |-> "parked", conn |-> c, sid |-> spec[c].sid,
                       start |-> spec[c].start, seq |-> spec[c].start, born |-> spec[c].born,
                       aborted |-> FALSE]
<1>0. Typing /\ task[g] \in Task
  BY DEF IInv, Typing
<1>1. ASSUME NEW h \in Gens, End(h), Running(h)
      PROVE  task'[g] = task[g] \/ (Running(g) /\ task'[g] = Gone)
  BY <1>0, <1>1, EndEffect
<1>2. ASSUME NEW h \in Gens, Capture(h), h # g PROVE task'[g] = task[g]
  BY <1>0, <1>2, PcEffect DEF Capture
<1>3. ASSUME NEW h \in Gens, Record(h), h # g PROVE task'[g] = task[g]
  BY <1>0, <1>3, PcEffect DEF Record
<1>4. ASSUME NEW h \in Gens, Send(h), h # g PROVE task'[g] = task[g]
  BY <1>0, <1>4, SendEffect
<1>5. ASSUME NEW c \in Conns, AbortHandle(c)
      PROVE \/ task'[g] = task[g]
            \/ /\ task'[g].pc = task[g].pc /\ task'[g].conn = task[g].conn
               /\ task'[g].sid = task[g].sid /\ task'[g].seq = task[g].seq
               /\ task'[g].born = task[g].born /\ task'[g].aborted
  BY <1>0, <1>5, AbortEffect
<1>6. ASSUME NEW c \in Conns, Acquire(c), task'[g] # task[g]
      PROVE /\ g = spec[c].gen
            /\ task'[g] = [pc |-> "parked", conn |-> c, sid |-> spec[c].sid,
                  start |-> spec[c].start, seq |-> spec[c].start, born |-> spec[c].born,
                  aborted |-> FALSE]
  BY <1>0, <1>6 DEF Acquire, Typing
<1>7. ASSUME Capture(g)
      PROVE /\ Running(g) /\ task[g].pc = "parked" /\ task'[g].pc = "captured"
            /\ task'[g].conn = task[g].conn /\ task'[g].sid = task[g].sid /\ task'[g].seq = task[g].seq
            /\ task'[g].born = task[g].born /\ task'[g].aborted = task[g].aborted
  BY <1>0, <1>7, PcEffect DEF Capture, Running
<1>8. ASSUME Record(g)
      PROVE /\ Running(g) /\ task[g].pc = "sent" /\ task'[g].pc = "parked"
            /\ task'[g].conn = task[g].conn /\ task'[g].sid = task[g].sid /\ task'[g].seq = task[g].seq
            /\ task'[g].born = task[g].born /\ task'[g].aborted = task[g].aborted
  BY <1>0, <1>8, PcEffect DEF Record, Running
<1>9. ASSUME Send(g)
      PROVE \/ Running(g) /\ task'[g] = Gone
            \/ /\ Running(g) /\ task'[g].pc \in {"sent", "parked"}
               /\ task'[g].conn = task[g].conn /\ task'[g].sid = task[g].sid
               /\ task'[g].born = task[g].born /\ task'[g].aborted = task[g].aborted
               /\ task'[g].seq = task[g].seq + (IF task'[g].pc = "sent" THEN 1 ELSE 0)
  <2>1. CASE End(g)
    BY <1>0, <1>9, <2>1, EndEffect DEF Send, Running
  <2>2. CASE ~End(g)
    <3>1. task'[g].pc # "gone"
      BY <1>0, <1>9, <2>2, SendStays
    <3>2. QED
      BY <1>0, <1>9, <3>1, SendEffect DEF Send, Running
  <2>3. QED
    BY <2>1, <2>2
<1>10. CASE \E h \in Gens : TaskStep(h)
  <2>1. PICK h \in Gens : TaskStep(h)
    BY <1>10
  <2>2. CASE h = g
    BY <2>1, <2>2, <1>1, <1>7, <1>8, <1>9 DEF TaskStep, CaptureIdle, CaptureFailed, Drop, Running
  <2>3. CASE h # g
    BY <2>1, <2>3, <1>1, <1>2, <1>3, <1>4 DEF TaskStep, CaptureIdle, CaptureFailed, Drop, Running
  <2>4. QED
    BY <2>2, <2>3
<1>11. CASE \E c \in Conns : ConnStep(c) \/ WriterStep(c)
  <2>1. PICK c \in Conns : ConnStep(c) \/ WriterStep(c)
    BY <1>11
  <2>2. CASE AbortHandle(c)
    BY <2>2, <1>5
  <2>3. CASE Acquire(c)
    BY <2>3, <1>6
  <2>4. CASE task' = task
    BY <2>4
  <2>5. QED
    BY <2>1, <2>2, <2>3, <2>4 DEF ConnStep, WriterStep, StartFresh, StartResumed, Stop,
       Reply, NackNobody, Hangup, Closed, Connect, Deliver, WriterFails
<1>12. CASE Tick \/ UNCHANGED vars
  BY <1>12 DEF Tick, vars
<1>13. QED
  BY <1>10, <1>11, <1>12 DEF Next

--------------------------------------------------------------------------------
(* The parts of the invariant, step by step.                                   *)

\* Generations are drawn upwards.
LEMMA NextGenStep == IInv /\ [Next]_vars => next_gen' \in Nat /\ next_gen <= next_gen'
<1>1. IInv /\ [Next]_vars => next_gen \in Nat
  BY BoundsAssumption DEF IInv, Typing, BoundsAssumption
<1>2. ASSUME IInv, [Next]_vars PROVE next_gen' \in {next_gen, next_gen + 1}
  BY <1>2 DEF Next, TaskStep, ConnStep, WriterStep, vars, registryVars, CaptureIdle, Capture,
     CaptureFailed, Send, Record, Drop, StartFresh, RegisterAt, StartResumed, ResumeAt, Acquire,
     Stop, Reply, NackNobody, Hangup, Closed, Connect, Deliver, WriterFails, Tick
<1>3. QED
  BY <1>1, <1>2

\* No entry and no task carries a generation that was not drawn.
LEMMA DrawnInOrderStep == IInv /\ [Next]_vars => DrawnInOrder'
<1> SUFFICES ASSUME IInv, [Next]_vars PROVE DrawnInOrder'
  OBVIOUS
<1>0. Typing /\ DrawnInOrder /\ PendingOwns /\ next_gen \in Nat /\ next_gen' \in Nat /\ next_gen <= next_gen'
  BY NextGenStep, BoundsAssumption DEF IInv, Typing, BoundsAssumption
<1>1. ASSUME NEW g \in Gens, task'[g].pc # "unborn" PROVE g <= next_gen'
  <2>1. CASE task[g].pc # "unborn"
    BY <1>0, <2>1 DEF DrawnInOrder, Gens
  <2>2. CASE task[g].pc = "unborn"
    <3>1. PICK c \in Conns : Acquire(c) /\ g = spec[c].gen
      BY <1>1, <2>2, TaskStepEffect DEF Running
    <3>2. Pending(c)
      BY <3>1 DEF Acquire, Pending
    <3>3. QED
      BY <1>0, <3>1, <3>2 DEF PendingOwns, Gens
  <2>3. QED
    BY <2>1, <2>2
<1>2. ASSUME NEW s \in CallIds PROVE streams'[s].generation <= next_gen'
  <2>1. streams[s].generation <= next_gen /\ streams[s].generation \in Nat
    BY <1>0 DEF DrawnInOrder, Typing, Entry
  <2>2. QED
    BY <1>0, <2>1, EntryStep
<1>3. QED
  BY <1>1, <1>2 DEF DrawnInOrder

\* A running task has a connection and a stream.
LEMMA RunningTypedStep == IInv /\ [Next]_vars => RunningTyped'
<1> SUFFICES ASSUME IInv, [Next]_vars, NEW g \in Gens, Running(g)'
             PROVE  task'[g].conn \in Conns /\ task'[g].sid \in CallIds
  BY DEF RunningTyped
<1>1. CASE Running(g)
  <2>1. task[g].conn \in Conns /\ task[g].sid \in CallIds /\ task[g].pc # "unborn"
    BY <1>1 DEF IInv, RunningTyped, Running
  <2>2. ASSUME NEW c \in Conns, Acquire(c) PROVE spec[c].sid \in CallIds
    BY <2>2 DEF IInv, PendingOwns, Pending, Acquire
  <2>3. CASE task'[g].conn = task[g].conn /\ task'[g].sid = task[g].sid
    BY <2>1, <2>3
  <2>4. CASE \E c \in Conns : Acquire(c) /\ task'[g].conn = c /\ task'[g].sid = spec[c].sid
    BY <2>2, <2>4
  <2>5. task'[g] # Gone
    BY DEF Running, Gone
  <2>6. CASE \E c \in Conns :
          /\ Acquire(c)
          /\ task'[g] = [pc |-> "parked", conn |-> c, sid |-> spec[c].sid,
                start |-> spec[c].start, seq |-> spec[c].start, born |-> spec[c].born,
                aborted |-> FALSE]
    BY <2>4, <2>6
  <2>7. QED
    BY <2>3, <2>5, <2>6, TaskStepEffect
<1>2. CASE ~Running(g)
  <2>1. PICK c \in Conns :
          /\ Acquire(c)
          /\ task'[g] = [pc |-> "parked", conn |-> c, sid |-> spec[c].sid,
                start |-> spec[c].start, seq |-> spec[c].start, born |-> spec[c].born,
                aborted |-> FALSE]
    BY <1>2, TaskStepEffect DEF Running, Gone
  <2>2. spec[c].sid \in CallIds
    BY <2>1 DEF IInv, PendingOwns, Pending, Acquire
  <2>3. QED
    BY <2>1, <2>2
<1>3. QED
  BY <1>1, <1>2

\* A connection enters "resolved" through a Start only, with the generation it drew.
LEMMA PendingStep ==
    ASSUME IInv, [Next]_vars, NEW c \in Conns, Pending(c)'
    PROVE  \/ /\ Pending(c) /\ spec'[c] = spec[c] /\ handle'[c] = handle[c] /\ link'[c] = link[c]
              /\ ~Acquire(c)
           \/ \E id \in CallIds : StartFresh(c, id) \/ StartResumed(c, id)
<1>0. Typing /\ PendingQuiet
  BY DEF IInv
<1>1. ASSUME NEW d \in Conns, ConnStep(d), d # c
      PROVE  Pending(c) /\ spec'[c] = spec[c] /\ handle'[c] = handle[c] /\ link'[c] = link[c]
             /\ ~Acquire(c)
  <2>1. serve'[c] = serve[c] /\ spec'[c] = spec[c] /\ handle'[c] = handle[c] /\ link'[c] = link[c]
    BY <1>0, <1>1 DEF ConnStep, StartFresh, StartResumed, Acquire, Stop, Reply, NackNobody,
       Hangup, Closed, Connect, Resolve, Typing
  <2>2. ~Acquire(c)
    BY <1>0, <2>1 DEF Acquire, Pending, Typing
  <2>3. QED
    BY <2>1, <2>2 DEF Pending
<1>2. ASSUME ConnStep(c)
      PROVE  \/ /\ Pending(c) /\ spec'[c] = spec[c] /\ handle'[c] = handle[c] /\ link'[c] = link[c]
                /\ ~Acquire(c)
             \/ \E id \in CallIds : StartFresh(c, id) \/ StartResumed(c, id)
  BY <1>0, <1>2 DEF ConnStep, Acquire, Stop, Reply, NackNobody, Hangup, Closed, Connect,
     Alive, Pending, PendingQuiet, Typing
<1>3. ASSUME UNCHANGED connVars
      PROVE  Pending(c) /\ spec'[c] = spec[c] /\ handle'[c] = handle[c] /\ link'[c] = link[c]
             /\ ~Acquire(c)
  BY <1>0, <1>3 DEF connVars, Pending, Acquire, Typing
<1>4. QED
  BY <1>1, <1>2, <1>3 DEF Next, TaskStep, WriterStep, vars, CaptureIdle, Capture,
     CaptureFailed, Send, Record, Drop, Deliver, WriterFails, Tick

\* A Start between the registry and the permit still agrees with its entry, if it owns it.
LEMMA PendingOwnsStep == IInv /\ [Next]_vars => PendingOwns'
<1> SUFFICES ASSUME IInv, [Next]_vars, NEW c \in Conns, Pending(c)'
    PROVE   /\ spec'[c].gen \in Gens /\ spec'[c].gen <= next_gen'
            /\ spec'[c].sid \in CallIds
            /\ task'[spec'[c].gen].pc = "unborn"
            /\ \A s \in CallIds : streams'[s].generation = spec'[c].gen =>
                  s = spec'[c].sid /\ streams'[s].next_seq = spec'[c].start /\ streams'[s].born = spec'[c].born
  BY DEF PendingOwns, Pending
<1>0. Typing /\ DrawnInOrder /\ PendingOwns /\ PendingApart /\ MaxGen \in Nat
      /\ next_gen \in Nat /\ next_gen' \in Nat /\ next_gen <= next_gen'
  BY NextGenStep, BoundsAssumption DEF IInv, Typing, BoundsAssumption
<1>1. CASE Pending(c) /\ spec'[c] = spec[c] /\ ~Acquire(c)
  <2>1. /\ spec[c].gen \in Gens /\ spec[c].gen <= next_gen /\ spec[c].sid \in CallIds
        /\ task[spec[c].gen].pc = "unborn"
    BY <1>0, <1>1 DEF PendingOwns
  <2>2. task'[spec[c].gen].pc = "unborn"
    <3>1. ASSUME NEW d \in Conns, Acquire(d) PROVE spec[c].gen # spec[d].gen
      BY <1>0, <1>1, <3>1 DEF PendingApart, Pending, Acquire
    <3>2. QED
      BY <2>1, <3>1, TaskStepEffect DEF Running
  <2>3. ASSUME NEW s \in CallIds, streams'[s].generation = spec[c].gen
        PROVE  s = spec[c].sid /\ streams'[s].next_seq = spec[c].start /\ streams'[s].born = spec[c].born
    <3>1. streams[s].generation = spec[c].gen /\ spec[c].gen # 0
      BY <1>0, <2>1, <2>3, EntryStep DEF Gens
    <3>2. s \in Held(streams)
      BY <3>1 DEF Held
    <3>3. ~ \E g \in Gens : Record(g) /\ streams[s].generation = g
      BY <2>1, <3>1 DEF Record
    <3>4. streams'[s].next_seq = streams[s].next_seq /\ streams'[s].born = streams[s].born
      BY <2>3, <3>1, <3>2, <3>3, OwnedStep
    <3>5. QED
      BY <1>0, <1>1, <3>1, <3>4 DEF PendingOwns
  <2>4. QED
    BY <1>0, <1>1, <2>1, <2>2, <2>3 DEF Gens
<1>2. ASSUME NEW id \in CallIds, StartFresh(c, id) PROVE
            /\ spec'[c].gen = next_gen + 1 /\ next_gen' = next_gen + 1 /\ next_gen + 1 \in Gens
            /\ spec'[c].sid = id
            /\ AbortHandle(c)
            /\ \A s \in CallIds : streams'[s].generation = next_gen + 1 =>
                  s = id /\ streams'[s].next_seq = spec'[c].start /\ streams'[s].born = spec'[c].born
  <2>1. spec'[c] = [gen |-> next_gen + 1, sid |-> id, start |-> 0, born |-> next_gen + 1]
    BY <1>0, <1>2 DEF StartFresh, Resolve, Typing
  <2>2. ASSUME NEW s \in CallIds, streams'[s].generation = next_gen + 1
        PROVE  s = id /\ streams'[s].next_seq = 0 /\ streams'[s].born = next_gen + 1
    <3>1. streams[s].generation <= next_gen /\ streams[s].generation \in Nat
      BY <1>0 DEF DrawnInOrder, Typing, Entry
    <3>2. s = id
      BY <1>0, <1>2, <2>2, <3>1, RegisterEffect DEF StartFresh, Absent
    <3>3. streams'[id] = [next_seq |-> 0, age |-> 0, generation |-> next_gen + 1, born |-> next_gen + 1]
      BY PrunedTyped, <1>0, <1>2, BoundsAssumption DEF StartFresh, RegisterAt, Typing
    <3>4. QED
      BY <3>2, <3>3
  <2>3. next_gen' = next_gen + 1
    BY <1>2 DEF StartFresh, RegisterAt
  <2>4. next_gen + 1 \in Gens /\ AbortHandle(c)
    BY <1>0, <1>2 DEF StartFresh, Gens
  <2>5. QED
    BY <2>1, <2>2, <2>3, <2>4
<1>3. ASSUME NEW id \in CallIds, StartResumed(c, id) PROVE
            /\ spec'[c].gen = next_gen + 1 /\ next_gen' = next_gen + 1 /\ next_gen + 1 \in Gens
            /\ spec'[c].sid = id
            /\ AbortHandle(c)
            /\ \A s \in CallIds : streams'[s].generation = next_gen + 1 =>
                  s = id /\ streams'[s].next_seq = spec'[c].start /\ streams'[s].born = spec'[c].born
  <2>1. spec'[c] = [gen |-> next_gen + 1, sid |-> id, start |-> streams[id].next_seq, born |-> streams[id].born]
    BY <1>0, <1>3 DEF StartResumed, Resolve, Typing
  <2>2. ASSUME NEW s \in CallIds, streams'[s].generation = next_gen + 1
        PROVE  s = id /\ streams'[s].next_seq = streams[id].next_seq /\ streams'[s].born = streams[id].born
    <3>1. streams[s].generation <= next_gen /\ streams[s].generation \in Nat
      BY <1>0 DEF DrawnInOrder, Typing, Entry
    <3>2. QED
      BY <1>0, <1>3, <2>2, <3>1, ResumeEffect DEF StartResumed, Absent
  <2>3. QED
    BY <1>0, <1>3, <2>1, <2>2 DEF StartResumed, ResumeAt, Gens
<1>4. ASSUME AbortHandle(c), next_gen + 1 \in Gens PROVE task'[next_gen + 1].pc = "unborn"
  <2>1. task[next_gen + 1].pc = "unborn"
    BY <1>0, <1>4 DEF DrawnInOrder
  <2>2. QED
    BY <1>0, <1>4, <2>1, AbortEffect
<1>5. QED
  BY <1>0, <1>1, <1>2, <1>3, <1>4, PendingStep

\* Two Starts in progress work on two generations.
LEMMA PendingApartStep == IInv /\ [Next]_vars => PendingApart'
<1> SUFFICES ASSUME IInv, [Next]_vars, NEW c \in Conns, NEW d \in Conns, Pending(c)', Pending(d)', c # d
             PROVE  spec'[c].gen # spec'[d].gen
  BY DEF PendingApart, Pending
<1>0. Typing /\ PendingOwns /\ PendingApart /\ next_gen \in Nat
  BY BoundsAssumption DEF IInv, Typing, BoundsAssumption
<1>1. ASSUME NEW e \in Conns, \E id \in CallIds : StartFresh(e, id) \/ StartResumed(e, id)
      PROVE  /\ spec'[e].gen = next_gen + 1
             /\ \A f \in Conns : f # e => serve'[f] = serve[f] /\ spec'[f] = spec[f]
  BY <1>0, <1>1 DEF StartFresh, StartResumed, Resolve, Typing
<1>2. ASSUME NEW e \in Conns, Pending(e) PROVE spec[e].gen \in Nat /\ spec[e].gen <= next_gen
  BY <1>0, <1>2 DEF PendingOwns, Gens
<1>3. CASE \E id \in CallIds : StartFresh(c, id) \/ StartResumed(c, id)
  BY <1>0, <1>1, <1>2, <1>3 DEF Pending
<1>4. CASE \E id \in CallIds : StartFresh(d, id) \/ StartResumed(d, id)
  BY <1>0, <1>1, <1>2, <1>4 DEF Pending
<1>5. CASE Pending(c) /\ Pending(d) /\ spec'[c] = spec[c] /\ spec'[d] = spec[d]
  BY <1>0, <1>5 DEF PendingApart
<1>6. QED
  BY <1>3, <1>4, <1>5, PendingStep

\* A Start in progress holds no handle, and its connection is open.
LEMMA PendingQuietStep == IInv /\ [Next]_vars => PendingQuiet'
<1> SUFFICES ASSUME IInv, [Next]_vars, NEW c \in Conns, Pending(c)'
             PROVE  handle'[c] = 0 /\ link'[c] = "open"
  BY DEF PendingQuiet, Pending, Alive
<1>0. Typing /\ PendingQuiet
  BY DEF IInv
<1>1. CASE \E id \in CallIds : StartFresh(c, id) \/ StartResumed(c, id)
  BY <1>0, <1>1 DEF StartFresh, StartResumed, Alive, Typing
<1>2. CASE Pending(c) /\ handle'[c] = handle[c] /\ link'[c] = link[c]
  BY <1>0, <1>2 DEF PendingQuiet, Alive
<1>3. QED
  BY <1>1, <1>2, PendingStep

\* No step parts the registry from the owner of a stream.
LEMMA OwnerInSyncStep == IInv /\ [Next]_vars => OwnerInSync'
<1> SUFFICES ASSUME IInv, [Next]_vars, NEW s \in CallIds, streams'[s].generation # 0,
                    NEW g \in Gens, g = streams'[s].generation, Running(g)'
             PROVE  /\ task'[g].sid = s
                    /\ task'[g].born = streams'[s].born
                    /\ task'[g].seq = streams'[s].next_seq + (IF task'[g].pc = "sent" THEN 1 ELSE 0)
  BY DEF OwnerInSync, Held
<1>0. /\ Typing /\ DrawnInOrder /\ PendingOwns /\ OwnerInSync /\ g \in Nat /\ next_gen \in Nat
      /\ task[g] \in Task /\ streams[s] \in Entry
  BY BoundsAssumption DEF IInv, Typing, Gens, BoundsAssumption
<1>1. streams[s].generation = g
  <2>1. CASE g = next_gen + 1
    <3>1. task[g].pc = "unborn"
      BY <1>0, <2>1 DEF DrawnInOrder
    <3>2. PICK c \in Conns : Acquire(c) /\ g = spec[c].gen
      BY <3>1, TaskStepEffect DEF Running
    <3>3. g <= next_gen
      BY <1>0, <3>2 DEF PendingOwns, Pending, Acquire
    <3>4. QED
      BY <1>0, <2>1, <3>3
  <2>2. QED
    BY <2>1, EntryStep
<1>2. s \in Held(streams)
  BY <1>1 DEF Held
<1>3. ASSUME ~Record(g)
      PROVE  streams'[s].next_seq = streams[s].next_seq /\ streams'[s].born = streams[s].born
  BY <1>1, <1>2, <1>3, OwnedStep
<1>4. ASSUME Running(g)
      PROVE  /\ task[g].sid = s /\ task[g].born = streams[s].born
             /\ task[g].seq = streams[s].next_seq + (IF task[g].pc = "sent" THEN 1 ELSE 0)
  BY <1>0, <1>1, <1>2, <1>4 DEF OwnerInSync
<1>5. CASE Record(g)
  <2>1. Running(g) /\ task[g].seq \in Nat
    BY <1>0, <1>5 DEF Record, Running, Task
  <2>2. /\ task'[g].pc = "parked" /\ task'[g].sid = task[g].sid
        /\ task'[g].born = task[g].born /\ task'[g].seq = task[g].seq
    BY <1>0, <1>5, PcEffect DEF Record
  <2>a. task[g].sid = s
    BY <1>4, <2>1
  <2>b. streams' = RecordAt(s, task[g].seq, g)
    BY <1>5, <2>a DEF Record
  <2>c. Typing /\ task[g].seq \in Nat /\ streams[s].generation = g
    BY <1>0, <1>1, <2>1
  <2>3. streams'[s].next_seq = task[g].seq /\ streams'[s].born = streams[s].born
    BY <2>b, <2>c, OwnRecord
  <2>4. /\ task'[g].sid = s /\ task'[g].born = streams'[s].born
        /\ task'[g].pc # "sent" /\ task'[g].seq = streams'[s].next_seq + 0
    BY <1>4, <2>1, <2>2, <2>3
  <2>5. QED
    BY <2>4
<1>6. CASE ~Record(g)
  <2>1. CASE task'[g] = task[g]
    BY <1>3, <1>4, <1>6, <2>1 DEF Running
  <2>2. CASE Running(g) /\ task'[g] = Gone
    BY <2>2 DEF Running, Gone
  <2>3. CASE /\ Running(g) /\ task'[g].sid = task[g].sid /\ task'[g].born = task[g].born
             /\ Send(g) /\ task'[g].pc \in {"parked", "sent"}
             /\ task'[g].seq = task[g].seq + (IF task'[g].pc = "sent" THEN 1 ELSE 0)
    <3>1. task[g].pc = "captured"
      BY <2>3 DEF Send, DropFrame
    <3>2. task[g].seq = streams[s].next_seq /\ streams[s].next_seq \in Nat
      BY <1>0, <1>4, <2>3, <3>1 DEF Entry
    <3>3. QED
      BY <1>3, <1>4, <1>6, <2>3, <3>2
  <2>4. CASE /\ Running(g) /\ task'[g].sid = task[g].sid /\ task'[g].born = task[g].born
             /\ task[g].pc = "parked" /\ task'[g].pc = "captured" /\ task'[g].seq = task[g].seq
    BY <1>3, <1>4, <1>6, <2>4
  <2>5. CASE /\ task'[g].pc = task[g].pc /\ task'[g].sid = task[g].sid
             /\ task'[g].seq = task[g].seq /\ task'[g].born = task[g].born
    BY <1>3, <1>4, <1>6, <2>5 DEF Running
  <2>6. ASSUME NEW c \in Conns, Acquire(c), g = spec[c].gen,
               task'[g] = [pc |-> "parked", conn |-> c, sid |-> spec[c].sid,
                  start |-> spec[c].start, seq |-> spec[c].start, born |-> spec[c].born,
                  aborted |-> FALSE]
        PROVE  /\ task'[g].sid = s
               /\ task'[g].born = streams'[s].born
               /\ task'[g].seq = streams'[s].next_seq + (IF task'[g].pc = "sent" THEN 1 ELSE 0)
    <3>1. s = spec[c].sid /\ streams[s].next_seq = spec[c].start /\ streams[s].born = spec[c].born
      BY <1>0, <1>1, <2>6 DEF PendingOwns, Pending, Acquire
    <3>2. streams[s].next_seq \in Nat
      BY <1>0 DEF Entry
    <3>3. QED
      BY <1>3, <1>6, <2>6, <3>1, <3>2
  <2>7. QED
    BY <1>6, <2>1, <2>2, <2>3, <2>4, <2>5, <2>6, TaskStepEffect
<1>7. QED
  BY <1>5, <1>6

\* A handle or a link changes with an abort of what the handle named, or when there is
\* nothing to abort.
LEMMA HandleStep ==
    ASSUME IInv, [Next]_vars, NEW c \in Conns, Alive(c), handle[c] # 0
    PROVE  (handle'[c] = handle[c] /\ link'[c] = link[c]) \/ AbortHandle(c)
<1>0. Typing /\ PendingQuiet
  BY DEF IInv
<1>1. ASSUME NEW d \in Conns, d # c, ConnStep(d) PROVE handle'[c] = handle[c] /\ link'[c] = link[c]
  BY <1>0, <1>1 DEF ConnStep, StartFresh, StartResumed, Acquire, Stop, Reply, NackNobody,
     Hangup, Closed, Connect, Typing
<1>2. CASE ConnStep(c)
  BY <1>0, <1>2 DEF ConnStep, StartFresh, StartResumed, Acquire, Stop, Reply, NackNobody,
     Hangup, Closed, Connect, Typing, PendingQuiet, Pending, Alive
<1>3. CASE UNCHANGED connVars
  BY <1>3 DEF connVars
<1>4. QED
  BY <1>1, <1>2, <1>3 DEF Next, TaskStep, WriterStep, vars, CaptureIdle, Capture,
     CaptureFailed, Send, Record, Drop, Deliver, WriterFails, Tick

\* No step leaves a capture running that nobody can stop.
LEMMA NoOrphanCaptureStep == IInv /\ [Next]_vars => NoOrphanCapture'
<1> SUFFICES ASSUME IInv, [Next]_vars, NEW g \in Gens, Running(g)', ~task'[g].aborted
             PROVE  link'[task'[g].conn] = "open" /\ handle'[task'[g].conn] = g
  BY DEF NoOrphanCapture, Alive
<1>0. Typing /\ RunningTyped /\ NoOrphanCapture /\ g # 0
  BY DEF IInv, Gens
<1>1. CASE Running(g) /\ ~task[g].aborted /\ task'[g].conn = task[g].conn
  <2>1. task[g].conn \in Conns /\ Alive(task[g].conn) /\ handle[task[g].conn] = g
    BY <1>0, <1>1 DEF RunningTyped, NoOrphanCapture
  <2>2. ~AbortHandle(task[g].conn)
    BY <1>0, <2>1, AbortEffect
  <2>3. QED
    BY <1>0, <1>1, <2>1, <2>2, HandleStep DEF Alive
<1>2. ASSUME NEW c \in Conns, Acquire(c), g = spec[c].gen, task'[g].conn = c, Running(g)', ~Running(g)
      PROVE  link'[c] = "open" /\ handle'[c] = g
  BY <1>0, <1>2 DEF Acquire, Alive, Typing, Running
<1>3. ASSUME NEW c \in Conns, Acquire(c) PROVE ~Running(spec[c].gen)
  BY <1>3 DEF IInv, PendingOwns, Pending, Acquire, Running
<1>4. ASSUME NEW c \in Conns, Acquire(c), g = spec[c].gen,
             task'[g] = [pc |-> "parked", conn |-> c, sid |-> spec[c].sid,
                 start |-> spec[c].start, seq |-> spec[c].start, born |-> spec[c].born,
                 aborted |-> FALSE]
      PROVE  link'[task'[g].conn] = "open" /\ handle'[task'[g].conn] = g
  BY <1>2, <1>3, <1>4
<1>5. CASE task'[g] = task[g]
  BY <1>1, <1>5 DEF Running
<1>6. CASE Running(g) /\ task'[g] = Gone
  BY <1>6 DEF Running, Gone
<1>7. CASE Running(g) /\ task'[g].conn = task[g].conn /\ task'[g].aborted = task[g].aborted
  BY <1>1, <1>7
<1>8. QED
  BY <1>4, <1>5, <1>6, <1>7, TaskStepEffect

--------------------------------------------------------------------------------
(* The theorems.                                                               *)

\* The inductive invariant holds when shinkend starts.
LEMMA InitIInv == Init => IInv
<1> SUFFICES ASSUME Init PROVE IInv
  OBVIOUS
<1> USE BoundsAssumption DEF Init
<1>1. Typing
  <2>1. Absent \in Entry /\ Unborn \in Task /\ NoSpec \in Spec
    BY DEF Absent, Entry, Unborn, Task, TaskPc, NoSpec, Spec, BoundsAssumption
  <2>2. QED
    BY <2>1 DEF Typing, ServePc, BoundsAssumption
<1>2. /\ \A g \in Gens : task[g].pc = "unborn"
      /\ \A s \in CallIds : streams[s].generation = 0
  BY DEF Unborn, Absent
<1>3. QED
  BY <1>1, <1>2 DEF IInv, DrawnInOrder, RunningTyped, PendingOwns, PendingApart, PendingQuiet,
     OwnerInSync, NoOrphanCapture, Running, Pending, Held

\* The inductive invariant: types, generations drawn in order, the Starts in progress, and
\* the two properties that need them.
THEOREM Inductive == ScreencastSafety => []IInv
<1>1. Init => IInv
  BY InitIInv
<1>2. IInv /\ [Next]_vars => IInv'
  BY TypingStep, DrawnInOrderStep, RunningTypedStep, PendingOwnsStep, PendingApartStep,
     PendingQuietStep, OwnerInSyncStep, NoOrphanCaptureStep DEF IInv
<1>3. QED
  BY <1>1, <1>2, PTL DEF ScreencastSafety

\* Whatever zombie tasks do, the registry is where the owning task is.
THEOREM OwnerAlwaysInSync == ScreencastSafety => []OwnerInSync
<1>1. IInv => OwnerInSync
  BY DEF IInv
<1>2. QED
  BY <1>1, Inductive, PTL

\* No capture outlives the handle that could stop it, unless it was told to stop.
THEOREM NeverAnOrphan == ScreencastSafety => []NoOrphanCapture
<1>1. IInv => NoOrphanCapture
  BY DEF IInv
<1>2. QED
  BY <1>1, Inductive, PTL

--------------------------------------------------------------------------------
(* Permits.                                                                    *)

RunningTasks == {g \in Gens : Running(g)}

\* There are finitely many running tasks, so they can be counted.
LEMMA RunningTasksFinite == IsFiniteSet(RunningTasks) /\ Cardinality(RunningTasks) \in Nat
<1>1. IsFiniteSet(Gens)
  BY FS_Interval, BoundsAssumption DEF Gens, BoundsAssumption
<1>2. IsFiniteSet(RunningTasks)
  BY <1>1, FS_Subset DEF RunningTasks
<1>3. QED
  BY <1>2, FS_CardinalityType

\* A permit changes hands with a task that ends or one that is spawned.
LEMMA PermitStep ==
    ASSUME IInv, [Next]_vars
    PROVE  \/ permits' = permits /\ RunningTasks' = RunningTasks
           \/ \E g \in RunningTasks :
                 permits' = permits + 1 /\ RunningTasks' = RunningTasks \ {g}
           \/ \E g \in Gens \ RunningTasks :
                 permits' = permits - 1 /\ RunningTasks' = RunningTasks \cup {g}
<1>0. Typing
  BY DEF IInv
<1>1. ASSUME NEW g \in Gens, End(g), Running(g)
      PROVE  permits' = permits + 1 /\ g \in RunningTasks /\ RunningTasks' = RunningTasks \ {g}
  <2>1. permits' = permits + 1
    BY <1>1 DEF End
  <2>2. \A h \in Gens : task'[h] = IF h = g THEN Gone ELSE task[h]
    BY <1>0, <1>1, EndEffect
  <2>3. \A h \in Gens : Running(h)' <=> Running(h) /\ h # g
    BY <2>2 DEF Running, Gone
  <2>4. QED
    BY <1>1, <2>1, <2>3 DEF RunningTasks
<1>2. ASSUME NEW g \in Gens, Send(g), ~End(g)
      PROVE  permits' = permits /\ RunningTasks' = RunningTasks
  <2>1. task'[g].pc \in {"sent", "parked"} /\ permits' = permits
    BY <1>0, <1>2, SendStays
  <2>2. QED
    BY <1>0, <1>2, <2>1, SendEffect DEF RunningTasks, Running, Send
<1>3. ASSUME NEW g \in Gens, Capture(g) \/ Record(g)
      PROVE  permits' = permits /\ RunningTasks' = RunningTasks
  BY <1>0, <1>3, PcEffect DEF Capture, Record, RunningTasks, Running
<1>4. ASSUME NEW c \in Conns, AbortHandle(c), permits' = permits
      PROVE  RunningTasks' = RunningTasks
  BY <1>0, <1>4, AbortEffect DEF RunningTasks, Running
<1>5. ASSUME NEW c \in Conns, Acquire(c)
      PROVE  \/ permits' = permits /\ RunningTasks' = RunningTasks
             \/ /\ spec[c].gen \in Gens \ RunningTasks
                /\ permits' = permits - 1 /\ RunningTasks' = RunningTasks \cup {spec[c].gen}
  <2>1. spec[c].gen \in Gens \ RunningTasks
    BY <1>5 DEF IInv, PendingOwns, Pending, Acquire, RunningTasks, Running
  <2>2. CASE permits > 0
    <3>1. /\ \A g \in Gens : g # spec[c].gen => task'[g] = task[g]
          /\ task'[spec[c].gen].pc = "parked"
      BY <1>0, <1>5, <2>1, <2>2 DEF Acquire, Typing
    <3>2. permits' = permits - 1
      BY <1>5, <2>2 DEF Acquire
    <3>3. QED
      BY <2>1, <3>1, <3>2 DEF RunningTasks, Running
  <2>3. CASE ~(permits > 0)
    BY <1>5, <2>3 DEF Acquire, RunningTasks, Running
  <2>4. QED
    BY <2>2, <2>3
<1>6. ASSUME UNCHANGED <<permits, task>> PROVE RunningTasks' = RunningTasks
  BY <1>6 DEF RunningTasks, Running
<1>7. CASE \E g \in Gens : TaskStep(g)
  <2>1. PICK g \in Gens : TaskStep(g)
    BY <1>7
  <2>2. CASE CaptureFailed(g) \/ Drop(g)
    BY <2>2, <1>1 DEF CaptureFailed, Drop, Running
  <2>3. CASE Send(g)
    BY <2>3, <1>1, <1>2 DEF Send, Running
  <2>4. CASE CaptureIdle(g)
    BY <2>4, <1>6 DEF CaptureIdle
  <2>5. QED
    BY <2>1, <2>2, <2>3, <2>4, <1>3 DEF TaskStep
<1>8. CASE \E c \in Conns : ConnStep(c) \/ WriterStep(c)
  <2>1. PICK c \in Conns : ConnStep(c) \/ WriterStep(c)
    BY <1>8
  <2>2. CASE AbortHandle(c) /\ permits' = permits
    BY <2>2, <1>4
  <2>3. CASE UNCHANGED <<permits, task>>
    BY <2>3, <1>6
  <2>4. QED
    BY <2>1, <2>2, <2>3, <1>5 DEF ConnStep, WriterStep, StartFresh, StartResumed, Stop,
       Reply, NackNobody, Hangup, Closed, Connect, Deliver, WriterFails
<1>9. CASE Tick \/ UNCHANGED vars
  BY <1>9, <1>6 DEF Tick, vars
<1>10. QED
  BY <1>7, <1>8, <1>9 DEF Next

\* Every step keeps permits plus running tasks constant.
LEMMA PermitsConservedStep == IInv /\ PermitsConserved /\ [Next]_vars => PermitsConserved'
<1> SUFFICES ASSUME IInv, [Next]_vars, permits + Cardinality(RunningTasks) = MaxScreencasts
             PROVE  permits' + Cardinality(RunningTasks') = MaxScreencasts
  BY DEF PermitsConserved, RunningTasks
<1>0. permits \in Nat /\ IsFiniteSet(RunningTasks) /\ Cardinality(RunningTasks) \in Nat
  BY RunningTasksFinite DEF IInv, Typing
<1>1. ASSUME NEW g \in RunningTasks, permits' = permits + 1, RunningTasks' = RunningTasks \ {g}
      PROVE  permits' + Cardinality(RunningTasks') = MaxScreencasts
  <2>1. Cardinality(RunningTasks \ {g}) = Cardinality(RunningTasks) - 1
    BY <1>0, FS_RemoveElement
  <2>2. QED
    BY <1>0, <1>1, <2>1
<1>2. ASSUME NEW g \in Gens \ RunningTasks, permits' = permits - 1,
             RunningTasks' = RunningTasks \cup {g}
      PROVE  permits' + Cardinality(RunningTasks') = MaxScreencasts
  <2>1. Cardinality(RunningTasks \cup {g}) = Cardinality(RunningTasks) + 1
    BY <1>0, FS_AddElement
  <2>2. QED
    BY <1>0, <1>2, <2>1
<1>3. QED
  BY <1>1, <1>2, PermitStep

\* Permits are neither lost nor made, whatever ends a task.
THEOREM PermitsAlwaysConserved == ScreencastSafety => []PermitsConserved
<1>1. Init => PermitsConserved
  <2>1. ASSUME Init PROVE RunningTasks = {}
    BY <2>1 DEF Init, RunningTasks, Running, Unborn
  <2>2. QED
    BY <2>1, FS_EmptySet, BoundsAssumption DEF Init, PermitsConserved, RunningTasks, BoundsAssumption
<1>2. QED
  BY <1>1, PermitsConservedStep, Inductive, PTL DEF ScreencastSafety

\* Every variable of the server side of a screencast has its type, in every reachable state.
THEOREM TypeCorrect == ScreencastSafety => []TypeOK
<1>1. IInv /\ PermitsConserved => TypeOK
  <2> SUFFICES ASSUME IInv, PermitsConserved PROVE TypeOK
    OBVIOUS
  <2>1. permits <= MaxScreencasts
    BY RunningTasksFinite, BoundsAssumption
    DEF PermitsConserved, RunningTasks, IInv, Typing, BoundsAssumption
  <2>2. QED
    BY <2>1, BoundsAssumption DEF IInv, Typing, TypeOK, BoundsAssumption
<1>2. QED
  BY <1>1, Inductive, PermitsAlwaysConserved, PTL

--------------------------------------------------------------------------------
(* The registry never outgrows its bound.                                      *)

\* The held ids are a finite set of ids, so are they after pruning.
LEMMA HeldFinite ==
    ASSUME NEW r
    PROVE  Held(r) \subseteq CallIds /\ IsFiniteSet(Held(r)) /\ Cardinality(Held(r)) \in Nat
<1>1. Held(r) \in SUBSET CallIds /\ IsFiniteSet(CallIds)
  BY ConnsAssumption DEF Held, ConnsAssumption
<1>2. IsFiniteSet(Held(r))
  BY <1>1, FS_Subset
<1>3. QED
  BY <1>1, <1>2, FS_CardinalityType

\* A part of a registry is no larger than the registry.
LEMMA FewerHeld ==
    ASSUME NEW r, NEW S, S \subseteq Held(r)
    PROVE  IsFiniteSet(S) /\ Cardinality(S) \in Nat /\ Cardinality(S) <= Cardinality(Held(r))
<1>1. IsFiniteSet(Held(r)) /\ S \in SUBSET Held(r)
  BY HeldFinite
<1>2. IsFiniteSet(S) /\ Cardinality(S) <= Cardinality(Held(r))
  BY <1>1, FS_Subset
<1>3. QED
  BY <1>2, FS_CardinalityType

\* Pruning takes ids away and adds none.
LEMMA PrunedHeld == Held(Pruned) \subseteq Held(streams)
BY DEF Held, Pruned, Absent

\* register_at makes room before it adds the new id.
LEMMA RegisterBounded ==
    ASSUME Typing, RegistryBounded, NEW id \in CallIds, RegisterAt(id, 0)
    PROVE  RegistryBounded'
<1> USE BoundsAssumption DEF BoundsAssumption
<1>1. Pruned \in [CallIds -> Entry]
  BY PrunedTyped DEF Typing
<1>2. PICK victim \in Victims(Pruned, id) :
        streams' = [Pruned EXCEPT ![victim] = Absent,
            ![id] = [next_seq |-> 0, age |-> 0, generation |-> next_gen + 1, born |-> next_gen + 1]]
  BY DEF RegisterAt
<1>3. Held(streams') \subseteq (Held(Pruned) \ {victim}) \cup {id}
  <2> SUFFICES ASSUME NEW s \in Held(streams'), s # id
               PROVE  s \in Held(Pruned) \ {victim}
    OBVIOUS
  <2>1. s \in CallIds /\ streams'[s].generation # 0
    BY DEF Held
  <2>2. streams'[s] = IF s = victim THEN Absent ELSE Pruned[s]
    BY <1>1, <1>2, <2>1
  <2>3. QED
    BY <2>1, <2>2 DEF Held, Absent
<1>4. Cardinality(Held(Pruned)) <= RegistryMax
  BY PrunedHeld, FewerHeld, HeldFinite DEF RegistryBounded
<1> DEFINE kept == Held(Pruned) \ {victim}
<1>5. /\ IsFiniteSet(kept) /\ Cardinality(kept) \in Nat
      /\ Cardinality(kept) = IF victim \in Held(Pruned)
                             THEN Cardinality(Held(Pruned)) - 1 ELSE Cardinality(Held(Pruned))
  BY HeldFinite, FS_RemoveElement, FS_CardinalityType
<1>6. /\ IsFiniteSet(kept \cup {id})
      /\ Cardinality(kept \cup {id}) = IF id \in kept THEN Cardinality(kept) ELSE Cardinality(kept) + 1
  BY <1>5, FS_AddElement
<1>7. Cardinality(kept \cup {id}) <= RegistryMax
  <2>0. Cardinality(Held(Pruned)) \in Nat
    BY HeldFinite
  <2>1. CASE id \in Held(Pruned)
    <3>1. victim = id
      BY <2>1 DEF Victims
    <3>2. QED
      BY <2>0, <2>1, <3>1, <1>4, <1>5, <1>6
  <2>2. CASE id \notin Held(Pruned) /\ Cardinality(Held(Pruned)) >= RegistryMax
    <3>1. victim \in Held(Pruned)
      BY <2>2 DEF Victims, Stalest
    <3>2. QED
      BY <2>0, <3>1, <1>4, <1>5, <1>6
  <2>3. CASE Cardinality(Held(Pruned)) < RegistryMax
    BY <2>0, <2>3, <1>5, <1>6
  <2>4. QED
    BY <2>0, <2>1, <2>2, <2>3
<1>8. Cardinality(Held(streams')) <= Cardinality(kept \cup {id})
  <2>1. Held(streams') \in SUBSET (kept \cup {id})
    BY <1>3
  <2>2. QED
    BY <2>1, <1>6, FS_Subset
<1>9. Cardinality(Held(streams')) \in Nat /\ Cardinality(kept \cup {id}) \in Nat
  BY <1>6, HeldFinite, FS_CardinalityType
<1>10. QED
  <2> HIDE DEF kept
  <2> QED BY <1>7, <1>8, <1>9 DEF RegistryBounded

\* A step that names no new id leaves the registry within its bound.
LEMMA NoNewId ==
    ASSUME RegistryBounded,
           \A s \in CallIds : streams'[s].generation # 0 => streams[s].generation # 0
    PROVE  RegistryBounded'
<1>1. Held(streams') \subseteq Held(streams)
  BY DEF Held
<1>2. /\ Cardinality(Held(streams')) <= Cardinality(Held(streams))
      /\ Cardinality(Held(streams')) \in Nat /\ Cardinality(Held(streams)) \in Nat
  BY <1>1, FewerHeld, HeldFinite
<1>3. QED
  BY <1>2, BoundsAssumption DEF RegistryBounded, BoundsAssumption

\* Only register_at adds an id; it keeps the bound, and every other step shrinks.
LEMMA RegistryBoundedStep == IInv /\ RegistryBounded /\ [Next]_vars => RegistryBounded'
<1> SUFFICES ASSUME IInv, RegistryBounded, [Next]_vars PROVE RegistryBounded'
  OBVIOUS
<1>0. Typing
  BY DEF IInv
<1>1. ASSUME NEW g \in Gens, CaptureIdle(g) \/ Capture(g) PROVE RegistryBounded'
  <2>1. streams' = TouchAt(task[g].sid, g)
    BY <1>1 DEF CaptureIdle, Capture
  <2>2. \A s \in CallIds : streams'[s].generation = streams[s].generation
    BY <1>0, <2>1, TouchEffect
  <2>3. QED
    BY <2>2, NoNewId
<1>2. ASSUME NEW g \in Gens, Record(g) PROVE RegistryBounded'
  <2>1. task[g].seq \in Nat /\ streams' = RecordAt(task[g].sid, task[g].seq, g)
    BY <1>0, <1>2 DEF Record, Typing, Task
  <2>2. \A s \in CallIds : streams'[s].generation = streams[s].generation
    BY <1>0, <2>1, RecordEffect
  <2>3. QED
    BY <2>2, NoNewId
<1>3. ASSUME NEW c \in Conns, NEW id \in CallIds, StartFresh(c, id) PROVE RegistryBounded'
  BY <1>0, <1>3, RegisterBounded DEF StartFresh
<1>4. ASSUME NEW c \in Conns, NEW id \in CallIds, StartResumed(c, id) PROVE RegistryBounded'
  <2>1. ResumeAt(id) /\ id \in Held(Pruned)
    BY <1>4 DEF StartResumed
  <2>2. streams[id].generation # 0
    BY <2>1, PrunedHeld DEF Held
  <2>3. \A s \in CallIds : streams'[s].generation # 0 => streams[s].generation # 0
    BY <1>0, <2>1, <2>2, ResumeEffect DEF Absent
  <2>4. QED
    BY <2>3, NoNewId
<1>5. CASE Tick
  <2>1. \A s \in CallIds : streams'[s].generation = streams[s].generation
    BY <1>0, <1>5 DEF Tick, Typing, Entry
  <2>2. QED
    BY <2>1, NoNewId
<1>6. CASE UNCHANGED registryVars
  BY <1>6 DEF registryVars, RegistryBounded
<1>7. QED
  BY <1>1, <1>2, <1>3, <1>4, <1>5, <1>6 DEF Next, TaskStep, ConnStep, WriterStep, vars,
     CaptureFailed, Send, Drop, Acquire, Stop, Reply, NackNobody, Hangup, Closed, Connect,
     Deliver, WriterFails

\* A client that mints stream ids never grows the registry past STREAM_REGISTRY_MAX,
\* whatever the eviction finds stale and however many connections register.
THEOREM RegistryAlwaysBounded == ScreencastSafety => []RegistryBounded
<1>1. Init => RegistryBounded
  <2> SUFFICES ASSUME Init PROVE RegistryBounded
    OBVIOUS
  <2>1. Held(streams) = {}
    BY DEF Init, Held, Absent
  <2>2. QED
    BY <2>1, FS_EmptySet, BoundsAssumption DEF RegistryBounded, BoundsAssumption
<1>2. QED
  BY <1>1, RegistryBoundedStep, Inductive, PTL DEF ScreencastSafety

--------------------------------------------------------------------------------
(* The registry implements LogicalStreams.                                     *)

\* A step that keeps owners, positions and next_gen is a stutter of the abstract registry.
LEMMA SameEntries ==
    ASSUME \A s \in CallIds : /\ streams'[s].generation = streams[s].generation
                              /\ streams'[s].next_seq = streams[s].next_seq,
           next_gen' = next_gen
    PROVE  UNCHANGED Logical!vars
BY DEF Logical!vars

\* Drawing a generation for one entry, while others are pruned or evicted, is an abstract Give.
LEMMA GivenAway ==
    ASSUME Typing, NEW id \in CallIds, NEW p, next_gen' = next_gen + 1,
           streams'[id].generation = next_gen + 1, streams'[id].next_seq = p,
           \A s \in CallIds : s # id => streams'[s] = Absent \/ streams'[s] = streams[s]
    PROVE  \E lost \in SUBSET CallIds : Logical!Give(id, p, lost)
<1>0. PICK lost \in SUBSET CallIds : lost = {s \in CallIds : s # id /\ streams'[s] = Absent}
  OBVIOUS
<1>1. \A s \in CallIds : streams'[s].generation =
        IF s = id THEN next_gen + 1 ELSE IF s \in lost THEN 0 ELSE streams[s].generation
  BY <1>0 DEF Absent
<1>2. \A s \in CallIds : streams'[s].next_seq =
        IF s = id THEN p ELSE IF s \in lost THEN 0 ELSE streams[s].next_seq
  BY <1>0 DEF Absent
<1>3. id \notin lost
  BY <1>0
<1>4. [s \in CallIds |-> streams'[s].generation] = [t \in CallIds |->
        IF t = id THEN next_gen + 1 ELSE IF t \in lost THEN 0
        ELSE [s \in CallIds |-> streams[s].generation][t]]
  BY <1>1
<1>5. [s \in CallIds |-> streams'[s].next_seq] = [t \in CallIds |->
        IF t = id THEN p ELSE IF t \in lost THEN 0
        ELSE [s \in CallIds |-> streams[s].next_seq][t]]
  BY <1>2
<1>6. Logical!Give(id, p, lost)
  BY <1>3, <1>4, <1>5 DEF Logical!Give
<1>7. QED
  BY <1>6

\* Every step of the detailed system is a step of the abstract one or a stutter.
LEMMA LogicalStep == IInv /\ [Next]_vars => [Logical!Next]_(Logical!vars)
<1> SUFFICES ASSUME IInv, [Next]_vars PROVE Logical!Next \/ UNCHANGED Logical!vars
  OBVIOUS
<1>0. Typing
  BY DEF IInv
<1>1. ASSUME NEW g \in Gens, CaptureIdle(g) \/ Capture(g) PROVE UNCHANGED Logical!vars
  <2>1. next_gen' = next_gen /\ streams' = TouchAt(task[g].sid, g)
    BY <1>1 DEF CaptureIdle, Capture
  <2>2. QED
    BY <1>0, <2>1, TouchEffect, SameEntries
<1>2. ASSUME NEW g \in Gens, Record(g) PROVE Logical!Next \/ UNCHANGED Logical!vars
  <2>0. PICK s \in CallIds : s = task[g].sid
    BY <1>2 DEF Record, Running, IInv, RunningTyped
  <2>1. /\ task[g].seq \in Nat /\ next_gen' = next_gen /\ g # 0
        /\ streams' = RecordAt(s, task[g].seq, g) /\ Running(g) /\ task[g].pc = "sent"
    BY <1>0, <1>2, <2>0 DEF Record, Running, Typing, Task, Gens
  <2>2. CASE streams[s].generation = g
    <3>1. task[g].seq = streams[s].next_seq + 1
      BY <2>0, <2>1, <2>2 DEF IInv, OwnerInSync, Held
    <3>2. /\ \A t \in CallIds : streams'[t].generation = streams[t].generation
          /\ \A t \in CallIds : streams'[t].next_seq =
                IF t = s THEN streams[t].next_seq + 1 ELSE streams[t].next_seq
      BY <1>0, <2>1, <2>2, <3>1, RecordEffect
    <3>3. [t \in CallIds |-> streams'[t].next_seq] =
            [[t \in CallIds |-> streams[t].next_seq] EXCEPT ![s] = @ + 1]
      BY <2>1, <3>2
    <3>4. [t \in CallIds |-> streams'[t].generation] = [t \in CallIds |-> streams[t].generation]
      BY <3>2
    <3>5. Logical!Advance(s)
      BY <2>1, <2>2, <3>3, <3>4 DEF Logical!Advance
    <3>6. QED
      BY <3>5 DEF Logical!Next
  <2>3. CASE streams[s].generation # g
    BY <1>0, <2>1, <2>3, RecordEffect, SameEntries
  <2>4. QED
    BY <2>2, <2>3
<1>3. ASSUME NEW c \in Conns, NEW id \in CallIds, StartFresh(c, id) PROVE Logical!Next
  <2>1. next_gen' = next_gen + 1 /\ RegisterAt(id, 0)
    BY <1>3 DEF StartFresh, RegisterAt
  <2>2. Logical!Open(id)
    BY <1>0, <2>1, RegisterEffect, GivenAway DEF Logical!Open
  <2>3. QED
    BY <2>2 DEF Logical!Next
<1>4. ASSUME NEW c \in Conns, NEW id \in CallIds, StartResumed(c, id) PROVE Logical!Next
  <2>1. next_gen' = next_gen + 1 /\ ResumeAt(id) /\ id \in Held(Pruned)
    BY <1>4 DEF StartResumed, ResumeAt
  <2>2. streams[id].generation # 0
    BY <2>1 DEF Held, Pruned, Absent
  <2>3. \E lost \in SUBSET CallIds : Logical!Give(id, streams[id].next_seq, lost)
    BY <1>0, <2>1, ResumeEffect, GivenAway
  <2>4. Logical!Claim(id)
    BY <2>2, <2>3 DEF Logical!Claim
  <2>5. QED
    BY <2>4 DEF Logical!Next
<1>5. CASE Tick
  <2>1. next_gen' = next_gen /\ \A s \in CallIds : /\ streams'[s].generation = streams[s].generation
                                                  /\ streams'[s].next_seq = streams[s].next_seq
    BY <1>0, <1>5 DEF Tick, Typing, Entry
  <2>2. QED
    BY <2>1, SameEntries
<1>6. CASE UNCHANGED registryVars
  BY <1>6, SameEntries DEF registryVars
<1>7. QED
  BY <1>1, <1>2, <1>3, <1>4, <1>5, <1>6 DEF Next, TaskStep, ConnStep, WriterStep, vars,
     CaptureFailed, Send, Drop, Acquire, Stop, Reply, NackNobody, Hangup, Closed, Connect,
     Deliver, WriterFails

\* Zombies, prunes, evictions and resumes included, the registry hands every logical
\* stream to one owner at a time and its position moves one frame at a time.
THEOREM Refinement == ScreencastSafety => LogicalSpec
<1>1. Init => Logical!Init
  BY DEF Init, Logical!Init, Absent
<1>2. QED
  BY <1>1, LogicalStep, Inductive, PTL DEF ScreencastSafety, LogicalSpec, Logical!Spec

================================================================================
