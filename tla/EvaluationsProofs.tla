--------------------------- MODULE EvaluationsProofs ---------------------------
(***************************************************************************)
(* The environments of CUA-Gym (CuaEnvs), the evaluation loops (Evals) and *)
(* the scorers in processes of their own (Scorers), as MCEnvironments      *)
(* composes them: what they keep for any number of sandboxes, snapshots,   *)
(* runs and failures.                                                      *)
(***************************************************************************)
EXTENDS Integers, MCEnvironments, SequenceTheorems, TLAPS

--------------------------------------------------------------------------------
(* CuaEnvs: the inductive invariant.                                            *)

None == Cua!None
\* Steps that hold a base under construction, and steps that hold a replica not yet joined.
Making == {"connect_base", "setup", "checkpoint", "close_base", "destroy_base", "built"}
Joining == {"connect", "destroy_unconnected"}
\* The steps of a teardown, after the replica's, and what follows it.
Torn == {"drain_sessions", "drain_handles", "drain_snapshots", "torn_down", "delete_golden", "resume", "connect"}

Pcs == Making \cup Joining \cup Torn \cup {"idle", "create", "close_sess", "destroy", "first_look"}
Calls == [name : {"none", "reset", "close", "dispose"}, pc : Pcs, raises : BOOLEAN]
Builds ==
    [base : CuaBoxes \cup {None}, connected : BOOLEAN, snapshot : CuaSnaps \cup {None},
     primary : BOOLEAN, cleanup : BOOLEAN]
Debts == [sessions : SUBSET CuaBoxes, handles : SUBSET CuaBoxes, snapshots : SUBSET CuaSnaps]

CuaTyping ==
    /\ call \in Calls /\ build \in Builds /\ owed \in Debts
    /\ checkpoint \in CuaSnaps \cup {None} /\ handle \in CuaBoxes \cup {None} /\ sess \in {None, handle}
    /\ sandbox \in [CuaBoxes -> {"free", "up", "gone"}] /\ snap \in [CuaSnaps -> {"free", "there", "gone"}]
    /\ conn \subseteq CuaBoxes /\ orphans \subseteq CuaBoxes

\* What is there is in a field of the environment, or with the call under way.
OwnedOK ==
    /\ \A b \in CuaBoxes : sandbox[b] = "up" => b \in {handle, build.base} \cup owed.handles \cup orphans
    /\ \A b \in conn : sandbox[b] = "up" /\ b \in {sess, build.base} \cup owed.sessions
    /\ \A s \in CuaSnaps : snap[s] = "there" => s \in {checkpoint, build.snapshot} \cup owed.snapshots

\* What the call under way holds, step by step.
BuildOK ==
    /\ call.pc \notin Making \cup Joining => build = Cua!NoBuild
    /\ call.pc \in Making \cup {"create"} => checkpoint = None
    /\ call.pc \in {"connect_base", "setup", "checkpoint"} \cup Joining \/ build.primary => build.snapshot = None
    /\ call.pc \in {"connect_base", "setup", "checkpoint"} => ~build.primary
    /\ call.pc \in {"connect_base"} \cup Joining =>
         build.base \in CuaBoxes /\ sandbox[build.base] = "up" /\ build.base \notin conn
    /\ call.pc \in Making => build.base \in CuaBoxes
    /\ call.pc \in {"destroy_base", "built"} => build.base \notin conn \/ build.base \in owed.sessions
    /\ call.pc = "built" => sandbox[build.base] # "up" \/ build.base \in owed.handles

\* A teardown that has not raised has let go of everything it came past.
TearOK ==
    /\ call.pc \in {"resume", "connect", "first_look"} => call.name = "reset" /\ ~call.raises
    /\ ~call.raises =>
        /\ call.pc \in Torn \cup {"destroy"} => sess = None
        /\ call.pc \in Torn => handle = None
        /\ call.pc \in Torn \ {"drain_sessions"} => owed.sessions = {}
        /\ call.pc \in Torn \ {"drain_sessions", "drain_handles"} => owed.handles = {}
        /\ call.pc \in Torn \ {"drain_sessions", "drain_handles", "drain_snapshots"} => owed.snapshots = {}

CuaInv == CuaTyping /\ OwnedOK /\ BuildOK /\ TearOK /\ Cua!DisposedIsClean

--------------------------------------------------------------------------------
(* CuaEnvs: steps of a call.                                                    *)

CuaParts == CuaTyping /\ OwnedOK /\ BuildOK /\ TearOK

\* The call goes on to its next step.
LEMMA CallGoes ==
    ASSUME CuaTyping, NEW pc \in Pcs, Cua!Goto(pc)
    PROVE  call' \in Calls /\ call'.pc = pc /\ call'.name = call.name /\ call'.raises = call.raises
BY DEF CuaTyping, Calls, Cua!Goto

\* So does one that will raise.
LEMMA CallGoesRaising ==
    ASSUME CuaTyping, NEW pc \in Pcs, Cua!GotoRaising(pc)
    PROVE  call' \in Calls /\ call'.pc = pc /\ call'.name = call.name /\ call'.raises = TRUE
BY DEF CuaTyping, Calls, Cua!GotoRaising

\* A call returns.
LEMMA CallReturns ==
    ASSUME NEW r, Cua!Return(r)
    PROVE  call' \in Calls /\ call'.pc = "idle"
BY DEF Calls, Pcs, Cua!Return, Cua!NoOp

\* The first state.
LEMMA CuaStarts == Cua!CuaInit => CuaInv
<1> SUFFICES ASSUME Cua!CuaInit PROVE CuaInv
  OBVIOUS
<1> USE EnvironmentsAssumption DEF Cua!CuaInit, Cua!NoOp, Cua!NoBuild, Cua!None, None
<1>1. CuaTyping
  BY DEF CuaTyping, Calls, Builds, Debts, Pcs
<1>2. OwnedOK
  BY DEF OwnedOK
<1>3. BuildOK
  BY DEF BuildOK, Making, Joining
<1>4. TearOK
  BY DEF TearOK, Torn
<1>5. Cua!DisposedIsClean
  BY DEF Cua!DisposedIsClean
<1> QED
  BY <1>1, <1>2, <1>3, <1>4, <1>5 DEF CuaInv

\* A call begins.
LEMMA BeginKeeps ==
    ASSUME CuaParts, NEW name \in {"reset", "close", "dispose"},
           NEW pc \in {"create", "close_sess"}, pc = "create" => checkpoint = None, Cua!Begin(name, pc)
    PROVE  CuaParts'
<1> USE EnvironmentsAssumption DEF CuaParts
<1>1. /\ call.pc = "idle" /\ call' = [name |-> name, pc |-> pc, raises |-> FALSE]
      /\ UNCHANGED <<build, checkpoint, handle, sess, owed, sandbox, snap, conn, orphans>>
  BY DEF Cua!Begin, Cua!NoOp, Cua!own, Cua!world
<1>2. call' \in Calls /\ call'.pc = pc
  BY <1>1 DEF Calls, Pcs
<1>3. CuaTyping'
  BY <1>1, <1>2 DEF CuaTyping, None, Cua!None
<1>4. OwnedOK'
  BY <1>1 DEF OwnedOK
<1>5. BuildOK'
  BY <1>1, <1>2 DEF BuildOK, Making, Joining, None, Cua!None
<1>6. TearOK'
  BY <1>1, <1>2 DEF TearOK, Torn, None, Cua!None
<1> QED
  BY <1>3, <1>4, <1>5, <1>6

\* The base, or nothing.
LEMMA CuaCreateKeeps == ASSUME CuaParts, Cua!Create PROVE CuaParts'
<1> USE EnvironmentsAssumption DEF CuaParts
<1>1. call.pc = "create" /\ UNCHANGED <<checkpoint, handle, sess, owed, snap, conn, orphans>>
  BY DEF Cua!Create, Cua!At, Cua!own
<1>2. CASE Cua!Goto("connect_base") /\ \E b \in CuaBoxes : Cua!Started(b) /\ build' = [Cua!NoBuild EXCEPT !.base = b]
  <2>1. call' \in Calls /\ call'.pc = "connect_base" /\ call'.raises = call.raises
    BY <1>2, CallGoes DEF Pcs, Making
  <2>2. PICK b \in CuaBoxes : Cua!Started(b) /\ build' = [Cua!NoBuild EXCEPT !.base = b]
    BY <1>2
  <2>3. build' = [base |-> b, connected |-> FALSE, snapshot |-> None, primary |-> FALSE, cleanup |-> FALSE]
    BY <2>2 DEF Cua!NoBuild, None
  <2>4. build' \in Builds /\ build'.base = b /\ build'.snapshot = None /\ ~build'.primary
    BY <2>3 DEF Builds, None, Cua!None
  <2>5. /\ sandbox[b] = "free" /\ sandbox' = [sandbox EXCEPT ![b] = "up"]
    BY <2>2 DEF Cua!Started
  <2>6. b \notin conn
    BY <2>5 DEF OwnedOK
  <2>7. build.base = None /\ build.snapshot = None
    BY <1>1 DEF BuildOK, Making, Joining, Cua!NoBuild, None
  <2>8. CuaTyping'
    BY <1>1, <2>1, <2>4, <2>5 DEF CuaTyping, None, Cua!None
  <2>9. OwnedOK'
    BY <1>1, <2>4, <2>5, <2>6, <2>7 DEF OwnedOK, CuaTyping, None, Cua!None
  <2>10. BuildOK'
    BY <1>1, <2>1, <2>2, <2>4, <2>5, <2>6 DEF BuildOK, Making, Joining, CuaTyping, None, Cua!None
  <2>11. TearOK'
    BY <1>1, <2>1 DEF TearOK, Torn, None, Cua!None
  <2> QED
    BY <2>8, <2>9, <2>10, <2>11
<1>3. CASE Cua!Return(TRUE) /\ UNCHANGED <<build, sandbox>>
  <2>1. call' \in Calls /\ call'.pc = "idle"
    BY <1>3, CallReturns
  <2>2. CuaTyping'
    BY <1>1, <1>3, <2>1 DEF CuaTyping, None, Cua!None
  <2>3. OwnedOK'
    BY <1>1, <1>3 DEF OwnedOK
  <2>4. BuildOK'
    BY <1>1, <1>3, <2>1 DEF BuildOK, Making, Joining, None, Cua!None
  <2>5. TearOK'
    BY <1>1, <2>1 DEF TearOK, Torn
  <2> QED
    BY <2>2, <2>3, <2>4, <2>5
<1> QED
  BY <1>2, <1>3 DEF Cua!Create

\* The connection to the base.
LEMMA ConnectBaseKeeps == ASSUME CuaParts, Cua!ConnectBase PROVE CuaParts'
<1> USE EnvironmentsAssumption DEF CuaParts
<1>1. /\ call.pc = "connect_base" /\ UNCHANGED <<checkpoint, handle, sess, owed, sandbox, snap, orphans>>
      /\ \/ /\ conn' = conn \cup {build.base} /\ build' = [build EXCEPT !.connected = TRUE] /\ Cua!Goto("setup")
         \/ /\ conn' = conn /\ build' = [build EXCEPT !.primary = TRUE] /\ Cua!Goto("close_base")
  BY DEF Cua!ConnectBase, Cua!At, Cua!own
<1>2. /\ call' \in Calls /\ call'.raises = call.raises
      /\ \/ call'.pc = "setup" /\ build' = [build EXCEPT !.connected = TRUE]
         \/ call'.pc = "close_base" /\ build' = [build EXCEPT !.primary = TRUE]
  BY <1>1, CallGoes DEF Pcs, Making
<1>3. /\ build' \in Builds /\ build'.base = build.base /\ build'.snapshot = build.snapshot
      /\ build' = [build EXCEPT !.connected = TRUE] => build'.primary = build.primary
  BY <1>1 DEF CuaTyping, Builds
<1>4. build.base \in CuaBoxes /\ sandbox[build.base] = "up" /\ build.snapshot = None /\ checkpoint = None /\ ~build.primary
  BY <1>1 DEF BuildOK, Making, Joining
<1>5. conn' \subseteq conn \cup {build.base}
  BY <1>1
<1>6. CuaTyping'
  BY <1>1, <1>2, <1>3, <1>4, <1>5 DEF CuaTyping, None, Cua!None
<1>7. OwnedOK'
  BY <1>1, <1>3, <1>4, <1>5 DEF OwnedOK
<1>8. BuildOK'
  BY <1>1, <1>2, <1>3, <1>4 DEF BuildOK, Making, Joining, None, Cua!None
<1>9. TearOK'
  BY <1>2 DEF TearOK, Torn
<1> QED
  BY <1>6, <1>7, <1>8, <1>9

\* The setup of the base.
LEMMA CuaSetupKeeps == ASSUME CuaParts, Cua!Setup PROVE CuaParts'
<1> USE EnvironmentsAssumption DEF CuaParts
<1>1. /\ call.pc = "setup" /\ UNCHANGED <<checkpoint, handle, sess, owed, sandbox, snap, conn, orphans>>
      /\ \/ build' = build /\ Cua!Goto("checkpoint")
         \/ build' = [build EXCEPT !.primary = TRUE] /\ Cua!Goto("close_base")
  BY DEF Cua!Setup, Cua!At, Cua!own, Cua!world
<1>2. /\ call' \in Calls /\ call'.raises = call.raises
      /\ \/ call'.pc = "checkpoint" /\ build' = build
         \/ call'.pc = "close_base"
  BY <1>1, CallGoes DEF Pcs, Making
<1>3. build' \in Builds /\ build'.base = build.base /\ build'.snapshot = build.snapshot
  BY <1>1 DEF CuaTyping, Builds
<1>4. build.base \in CuaBoxes /\ build.snapshot = None /\ checkpoint = None /\ ~build.primary
  BY <1>1 DEF BuildOK, Making, Joining
<1>5. CuaTyping'
  BY <1>1, <1>2, <1>3 DEF CuaTyping, None, Cua!None
<1>6. OwnedOK'
  BY <1>1, <1>3 DEF OwnedOK
<1>7. BuildOK'
  BY <1>1, <1>2, <1>3, <1>4 DEF BuildOK, Making, Joining, None, Cua!None
<1>8. TearOK'
  BY <1>2 DEF TearOK, Torn
<1> QED
  BY <1>5, <1>6, <1>7, <1>8

\* The golden snapshot, held by the call until its base is dealt with.
LEMMA TakeGoldenKeeps == ASSUME CuaParts, Cua!TakeGolden PROVE CuaParts'
<1> USE EnvironmentsAssumption DEF CuaParts
<1>1. /\ call.pc = "checkpoint" /\ UNCHANGED <<checkpoint, handle, sess, owed, sandbox, conn, orphans>>
      /\ Cua!Goto("close_base")
  BY DEF Cua!TakeGolden, Cua!At, Cua!own
<1>2. call' \in Calls /\ call'.pc = "close_base" /\ call'.raises = call.raises
  BY <1>1, CallGoes DEF Pcs, Making
<1>3. build.base \in CuaBoxes /\ build.snapshot = None /\ checkpoint = None /\ ~build.primary
  BY <1>1 DEF BuildOK, Making, Joining
<1>4. /\ build' \in Builds /\ build'.base = build.base /\ (build'.primary => build'.snapshot = None)
      /\ snap' \in [CuaSnaps -> {"free", "there", "gone"}]
      /\ \A s \in CuaSnaps : snap'[s] = "there" => snap[s] = "there" \/ s = build'.snapshot
  <2>1. CASE \E s \in CuaSnaps : snap[s] = "free" /\ snap' = [snap EXCEPT ![s] = "there"] /\ build' = [build EXCEPT !.snapshot = s]
    <3>1. PICK s \in CuaSnaps : snap' = [snap EXCEPT ![s] = "there"] /\ build' = [build EXCEPT !.snapshot = s]
      BY <2>1
    <3>2. build' \in Builds /\ build'.base = build.base /\ build'.snapshot = s /\ build'.primary = build.primary
      BY <3>1 DEF CuaTyping, Builds
    <3> QED
      BY <1>3, <3>1, <3>2 DEF CuaTyping
  <2>2. CASE build' = [build EXCEPT !.primary = TRUE] /\ UNCHANGED snap
    <3>1. build' \in Builds /\ build'.base = build.base /\ build'.snapshot = build.snapshot
      BY <2>2 DEF CuaTyping, Builds
    <3> QED
      BY <1>3, <2>2, <3>1 DEF CuaTyping
  <2> QED
    BY <2>1, <2>2 DEF Cua!TakeGolden
<1>5. CuaTyping'
  BY <1>1, <1>2, <1>4 DEF CuaTyping, None, Cua!None
<1>6. OwnedOK'
  BY <1>1, <1>3, <1>4 DEF OwnedOK, None, Cua!None
<1>7. BuildOK'
  BY <1>1, <1>2, <1>3, <1>4 DEF BuildOK, Making, Joining, None, Cua!None
<1>8. TearOK'
  BY <1>2 DEF TearOK, Torn
<1> QED
  BY <1>5, <1>6, <1>7, <1>8

\* The connection to the base is closed, or owed.
LEMMA CloseBaseKeeps == ASSUME CuaParts, Cua!CloseBase PROVE CuaParts'
<1> USE EnvironmentsAssumption DEF CuaParts
<1>1. /\ call.pc = "close_base" /\ UNCHANGED <<checkpoint, handle, sess, sandbox, snap, orphans>>
      /\ Cua!Goto("destroy_base")
      /\ \/ conn' = conn \ {build.base} /\ UNCHANGED <<build, owed>>
         \/ /\ conn' = conn /\ build' = [build EXCEPT !.cleanup = TRUE]
            /\ owed' = [owed EXCEPT !.sessions = @ \cup {build.base}]
  BY DEF Cua!CloseBase, Cua!At
<1>2. call' \in Calls /\ call'.pc = "destroy_base" /\ call'.raises = call.raises
  BY <1>1, CallGoes DEF Pcs, Making
<1>3. build.base \in CuaBoxes /\ checkpoint = None /\ (build.primary => build.snapshot = None)
  BY <1>1 DEF BuildOK, Making, Joining
<1>4. build' \in Builds /\ build'.base = build.base /\ build'.snapshot = build.snapshot /\ build'.primary = build.primary
  BY <1>1 DEF CuaTyping, Builds
<1>5. /\ owed' \in Debts /\ owed'.handles = owed.handles /\ owed'.snapshots = owed.snapshots
      /\ owed.sessions \subseteq owed'.sessions
      /\ conn' \subseteq conn /\ (build.base \notin conn' \/ build.base \in owed'.sessions)
  BY <1>1, <1>3 DEF CuaTyping, Debts
<1>6. CuaTyping'
  BY <1>1, <1>2, <1>4, <1>5 DEF CuaTyping, None, Cua!None
<1>7. OwnedOK'
  BY <1>1, <1>4, <1>5 DEF OwnedOK
<1>8. BuildOK'
  BY <1>1, <1>2, <1>3, <1>4, <1>5 DEF BuildOK, Making, Joining, None, Cua!None
<1>9. TearOK'
  BY <1>2 DEF TearOK, Torn
<1> QED
  BY <1>6, <1>7, <1>8, <1>9

\* What destroy() does to one box: it is gone with its connection, or nothing has changed.
LEMMA RemovedOrNot ==
    ASSUME CuaTyping, NEW b \in CuaBoxes, Cua!Removed(b) \/ UNCHANGED <<sandbox, conn>>
    PROVE  /\ sandbox' \in [CuaBoxes -> {"free", "up", "gone"}] /\ conn' \subseteq conn
           /\ \A c \in CuaBoxes : sandbox'[c] = "up" => sandbox[c] = "up"
           /\ \A c \in CuaBoxes : sandbox[c] = "up" /\ c \in conn' => sandbox'[c] = "up"
           /\ Cua!Removed(b) => sandbox'[b] = "gone"
BY DEF CuaTyping, Cua!Removed

\* The base is destroyed, or owed.
LEMMA CuaDestroyBaseKeeps == ASSUME CuaParts, Cua!DestroyBase PROVE CuaParts'
<1> USE EnvironmentsAssumption DEF CuaParts
<1>1. /\ call.pc = "destroy_base" /\ UNCHANGED <<checkpoint, handle, sess, snap, orphans>>
      /\ Cua!Goto("built")
      /\ \/ Cua!Removed(build.base) /\ UNCHANGED <<build, owed>>
         \/ /\ Cua!Removed(build.base) \/ UNCHANGED <<sandbox, conn>>
            /\ build' = [build EXCEPT !.cleanup = TRUE]
            /\ owed' = [owed EXCEPT !.handles = @ \cup {build.base}]
  BY DEF Cua!DestroyBase, Cua!DestroyRaises, Cua!At
<1>2. call' \in Calls /\ call'.pc = "built" /\ call'.raises = call.raises
  BY <1>1, CallGoes DEF Pcs, Making
<1>3. /\ build.base \in CuaBoxes /\ checkpoint = None /\ (build.primary => build.snapshot = None)
      /\ build.base \notin conn \/ build.base \in owed.sessions
  BY <1>1 DEF BuildOK, Making, Joining
<1>4. build' \in Builds /\ build'.base = build.base /\ build'.snapshot = build.snapshot /\ build'.primary = build.primary
  BY <1>1 DEF CuaTyping, Builds
<1>5. /\ owed' \in Debts /\ owed.handles \subseteq owed'.handles /\ owed'.snapshots = owed.snapshots
      /\ owed'.sessions = owed.sessions
  BY <1>1, <1>3 DEF CuaTyping, Debts
<1>6. /\ sandbox' \in [CuaBoxes -> {"free", "up", "gone"}] /\ conn' \subseteq conn
      /\ \A c \in CuaBoxes : sandbox'[c] = "up" => sandbox[c] = "up"
      /\ \A c \in CuaBoxes : sandbox[c] = "up" /\ c \in conn' => sandbox'[c] = "up"
      /\ Cua!Removed(build.base) => sandbox'[build.base] = "gone"
  BY <1>1, <1>3, RemovedOrNot
<1>7. sandbox'[build.base] # "up" \/ build.base \in owed'.handles
  BY <1>1, <1>6 DEF CuaTyping, Debts
<1>8. CuaTyping'
  BY <1>1, <1>2, <1>4, <1>5, <1>6 DEF CuaTyping, None, Cua!None
<1>9. OwnedOK'
  BY <1>1, <1>4, <1>5, <1>6 DEF OwnedOK, CuaTyping
<1>10. BuildOK'
  BY <1>1, <1>2, <1>3, <1>4, <1>5, <1>6, <1>7 DEF BuildOK, Making, Joining, None, Cua!None
<1>11. TearOK'
  BY <1>2 DEF TearOK, Torn
<1> QED
  BY <1>8, <1>9, <1>10, <1>11

\* The snapshot is the golden one, or owed, or was never taken.
LEMMA BuiltKeeps == ASSUME CuaParts, Cua!Built PROVE CuaParts'
<1> USE EnvironmentsAssumption DEF CuaParts
<1>1. /\ call.pc = "built" /\ build' = Cua!NoBuild /\ UNCHANGED <<handle, sess, sandbox, snap, conn, orphans>>
      /\ \/ build.primary /\ Cua!Return(TRUE) /\ UNCHANGED <<checkpoint, owed>>
         \/ Cua!Return(TRUE) /\ owed' = Cua!KeepSnapshot /\ UNCHANGED checkpoint
         \/ checkpoint' = build.snapshot /\ Cua!Goto("close_sess") /\ UNCHANGED owed
  BY DEF Cua!Built, Cua!At, Cua!own, Cua!world
<1>2. call' \in Calls /\ call'.pc \in {"idle", "close_sess"}
  BY <1>1, CallGoes, CallReturns DEF Pcs
<1>3. /\ build.base \in CuaBoxes /\ checkpoint = None /\ (build.primary => build.snapshot = None)
      /\ build.base \notin conn \/ build.base \in owed.sessions
      /\ sandbox[build.base] # "up" \/ build.base \in owed.handles
  BY <1>1 DEF BuildOK, Making, Joining
<1>4. build' \in Builds /\ build'.base = None /\ build'.snapshot = None /\ ~build'.primary
  BY <1>1 DEF Cua!NoBuild, Builds, None, Cua!None
<1>5. /\ owed' \in Debts /\ owed'.handles = owed.handles /\ owed'.sessions = owed.sessions
      /\ owed.snapshots \subseteq owed'.snapshots /\ checkpoint' \in CuaSnaps \cup {None}
      /\ build.snapshot \in CuaSnaps => build.snapshot \in owed'.snapshots \/ checkpoint' = build.snapshot
  <2>1. CASE build.primary /\ UNCHANGED <<checkpoint, owed>>
    BY <1>3, <2>1 DEF CuaTyping, None, Cua!None
  <2>2. CASE owed' = Cua!KeepSnapshot /\ UNCHANGED checkpoint
    <3>1. build.snapshot \in CuaSnaps \cup {None}
      BY DEF CuaTyping, Builds
    <3>2. CASE build.snapshot = None
      BY <1>3, <2>2, <3>2 DEF CuaTyping, Cua!KeepSnapshot, None, Cua!None
    <3>3. CASE build.snapshot # None
      <4>1. owed' = [owed EXCEPT !.snapshots = @ \cup {build.snapshot}]
        BY <2>2, <3>3 DEF Cua!KeepSnapshot, None
      <4> QED
        BY <2>2, <3>1, <3>3, <4>1 DEF CuaTyping, Debts
    <3> QED
      BY <3>2, <3>3
  <2>3. CASE checkpoint' = build.snapshot /\ UNCHANGED owed
    BY <2>3 DEF CuaTyping, Builds
  <2> QED
    BY <1>1, <2>1, <2>2, <2>3
<1>6. CuaTyping'
  BY <1>1, <1>2, <1>4, <1>5 DEF CuaTyping, None, Cua!None
<1>7. OwnedOK'
  BY <1>1, <1>3, <1>4, <1>5 DEF OwnedOK, CuaTyping, None, Cua!None
<1>8. BuildOK'
  BY <1>1, <1>2, <1>4 DEF BuildOK, Making, Joining, None, Cua!None
<1>9. TearOK'
  BY <1>2 DEF TearOK, Torn
<1> QED
  BY <1>6, <1>7, <1>8, <1>9

--------------------------------------------------------------------------------
(* CuaEnvs: a teardown lets go of what it comes past, or will raise.            *)

\* The step goes on quietly, or the call will raise.
CallAt(pc) == call' \in Calls /\ call'.pc = pc /\ call'.name = call.name /\ (call.raises => call'.raises)

\* So is every step of a teardown, quiet or raising.
LEMMA CallGoesOn ==
    ASSUME CuaTyping, NEW pc \in Pcs, Cua!Goto(pc) \/ Cua!GotoRaising(pc)
    PROVE  CallAt(pc) /\ (Cua!GotoRaising(pc) => call'.raises)
<1>1. CASE Cua!Goto(pc)
  BY <1>1, CallGoes DEF CallAt, Cua!Goto, Cua!GotoRaising, CuaTyping, Calls
<1>2. CASE Cua!GotoRaising(pc)
  BY <1>2, CallGoesRaising DEF CallAt
<1> QED
  BY <1>1, <1>2

\* The connection to the replica.
LEMMA CloseSessKeeps == ASSUME CuaParts, Cua!CloseSess PROVE CuaParts'
<1> USE EnvironmentsAssumption DEF CuaParts
<1>1. /\ call.pc = "close_sess" /\ UNCHANGED <<build, checkpoint, handle, owed, sandbox, snap, orphans>>
      /\ \/ conn' = conn \ {sess} /\ sess' = None /\ Cua!Goto("destroy")
         \/ Cua!GotoRaising("destroy") /\ UNCHANGED <<sess, conn>>
  BY DEF Cua!CloseSess, Cua!At, None
<1>0. CallAt("destroy") /\ (Cua!GotoRaising("destroy") => call'.raises)
  BY <1>1, CallGoesOn DEF Pcs
<1>2. CallAt("destroy") /\ ((sess' = None /\ conn' = conn \ {sess}) \/ (call'.raises /\ UNCHANGED <<sess, conn>>))
  BY <1>0, <1>1
<1>3. CuaTyping'
  BY <1>1, <1>2 DEF CuaTyping, CallAt, None, Cua!None
<1>4. OwnedOK'
  BY <1>1, <1>2 DEF OwnedOK
<1>5. BuildOK'
  BY <1>1, <1>2 DEF BuildOK, Making, Joining, CallAt
<1>6. TearOK'
  BY <1>2 DEF TearOK, Torn, CallAt
<1> QED
  BY <1>3, <1>4, <1>5, <1>6

\* The replica.
LEMMA CuaDestroyReplicaKeeps == ASSUME CuaParts, Cua!DestroyReplica PROVE CuaParts'
<1> USE EnvironmentsAssumption DEF CuaParts
<1>1. /\ call.pc = "destroy" /\ UNCHANGED <<build, checkpoint, owed, snap, orphans>>
      /\ \/ handle = None /\ Cua!Goto("drain_sessions") /\ UNCHANGED <<handle, sess, sandbox, conn>>
         \/ /\ handle # None /\ Cua!Removed(handle) /\ handle' = None /\ sess' = None
            /\ Cua!Goto("drain_sessions")
         \/ /\ handle # None /\ (Cua!Removed(handle) \/ UNCHANGED <<sandbox, conn>>)
            /\ Cua!GotoRaising("drain_sessions") /\ UNCHANGED <<handle, sess>>
  BY DEF Cua!DestroyReplica, Cua!DestroyRaises, Cua!At, None
<1>2. CallAt("drain_sessions") /\ (Cua!GotoRaising("drain_sessions") => call'.raises)
  BY <1>1, CallGoesOn DEF Pcs, Torn
<1>3. build = Cua!NoBuild
  BY <1>1 DEF BuildOK, Making, Joining
<1>4. /\ sandbox' \in [CuaBoxes -> {"free", "up", "gone"}] /\ conn' \subseteq conn
      /\ \A c \in CuaBoxes : sandbox'[c] = "up" => sandbox[c] = "up"
      /\ \A c \in CuaBoxes : sandbox[c] = "up" /\ c \in conn' => sandbox'[c] = "up"
      /\ handle \in CuaBoxes /\ Cua!Removed(handle) => sandbox'[handle] = "gone"
  <2>1. CASE UNCHANGED <<sandbox, conn>>
    BY <2>1 DEF CuaTyping, Cua!Removed
  <2>2. CASE handle \in CuaBoxes /\ Cua!Removed(handle)
    BY <2>2, RemovedOrNot
  <2> QED
    BY <1>1, <2>1, <2>2 DEF CuaTyping
<1>5. \/ UNCHANGED <<handle, sess>>
      \/ handle \in CuaBoxes /\ Cua!Removed(handle) /\ handle' = None /\ sess' = None
  BY <1>1 DEF CuaTyping
<1>6. handle' = None \/ call'.raises
  BY <1>1, <1>2
<1>7. CuaTyping'
  BY <1>1, <1>2, <1>4, <1>5 DEF CuaTyping, CallAt, None, Cua!None
<1>8. OwnedOK'
  <2>1. \A b \in CuaBoxes : sandbox'[b] = "up" => b = handle' \/ b # handle
    BY <1>4, <1>5
  <2>2. \A b \in conn' : sandbox'[b] = "up" /\ (b = sess' \/ b # sess)
    <3>1. \A b \in conn' : sandbox'[b] = "up"
      BY <1>4 DEF OwnedOK, CuaTyping
    <3>2. CASE UNCHANGED <<handle, sess>>
      BY <3>1, <3>2
    <3>3. CASE handle \in CuaBoxes /\ Cua!Removed(handle)
      BY <3>1, <3>3, EnvironmentsAssumption DEF CuaTyping, Cua!Removed, None, Cua!None
    <3> QED
      BY <1>5, <3>2, <3>3
  <2>3. \A b \in CuaBoxes : sandbox'[b] = "up" => b \in {handle', build'.base} \cup owed'.handles \cup orphans'
    BY <1>1, <1>4, <2>1 DEF OwnedOK
  <2>4. \A b \in conn' : b \in {sess', build'.base} \cup owed'.sessions
    BY <1>1, <1>4, <2>2 DEF OwnedOK
  <2> QED
    BY <1>1, <2>2, <2>3, <2>4 DEF OwnedOK
<1>9. BuildOK'
  BY <1>1, <1>2, <1>3 DEF BuildOK, Making, Joining, CallAt, Cua!NoBuild, None
<1>10. TearOK'
  <2>1. ~call'.raises => handle' = None /\ sess' = None
    BY <1>6, <1>7 DEF CuaTyping
  <2> QED
    BY <1>2, <2>1 DEF TearOK, Torn, CallAt
<1> QED
  BY <1>7, <1>8, <1>9, <1>10

\* The connections owed.
LEMMA DrainSessionsKeeps == ASSUME CuaParts, Cua!DrainSessions PROVE CuaParts'
<1> USE EnvironmentsAssumption DEF CuaParts
<1>1. /\ call.pc = "drain_sessions" /\ UNCHANGED <<build, checkpoint, handle, sess, sandbox, snap, orphans>>
      /\ Cua!Goto("drain_handles") \/ Cua!GotoRaising("drain_handles")
      /\ \E bad \in SUBSET owed.sessions :
           /\ owed' = [owed EXCEPT !.sessions = bad] /\ conn' = conn \ (owed.sessions \ bad)
           /\ bad = {} \/ Cua!GotoRaising("drain_handles")
  <2>1. CASE Cua!Goto("drain_handles") /\ owed' = [owed EXCEPT !.sessions = {}] /\ conn' = conn \ owed.sessions
    BY <2>1 DEF Cua!DrainSessions, Cua!At
  <2>2. CASE ~(Cua!Goto("drain_handles") /\ owed' = [owed EXCEPT !.sessions = {}] /\ conn' = conn \ owed.sessions)
    BY <2>2 DEF Cua!DrainSessions, Cua!At
  <2> QED
    BY <2>1, <2>2
<1>2. CallAt("drain_handles") /\ (Cua!GotoRaising("drain_handles") => call'.raises)
  BY <1>1, CallGoesOn DEF Pcs, Torn
<1>3. PICK bad \in SUBSET owed.sessions :
           /\ owed' = [owed EXCEPT !.sessions = bad] /\ conn' = conn \ (owed.sessions \ bad)
           /\ bad = {} \/ Cua!GotoRaising("drain_handles")
  BY <1>1
<1>4. /\ owed' \in Debts /\ owed'.sessions = bad /\ owed'.handles = owed.handles /\ owed'.snapshots = owed.snapshots
      /\ bad = {} \/ call'.raises
  BY <1>2, <1>3 DEF CuaTyping, Debts
<1>5. CuaTyping'
  BY <1>1, <1>2, <1>3, <1>4 DEF CuaTyping, CallAt, None, Cua!None
<1>6. OwnedOK'
  BY <1>1, <1>3, <1>4 DEF OwnedOK
<1>7. BuildOK'
  BY <1>1, <1>2 DEF BuildOK, Making, Joining, CallAt
<1>8. TearOK'
  BY <1>1, <1>2, <1>4 DEF TearOK, Torn, CallAt
<1> QED
  BY <1>5, <1>6, <1>7, <1>8

\* The sandboxes owed.
LEMMA DrainHandlesKeeps == ASSUME CuaParts, Cua!DrainHandles PROVE CuaParts'
<1> USE EnvironmentsAssumption DEF CuaParts
<1>1. /\ call.pc = "drain_handles" /\ UNCHANGED <<build, checkpoint, handle, sess, snap, orphans>>
      /\ Cua!Goto("drain_snapshots") \/ Cua!GotoRaising("drain_snapshots")
      /\ \E bad \in SUBSET owed.handles :
           /\ owed' = [owed EXCEPT !.handles = bad] /\ sandbox' = Cua!Dead(owed.handles \ bad)
           /\ conn' = conn \ (owed.handles \ bad)
           /\ bad = {} \/ Cua!GotoRaising("drain_snapshots")
  <2>1. CASE Cua!Goto("drain_snapshots") /\ owed' = [owed EXCEPT !.handles = {}] /\ conn' = conn \ owed.handles
             /\ sandbox' = Cua!Dead(owed.handles)
    <3>1. owed.handles \ {} = owed.handles
      OBVIOUS
    <3> QED
      BY <2>1, <3>1 DEF Cua!DrainHandles, Cua!At
  <2>2. CASE ~(Cua!Goto("drain_snapshots") /\ owed' = [owed EXCEPT !.handles = {}] /\ conn' = conn \ owed.handles
             /\ sandbox' = Cua!Dead(owed.handles))
    BY <2>2 DEF Cua!DrainHandles, Cua!At
  <2> QED
    BY <2>1, <2>2
<1>2. CallAt("drain_snapshots") /\ (Cua!GotoRaising("drain_snapshots") => call'.raises)
  BY <1>1, CallGoesOn DEF Pcs, Torn
<1>3. PICK bad \in SUBSET owed.handles :
           /\ owed' = [owed EXCEPT !.handles = bad] /\ sandbox' = Cua!Dead(owed.handles \ bad)
           /\ conn' = conn \ (owed.handles \ bad)
           /\ bad = {} \/ Cua!GotoRaising("drain_snapshots")
  BY <1>1
<1>4. /\ owed' \in Debts /\ owed'.sessions = owed.sessions /\ owed'.handles = bad /\ owed'.snapshots = owed.snapshots
      /\ bad = {} \/ call'.raises
  BY <1>2, <1>3 DEF CuaTyping, Debts
<1>5. /\ sandbox' \in [CuaBoxes -> {"free", "up", "gone"}]
      /\ \A b \in CuaBoxes : sandbox'[b] = "up" <=> sandbox[b] = "up" /\ b \notin owed.handles \ bad
  BY <1>3 DEF CuaTyping, Cua!Dead
<1>6. CuaTyping'
  BY <1>1, <1>2, <1>3, <1>4, <1>5 DEF CuaTyping, CallAt, None, Cua!None
<1>7. OwnedOK'
  BY <1>1, <1>3, <1>4, <1>5 DEF OwnedOK, CuaTyping
<1>8. BuildOK'
  BY <1>1, <1>2 DEF BuildOK, Making, Joining, CallAt
<1>9. TearOK'
  BY <1>1, <1>2, <1>4 DEF TearOK, Torn, CallAt
<1> QED
  BY <1>6, <1>7, <1>8, <1>9

\* The snapshots owed, once no sandbox is.
LEMMA DrainSnapshotsKeeps == ASSUME CuaParts, Cua!DrainSnapshots PROVE CuaParts'
<1> USE EnvironmentsAssumption DEF CuaParts
<1>1. /\ call.pc = "drain_snapshots" /\ UNCHANGED <<build, checkpoint, handle, sess, sandbox, conn, orphans>>
      /\ Cua!Goto("torn_down") \/ Cua!GotoRaising("torn_down")
  BY DEF Cua!DrainSnapshots, Cua!At
<1>2. CallAt("torn_down") /\ (Cua!GotoRaising("torn_down") => call'.raises)
  BY <1>1, CallGoesOn DEF Pcs, Torn
<1>3. \/ owed.handles # {} /\ UNCHANGED <<owed, snap>>
      \/ \E bad \in SUBSET owed.snapshots :
           /\ owed' = [owed EXCEPT !.snapshots = bad] /\ snap' = Cua!Deleted(owed.snapshots \ bad)
           /\ bad = {} \/ Cua!GotoRaising("torn_down")
  <2>1. CASE owed' = [owed EXCEPT !.snapshots = {}] /\ snap' = Cua!Deleted(owed.snapshots)
    <3>1. owed.snapshots \ {} = owed.snapshots
      OBVIOUS
    <3> QED
      BY <2>1, <3>1
  <2>2. CASE ~(owed' = [owed EXCEPT !.snapshots = {}] /\ snap' = Cua!Deleted(owed.snapshots))
    BY <2>2 DEF Cua!DrainSnapshots
  <2> QED
    BY <2>1, <2>2
<1>4. /\ owed' \in Debts /\ owed'.sessions = owed.sessions /\ owed'.handles = owed.handles
      /\ snap' \in [CuaSnaps -> {"free", "there", "gone"}]
      /\ \A s \in CuaSnaps : snap'[s] = "there" => snap[s] = "there" /\ (s \in owed.snapshots => s \in owed'.snapshots)
      /\ ~call'.raises => owed'.snapshots = {} \/ owed.handles # {}
  <2>1. CASE owed.handles # {} /\ UNCHANGED <<owed, snap>>
    BY <2>1 DEF CuaTyping
  <2>2. CASE \E bad \in SUBSET owed.snapshots :
           /\ owed' = [owed EXCEPT !.snapshots = bad] /\ snap' = Cua!Deleted(owed.snapshots \ bad)
           /\ bad = {} \/ Cua!GotoRaising("torn_down")
    <3>1. PICK bad \in SUBSET owed.snapshots :
           /\ owed' = [owed EXCEPT !.snapshots = bad] /\ snap' = Cua!Deleted(owed.snapshots \ bad)
           /\ bad = {} \/ Cua!GotoRaising("torn_down")
      BY <2>2
    <3>2. /\ owed' \in Debts /\ owed'.sessions = owed.sessions /\ owed'.handles = owed.handles /\ owed'.snapshots = bad
      BY <3>1 DEF CuaTyping, Debts
    <3>3. /\ snap' \in [CuaSnaps -> {"free", "there", "gone"}]
          /\ \A s \in CuaSnaps : snap'[s] = "there" => snap[s] = "there" /\ s \notin owed.snapshots \ bad
      BY <3>1 DEF CuaTyping, Cua!Deleted
    <3> QED
      BY <1>2, <3>1, <3>2, <3>3
  <2> QED
    BY <1>3, <2>1, <2>2
<1>5. CuaTyping'
  BY <1>1, <1>2, <1>4 DEF CuaTyping, CallAt, None, Cua!None
<1>6. OwnedOK'
  BY <1>1, <1>4 DEF OwnedOK, CuaTyping
<1>7. BuildOK'
  BY <1>1, <1>2 DEF BuildOK, Making, Joining, CallAt
<1>8. TearOK'
  BY <1>1, <1>2, <1>4 DEF TearOK, Torn, CallAt
<1> QED
  BY <1>5, <1>6, <1>7, <1>8

\* What follows a teardown.
LEMMA TornDownKeeps == ASSUME CuaParts, Cua!TornDown PROVE CuaParts'
<1> USE EnvironmentsAssumption DEF CuaParts
<1>1. /\ call.pc = "torn_down" /\ UNCHANGED <<build, checkpoint, handle, sess, owed, sandbox, snap, conn, orphans>>
      /\ \/ Cua!Goto("delete_golden")
         \/ call.name = "reset" /\ ~call.raises /\ Cua!Goto("resume")
         \/ \E r : Cua!Return(r)
  BY DEF Cua!TornDown, Cua!At, Cua!own, Cua!world
<1>2. /\ call' \in Calls
      /\ \/ call'.pc = "delete_golden" /\ call'.raises = call.raises
         \/ call'.pc = "resume" /\ call'.name = "reset" /\ call'.raises = call.raises /\ ~call.raises
         \/ call'.pc = "idle"
  BY <1>1, CallGoes, CallReturns DEF Pcs, Torn
<1>3. CuaTyping'
  BY <1>1, <1>2 DEF CuaTyping, None, Cua!None
<1>4. OwnedOK'
  BY <1>1 DEF OwnedOK
<1>5. BuildOK'
  BY <1>1, <1>2 DEF BuildOK, Making, Joining
<1>6. TearOK'
  BY <1>1, <1>2 DEF TearOK, Torn
<1> QED
  BY <1>3, <1>4, <1>5, <1>6

\* dispose() deletes the golden snapshot.
LEMMA DeleteGoldenKeeps == ASSUME CuaParts, Cua!DeleteGolden PROVE CuaParts'
<1> USE EnvironmentsAssumption DEF CuaParts
<1>1. /\ call.pc = "delete_golden" /\ UNCHANGED <<build, handle, sess, owed, sandbox, conn, orphans>>
      /\ \E r : Cua!Return(r)
      /\ \/ UNCHANGED checkpoint /\ (snap' = Cua!Deleted({checkpoint}) \/ UNCHANGED snap)
         \/ checkpoint' = None /\ snap' = Cua!Deleted({checkpoint})
  BY DEF Cua!DeleteGolden, Cua!At, None
<1>2. call' \in Calls /\ call'.pc = "idle"
  BY <1>1, CallReturns
<1>3. /\ snap' \in [CuaSnaps -> {"free", "there", "gone"}]
      /\ \A s \in CuaSnaps : snap'[s] = "there" => snap[s] = "there" /\ (s = checkpoint => s = checkpoint')
  BY <1>1 DEF CuaTyping, Cua!Deleted
<1>4. CuaTyping'
  BY <1>1, <1>2, <1>3 DEF CuaTyping, None, Cua!None
<1>5. OwnedOK'
  BY <1>1, <1>3 DEF OwnedOK
<1>6. BuildOK'
  BY <1>1, <1>2 DEF BuildOK, Making, Joining
<1>7. TearOK'
  BY <1>2 DEF TearOK, Torn
<1> QED
  BY <1>4, <1>5, <1>6, <1>7

--------------------------------------------------------------------------------
(* CuaEnvs: the replica.                                                        *)

\* A box for the replica, or nothing.
LEMMA ResumeKeeps == ASSUME CuaParts, Cua!Resume PROVE CuaParts'
<1> USE EnvironmentsAssumption DEF CuaParts
<1>1. call.pc = "resume" /\ UNCHANGED <<checkpoint, handle, sess, owed, snap, conn, orphans>>
  BY DEF Cua!Resume, Cua!At, Cua!own
<1>2. CASE Cua!Goto("connect") /\ \E b \in CuaBoxes : Cua!Started(b) /\ build' = [Cua!NoBuild EXCEPT !.base = b]
  <2>1. call' \in Calls /\ call'.pc = "connect" /\ call'.name = call.name /\ call'.raises = call.raises
    BY <1>2, CallGoes DEF Pcs, Joining
  <2>2. PICK b \in CuaBoxes : Cua!Started(b) /\ build' = [Cua!NoBuild EXCEPT !.base = b]
    BY <1>2
  <2>3. build' = [base |-> b, connected |-> FALSE, snapshot |-> None, primary |-> FALSE, cleanup |-> FALSE]
    BY <2>2 DEF Cua!NoBuild, None
  <2>4. build' \in Builds /\ build'.base = b /\ build'.snapshot = None /\ ~build'.primary
    BY <2>3 DEF Builds, None, Cua!None
  <2>5. /\ sandbox[b] = "free" /\ sandbox' = [sandbox EXCEPT ![b] = "up"]
    BY <2>2 DEF Cua!Started
  <2>6. b \notin conn
    BY <2>5 DEF OwnedOK
  <2>7. build.base = None /\ build.snapshot = None
    BY <1>1 DEF BuildOK, Making, Joining, Cua!NoBuild, None
  <2>8. CuaTyping'
    BY <1>1, <2>1, <2>4, <2>5 DEF CuaTyping, None, Cua!None
  <2>9. OwnedOK'
    BY <1>1, <2>4, <2>5, <2>6, <2>7 DEF OwnedOK, CuaTyping, None, Cua!None
  <2>10. BuildOK'
    BY <1>1, <2>1, <2>2, <2>4, <2>5, <2>6 DEF BuildOK, Making, Joining, CuaTyping, None, Cua!None
  <2>11. TearOK'
    BY <1>1, <2>1 DEF TearOK, Torn, None, Cua!None
  <2> QED
    BY <2>8, <2>9, <2>10, <2>11
<1>3. CASE Cua!Return(TRUE) /\ UNCHANGED <<build, sandbox>>
  <2>1. call' \in Calls /\ call'.pc = "idle"
    BY <1>3, CallReturns
  <2>2. CuaTyping'
    BY <1>1, <1>3, <2>1 DEF CuaTyping, None, Cua!None
  <2>3. OwnedOK'
    BY <1>1, <1>3 DEF OwnedOK
  <2>4. BuildOK'
    BY <1>1, <1>3, <2>1 DEF BuildOK, Making, Joining, None, Cua!None
  <2>5. TearOK'
    BY <1>1, <2>1 DEF TearOK, Torn
  <2> QED
    BY <2>2, <2>3, <2>4, <2>5
<1> QED
  BY <1>2, <1>3 DEF Cua!Resume

\* The replica is the environment's once it is connected.
LEMMA CuaConnectKeeps == ASSUME CuaParts, Cua!Connect PROVE CuaParts'
<1> USE EnvironmentsAssumption DEF CuaParts
<1>1. /\ call.pc = "connect" /\ UNCHANGED <<checkpoint, owed, sandbox, snap, orphans>>
      /\ \/ /\ handle' = build.base /\ sess' = build.base /\ conn' = conn \cup {build.base}
            /\ build' = Cua!NoBuild /\ Cua!Goto("first_look")
         \/ Cua!Goto("destroy_unconnected") /\ UNCHANGED <<handle, sess, conn, build>>
  BY DEF Cua!Connect, Cua!At
<1>2. /\ call' \in Calls /\ call'.name = call.name /\ call'.raises = call.raises
      /\ \/ /\ call'.pc = "first_look"
            /\ handle' = build.base /\ sess' = build.base /\ conn' = conn \cup {build.base} /\ build' = Cua!NoBuild
         \/ call'.pc = "destroy_unconnected" /\ UNCHANGED <<handle, sess, conn, build>>
  BY <1>1, CallGoes DEF Pcs, Joining
<1>3. /\ build.base \in CuaBoxes /\ sandbox[build.base] = "up" /\ build.base \notin conn /\ build.snapshot = None
      /\ handle = None /\ sess = None /\ call.name = "reset" /\ ~call.raises
  BY <1>1 DEF BuildOK, TearOK, Joining, Torn
<1>4. /\ Cua!NoBuild \in Builds /\ Cua!NoBuild.base = None /\ Cua!NoBuild.snapshot = None /\ ~Cua!NoBuild.primary
  BY DEF Cua!NoBuild, Builds, None, Cua!None
<1>5. CuaTyping'
  <2>1. build' \in Builds /\ conn' \subseteq CuaBoxes
    BY <1>2, <1>3, <1>4 DEF CuaTyping
  <2>2. handle' \in CuaBoxes \cup {None} /\ sess' \in {None, handle'}
    BY <1>2, <1>3 DEF CuaTyping
  <2> QED
    BY <1>1, <1>2, <2>1, <2>2 DEF CuaTyping, None, Cua!None
<1>6. OwnedOK'
  <2>1. CASE call'.pc = "first_look"
    <3>1. handle' = build.base /\ sess' = build.base /\ conn' = conn \cup {build.base}
          /\ build'.base = None /\ build'.snapshot = None
      BY <1>2, <1>4, <2>1
    <3> QED
      BY <1>1, <1>3, <3>1 DEF OwnedOK, CuaTyping, None, Cua!None
  <2>2. CASE UNCHANGED <<handle, sess, conn, build>>
    BY <1>1, <2>2 DEF OwnedOK
  <2> QED
    BY <1>2, <2>1, <2>2
<1>7. BuildOK'
  <2>1. CASE call'.pc = "first_look"
    BY <1>2, <1>4, <2>1 DEF BuildOK, Making, Joining
  <2>2. CASE call'.pc = "destroy_unconnected" /\ UNCHANGED <<handle, sess, conn, build>>
    BY <1>1, <1>3, <2>2 DEF BuildOK, Making, Joining
  <2> QED
    BY <1>2, <2>1, <2>2
<1>8. TearOK'
  BY <1>2, <1>3 DEF TearOK, Torn
<1> QED
  BY <1>5, <1>6, <1>7, <1>8

\* connect_owned_handle takes down what it could not connect to, or loses it.
LEMMA DestroyUnconnectedKeeps == ASSUME CuaParts, Cua!DestroyUnconnected PROVE CuaParts'
<1> USE EnvironmentsAssumption DEF CuaParts
<1>1. /\ call.pc = "destroy_unconnected" /\ UNCHANGED <<checkpoint, handle, sess, owed, snap>>
      /\ Cua!Return(TRUE) /\ build' = Cua!NoBuild
      /\ \/ Cua!Removed(build.base) /\ orphans' = orphans
         \/ (Cua!Removed(build.base) \/ UNCHANGED <<sandbox, conn>>) /\ orphans' = orphans \cup {build.base}
  BY DEF Cua!DestroyUnconnected, Cua!DestroyRaises, Cua!At, Cua!own
<1>2. call' \in Calls /\ call'.pc = "idle"
  BY <1>1, CallReturns
<1>3. build.base \in CuaBoxes /\ build.base \notin conn /\ build.snapshot = None
  BY <1>1 DEF BuildOK, Joining
<1>4. build' \in Builds /\ build'.base = None /\ build'.snapshot = None /\ ~build'.primary
  BY <1>1 DEF Cua!NoBuild, Builds, None, Cua!None
<1>5. /\ sandbox' \in [CuaBoxes -> {"free", "up", "gone"}] /\ conn' \subseteq conn
      /\ \A c \in CuaBoxes : sandbox'[c] = "up" => sandbox[c] = "up"
      /\ \A c \in CuaBoxes : sandbox[c] = "up" /\ c \in conn' => sandbox'[c] = "up"
      /\ Cua!Removed(build.base) => sandbox'[build.base] = "gone"
  BY <1>1, <1>3, RemovedOrNot
<1>6. CuaTyping'
  BY <1>1, <1>2, <1>3, <1>4, <1>5 DEF CuaTyping, None, Cua!None
<1>7. OwnedOK'
  <2>1. sandbox'[build.base] # "up" \/ build.base \in orphans'
    BY <1>1, <1>5
  <2>2. \A b \in CuaBoxes : sandbox'[b] = "up" => b \in {handle', build'.base} \cup owed'.handles \cup orphans'
    BY <1>1, <1>5, <2>1 DEF OwnedOK
  <2>3. \A b \in conn' : sandbox'[b] = "up" /\ b \in {sess', build'.base} \cup owed'.sessions
    BY <1>1, <1>3, <1>5 DEF OwnedOK, CuaTyping
  <2>4. \A s \in CuaSnaps : snap'[s] = "there" => s \in {checkpoint', build'.snapshot} \cup owed'.snapshots
    BY <1>1, <1>3, <1>4 DEF OwnedOK
  <2> QED
    BY <2>2, <2>3, <2>4 DEF OwnedOK
<1>8. BuildOK'
  BY <1>1, <1>2, <1>4 DEF BuildOK, Making, Joining
<1>9. TearOK'
  BY <1>2 DEF TearOK, Torn
<1> QED
  BY <1>6, <1>7, <1>8, <1>9

\* The first observation of an episode, or its teardown.
LEMMA FirstLookKeeps == ASSUME CuaParts, Cua!FirstLook PROVE CuaParts'
<1> USE EnvironmentsAssumption DEF CuaParts
<1>1. /\ call.pc = "first_look" /\ UNCHANGED <<build, checkpoint, handle, sess, owed, sandbox, snap, conn, orphans>>
      /\ Cua!Return(FALSE) \/ Cua!GotoRaising("close_sess")
  BY DEF Cua!FirstLook, Cua!At, Cua!own, Cua!world
<1>2. call' \in Calls /\ call'.pc \in {"idle", "close_sess"}
  BY <1>1, CallReturns, CallGoesRaising DEF Pcs
<1>3. CuaTyping'
  BY <1>1, <1>2 DEF CuaTyping, None, Cua!None
<1>4. OwnedOK'
  BY <1>1 DEF OwnedOK
<1>5. BuildOK'
  BY <1>1, <1>2 DEF BuildOK, Making, Joining
<1>6. TearOK'
  BY <1>2 DEF TearOK, Torn
<1> QED
  BY <1>3, <1>4, <1>5, <1>6

--------------------------------------------------------------------------------
(* CuaEnvs: every step, and what a dispose() that does not raise leaves.        *)

\* Every step but for what dispose() promises.
LEMMA CuaPartsStep == ASSUME CuaParts, [Cua!CuaNext]_cuaVars PROVE CuaParts'
<1>1. CASE UNCHANGED cuaVars
  <2> USE <1>1 DEF cuaVars
  <2>1. CuaTyping' /\ OwnedOK'
    BY DEF CuaParts, CuaTyping, OwnedOK, None, Cua!None
  <2>2. BuildOK' /\ TearOK'
    BY DEF CuaParts, BuildOK, TearOK, None, Cua!None, Cua!NoBuild
  <2> QED
    BY <2>1, <2>2 DEF CuaParts
<1>2. CASE Cua!Reset \/ Cua!Close \/ Cua!Dispose
  <2>1. CASE Cua!Reset
    <3>1. CASE checkpoint = None
      <4>1. Cua!Begin("reset", "create")
        BY <2>1, <3>1 DEF Cua!Reset, None
      <4> QED
        BY <3>1, <4>1, BeginKeeps
    <3>2. CASE checkpoint # None
      <4>1. Cua!Begin("reset", "close_sess")
        BY <2>1, <3>2 DEF Cua!Reset, None
      <4> QED
        BY <4>1, BeginKeeps
    <3> QED
      BY <3>1, <3>2
  <2>2. CASE Cua!Close
    BY <2>2, BeginKeeps DEF Cua!Close
  <2>3. CASE Cua!Dispose
    BY <2>3, BeginKeeps DEF Cua!Dispose
  <2> QED
    BY <1>2, <2>1, <2>2, <2>3
<1>3. CASE Cua!Create \/ Cua!ConnectBase \/ Cua!Setup \/ Cua!TakeGolden \/ Cua!CloseBase \/ Cua!DestroyBase \/ Cua!Built
  BY <1>3, CuaCreateKeeps, ConnectBaseKeeps, CuaSetupKeeps, TakeGoldenKeeps, CloseBaseKeeps, CuaDestroyBaseKeeps, BuiltKeeps
<1>4. CASE Cua!CloseSess \/ Cua!DestroyReplica \/ Cua!DrainSessions \/ Cua!DrainHandles \/ Cua!DrainSnapshots
           \/ Cua!TornDown \/ Cua!DeleteGolden
  BY <1>4, CloseSessKeeps, CuaDestroyReplicaKeeps, DrainSessionsKeeps, DrainHandlesKeeps, DrainSnapshotsKeeps,
     TornDownKeeps, DeleteGoldenKeeps
<1>5. CASE Cua!Resume \/ Cua!Connect \/ Cua!DestroyUnconnected \/ Cua!FirstLook
  BY <1>5, ResumeKeeps, CuaConnectKeeps, DestroyUnconnectedKeeps, FirstLookKeeps
<1> QED
  BY <1>1, <1>2, <1>3, <1>4, <1>5 DEF Cua!CuaNext

\* What the environment holds is all there is between two calls.
LEMMA CuaOwnsAll == CuaParts => Cua!EverythingOwned
<1> SUFFICES ASSUME CuaParts, call = Cua!NoOp
             PROVE  /\ Cua!Up \subseteq {handle} \cup owed.handles \cup orphans
                    /\ conn \subseteq {sess} \cup owed.sessions
                    /\ Cua!There \subseteq {checkpoint} \cup owed.snapshots
  BY DEF Cua!EverythingOwned
<1>1. build.base = None /\ build.snapshot = None
  BY DEF CuaParts, BuildOK, Making, Joining, Cua!NoOp, Cua!NoBuild, None
<1>2. None \notin CuaBoxes /\ None \notin CuaSnaps
  BY EnvironmentsAssumption DEF None, Cua!None
<1> QED
  BY <1>1, <1>2 DEF CuaParts, OwnedOK, CuaTyping, Cua!Up, Cua!There

\* A call goes on, raises, or is not dispose().
Unfinished == call'.pc # "idle" \/ last'.raised = TRUE \/ last'.name # "dispose"

\* Only the last step of dispose() ends one that does not raise.
LEMMA DisposeEndsLast == ASSUME CuaParts, Cua!CuaNext PROVE Unfinished \/ Cua!DeleteGolden
<1>0. CuaTyping /\ TearOK
  BY DEF CuaParts
<1>1. ASSUME NEW pc \in Pcs \ {"idle"}, Cua!Goto(pc) \/ Cua!GotoRaising(pc) PROVE Unfinished
  BY <1>0, <1>1, CallGoes, CallGoesRaising DEF Unfinished
<1>2. ASSUME Cua!Return(TRUE) PROVE Unfinished
  BY <1>2 DEF Unfinished, Cua!Return
<1>3. CASE Cua!Reset \/ Cua!Close \/ Cua!Dispose
  BY <1>3 DEF Cua!Reset, Cua!Close, Cua!Dispose, Cua!Begin, Unfinished
<1>4. CASE Cua!Create \/ Cua!ConnectBase \/ Cua!Setup \/ Cua!TakeGolden \/ Cua!CloseBase \/ Cua!DestroyBase \/ Cua!Built
  <2> USE <1>1, <1>2 DEF Pcs, Making
  <2>1. CASE Cua!Create
    BY <2>1 DEF Cua!Create
  <2>2. CASE Cua!ConnectBase
    BY <2>2 DEF Cua!ConnectBase
  <2>3. CASE Cua!Setup
    BY <2>3 DEF Cua!Setup
  <2>4. CASE Cua!TakeGolden \/ Cua!CloseBase \/ Cua!DestroyBase
    BY <2>4 DEF Cua!TakeGolden, Cua!CloseBase, Cua!DestroyBase
  <2>5. CASE Cua!Built
    BY <2>5 DEF Cua!Built
  <2> QED
    BY <1>4, <2>1, <2>2, <2>3, <2>4, <2>5
<1>5. CASE Cua!CloseSess \/ Cua!DestroyReplica \/ Cua!DrainSessions \/ Cua!DrainHandles \/ Cua!DrainSnapshots
  <2> USE <1>1 DEF Pcs, Torn
  <2>1. CASE Cua!CloseSess
    BY <2>1 DEF Cua!CloseSess
  <2>2. CASE Cua!DestroyReplica
    BY <2>2 DEF Cua!DestroyReplica
  <2>3. CASE Cua!DrainSessions
    BY <2>3 DEF Cua!DrainSessions
  <2>4. CASE Cua!DrainHandles
    BY <2>4 DEF Cua!DrainHandles
  <2>5. CASE Cua!DrainSnapshots
    BY <2>5 DEF Cua!DrainSnapshots
  <2> QED
    BY <1>5, <2>1, <2>2, <2>3, <2>4, <2>5
<1>6. CASE Cua!TornDown
  <2>1. \/ Cua!Goto("delete_golden") \/ Cua!Goto("resume") \/ Cua!Return(TRUE)
        \/ call.name = "close" /\ last'.name = call.name
    BY <1>6 DEF Cua!TornDown, Cua!Return
  <2> QED
    BY <1>1, <1>2, <2>1 DEF Unfinished, Pcs, Torn
<1>7. CASE Cua!Resume \/ Cua!Connect \/ Cua!DestroyUnconnected
  <2> USE <1>1, <1>2 DEF Pcs, Torn, Joining
  <2>1. CASE Cua!Resume
    BY <2>1 DEF Cua!Resume
  <2>2. CASE Cua!Connect
    BY <2>2 DEF Cua!Connect
  <2>3. CASE Cua!DestroyUnconnected
    BY <2>3 DEF Cua!DestroyUnconnected
  <2> QED
    BY <1>7, <2>1, <2>2, <2>3
<1>8. CASE Cua!FirstLook
  <2>1. call.name = "reset"
    BY <1>0, <1>8 DEF Cua!FirstLook, Cua!At, TearOK
  <2>2. last'.name = call.name \/ Cua!GotoRaising("close_sess")
    BY <1>8 DEF Cua!FirstLook, Cua!Return
  <2> QED
    BY <1>1, <2>1, <2>2 DEF Unfinished, Pcs
<1> QED
  BY <1>3, <1>4, <1>5, <1>6, <1>7, <1>8 DEF Cua!CuaNext

\* dispose() returns without raising only when its teardown and its delete worked.
LEMMA DisposeLeavesNothing ==
    ASSUME CuaParts, Cua!DeleteGolden, last'.raised = FALSE
    PROVE  Cua!Up' \subseteq orphans' /\ conn' = {} /\ Cua!There' = {}
<1> USE EnvironmentsAssumption DEF CuaParts
<1>1. /\ call.pc = "delete_golden" /\ UNCHANGED <<build, handle, sess, owed, sandbox, conn, orphans>>
      /\ Cua!Return(call.raises)
      /\ \/ checkpoint = None /\ UNCHANGED snap
         \/ snap' = Cua!Deleted({checkpoint})
  BY DEF Cua!DeleteGolden, Cua!At, Cua!Return, None
<1>2. ~call.raises
  BY <1>1 DEF Cua!Return, CuaTyping, Calls
<1>3. handle = None /\ sess = None /\ owed.sessions = {} /\ owed.handles = {} /\ owed.snapshots = {}
  BY <1>1, <1>2 DEF TearOK, Torn
<1>4. build.base = None /\ build.snapshot = None
  BY <1>1 DEF BuildOK, Making, Joining, Cua!NoBuild, None
<1>5. None \notin CuaBoxes /\ None \notin CuaSnaps
  BY DEF None, Cua!None
<1>6. \A b \in CuaBoxes : sandbox'[b] = "up" => b \in orphans'
  BY <1>1, <1>3, <1>4, <1>5 DEF OwnedOK
<1>7. conn' = {}
  BY <1>1, <1>3, <1>4, <1>5 DEF OwnedOK, CuaTyping
<1>8. \A s \in CuaSnaps : snap'[s] # "there"
  <2>1. \A s \in CuaSnaps : snap[s] = "there" => s = checkpoint
    BY <1>3, <1>4, <1>5 DEF OwnedOK
  <2>2. CASE checkpoint = None /\ UNCHANGED snap
    BY <1>5, <2>1, <2>2
  <2>3. CASE snap' = Cua!Deleted({checkpoint})
    BY <2>1, <2>3 DEF Cua!Deleted
  <2> QED
    BY <1>1, <2>2, <2>3
<1> QED
  BY <1>6, <1>7, <1>8 DEF Cua!Up, Cua!There

\* Every step of an environment.
LEMMA CuaSteps == CuaInv /\ [Cua!CuaNext]_cuaVars => CuaInv'
<1> SUFFICES ASSUME CuaInv, [Cua!CuaNext]_cuaVars PROVE CuaInv'
  OBVIOUS
<1>1. CuaParts
  BY DEF CuaInv, CuaParts
<1>2. CuaParts'
  BY <1>1, CuaPartsStep
<1>3. Cua!DisposedIsClean'
  <2>1. CASE UNCHANGED cuaVars
    BY <2>1 DEF CuaInv, cuaVars, Cua!DisposedIsClean, Cua!Up, Cua!There, Cua!NoOp
  <2>2. CASE Cua!CuaNext
    <3> SUFFICES ASSUME call' = Cua!NoOp, last' = [name |-> "dispose", raised |-> FALSE]
                 PROVE  Cua!Up' \subseteq orphans' /\ conn' = {} /\ Cua!There' = {}
      BY DEF Cua!DisposedIsClean, Cua!NoOp
    <3>1. ~Unfinished
      BY DEF Unfinished, Cua!NoOp
    <3>2. Cua!DeleteGolden
      BY <1>1, <2>2, <3>1, DisposeEndsLast
    <3> QED
      BY <1>1, <3>2, DisposeLeavesNothing
  <2> QED
    BY <2>1, <2>2
<1> QED
  BY <1>2, <1>3 DEF CuaInv, CuaParts

\* What the invariant says of what is left.
LEMMA CuaIsSound == CuaInv => Cua!EnvCleansUp
BY CuaOwnsAll DEF CuaInv, CuaParts, Cua!EnvCleansUp

--------------------------------------------------------------------------------
(* The evaluation loops: the inductive invariant.                               *)

Excs == {"none", "setup", "died", "conn", "timeout", "scorer", "other"}

EvalRows ==
    [kind : {"none", "setup", "sandbox_died", "error", "pass", "fail"},
     reason : {"none", "setup_error", "sandbox_died", "scorer_error", "agent_error", "task_complete"},
     confirmed : BOOLEAN, cause : {"none", "dead", "alive", "verdict"}, exc : Excs]

GoldenStages == {"create", "golden_connect", "golden_setup", "checkpoint", "golden_failed"}
\* Stages of a run that has its sandbox, or may have it.
HeldStages == {"connect", "not_provisioned", "setup", "run", "verify", "refine", "record"}
LastStages == {"destroy_base", "delete_checkpoint"}

EvalTyping ==
    /\ mode \in {"fresh", "forked"}
    /\ stage \in GoldenStages \cup HeldStages \cup LastStages \cup {"resume", "destroy_replica", "returned", "raised"}
    /\ run \in 1 .. EvalRuns + 1
    /\ box \in [Eval!Boxes -> {"free", "up", "dead", "gone"}]
    /\ ckpt \in {"none", "there", "gone"}
    /\ faulty \in Nat
    /\ row \in EvalRows /\ results \in Seq(EvalRows)

\* A row that says what happened in run k.
TrueRow(r, k) ==
    /\ r.cause = "dead" /\ r.exc # "timeout" => r.kind = "sandbox_died"
    /\ r.kind \in {"pass", "fail"} <=> r.cause = "verdict"
    /\ r.confirmed => {k, Eval!Base} \cap died # {}

\* What a call on box b has raised, before anybody is asked about it.
Unclassified(b) ==
    /\ row.cause \in {"dead", "alive"} /\ row.exc # "died"
    /\ row.cause = "dead" => box[b] = "dead" /\ row.exc \in {"conn", "timeout"}

RowsOK ==
    /\ \A k \in DOMAIN results : TrueRow(results[k], k)
    /\ stage = "golden_failed" => Unclassified(Eval!Base)
    /\ stage = "not_provisioned" => Unclassified(run)
    /\ stage \in {"refine", "record"} => TrueRow(row, run)
    /\ stage = "refine" => row.exc # "died"

\* One row for every run that is over.
ProgressOK ==
    /\ stage \in GoldenStages \cup {"raised"} => run = 1 /\ results = <<>>
    /\ stage \in HeldStages \cup {"resume"} => Len(results) = run - 1
    /\ stage = "destroy_replica" => Len(results) = run
    /\ stage \in LastStages \cup {"returned"} => Len(results) = EvalRuns
    /\ stage \in HeldStages \cup {"destroy_replica"} => run # EvalRuns + 1
    /\ stage \in GoldenStages \cup LastStages \cup {"destroy_replica"} => mode = "forked"

\* A sandbox that is not there, or that the provider would not take down.
Settled(b) == box[b] \in {"free", "gone"} \/ b \in kept

\* A forked evaluation holds the replica of the run under way, the base and the checkpoint.
BoxesOK ==
    /\ \A b \in Eval!Boxes : box[b] = "dead" => b \in died
    /\ mode = "forked" =>
        /\ \A b \in Eval!Runs : Settled(b) \/ (b = run /\ stage \in HeldStages \cup {"destroy_replica"})
        /\ stage \in {"delete_checkpoint", "returned"} => Settled(Eval!Base)
        /\ stage = "returned" => ckpt # "there" \/ Eval!Ckpt \in kept

EvalInv == EvalTyping /\ RowsOK /\ ProgressOK /\ BoxesOK

--------------------------------------------------------------------------------
(* A scorer in a process of its own: the inductive invariant.                   *)

ScorerInv ==
    /\ form \in {"command", "fork"} /\ child \in {"scoring", "writing", "written", "exited"}
    /\ code \in {"none", "zero", "nonzero", "killed"} /\ helper \in {"none", "there"}
    /\ file \in {"absent", "complete"} /\ parent \in {"waiting", "killed", "reaped", "done"} /\ late \in BOOLEAN
    /\ parent # "waiting" => child = "exited"
    /\ child = "exited" => code # "none"
    /\ code = "killed" => late
    /\ parent = "done" => said = Score!Answer

--------------------------------------------------------------------------------
(* The evaluation loops: what is raised and how it is classified.               *)

\* Classes tell infrastructure from agents, and no exception is a verdict.
LEMMA Classified ==
    ASSUME NEW e \in Excs, NEW c \in {"dead", "alive"}, NEW class,
           class = Eval!ClassifyRun(e) \/ class = Eval!ClassifyVerifier(e),
           NEW r, r = Eval!RowOf(class, e, c)
    PROVE  /\ r \in EvalRows /\ r.exc = e /\ r.cause = c
           /\ r.confirmed <=> e = "died"
           /\ r.kind \in {"setup", "sandbox_died", "error"}
           /\ e \in {"died", "conn"} => r.kind = "sandbox_died"
<1>1. /\ class.kind \in {"setup", "sandbox_died", "error"}
      /\ class.reason \in {"setup_error", "sandbox_died", "scorer_error", "agent_error"}
      /\ e \in {"died", "conn"} => class.kind = "sandbox_died"
  <2>1. LET d == Eval!ClassifyRun(e)
        IN /\ d.kind \in {"setup", "sandbox_died", "error"}
           /\ d.reason \in {"setup_error", "sandbox_died", "scorer_error", "agent_error"}
           /\ e \in {"died", "conn"} => d.kind = "sandbox_died"
    BY DEF Eval!ClassifyRun, Excs
  <2> QED
    BY <2>1 DEF Eval!ClassifyVerifier, Eval!AllScorer
<1>2. r = [kind |-> class.kind, reason |-> class.reason, confirmed |-> e = "died", cause |-> c, exc |-> e]
  BY DEF Eval!RowOf
<1>3. /\ r.kind = class.kind /\ r.reason = class.reason /\ r.cause = c /\ r.exc = e
      /\ r.confirmed = (e = "died")
  BY <1>2
<1>4. r.confirmed \in BOOLEAN
  BY <1>3
<1>5. r \in EvalRows
  BY <1>1, <1>2 DEF EvalRows
<1> QED
  BY <1>1, <1>3, <1>5

\* A dead sandbox loses the connection or times out.
LEMMA RaisedOnes ==
    ASSUME NEW b, NEW extra \in SUBSET {"setup", "scorer"}, NEW e \in Eval!Raised(b, extra)
    PROVE  /\ e \in Excs /\ e # "died"
           /\ Eval!Cause(b) \in {"dead", "alive"}
           /\ Eval!Cause(b) = "dead" => box[b] = "dead" /\ e \in {"conn", "timeout"}
BY DEF Eval!Raised, Eval!Cause, Excs

\* The probe confirms deaths that have happened.
LEMMA ConfirmedOnes ==
    ASSUME NEW b, NEW e, NEW f \in Eval!Confirmed(e, b)
    PROVE  f = e \/ (f = "died" /\ box[b] = "dead" /\ e \in {"conn", "timeout"})
BY DEF Eval!Confirmed

\* The row of what was raised before the run began, asked about or not.
LEMMA RowIsTrue ==
    ASSUME EvalInv, NEW b \in Eval!Boxes, Unclassified(b), NEW k, b \in {k, Eval!Base},
           NEW e, e \in Eval!Confirmed(row.exc, b) \/ e = row.exc
    PROVE  LET r == Eval!RowOf(Eval!ClassifyRun(e), e, row.cause) IN r \in EvalRows /\ TrueRow(r, k)
<1> DEFINE r == Eval!RowOf(Eval!ClassifyRun(e), e, row.cause)
<1>1. row.exc \in Excs
  BY DEF EvalInv, EvalTyping, EvalRows
<1>2. e = row.exc \/ (e = "died" /\ box[b] = "dead" /\ row.exc \in {"conn", "timeout"})
  BY ConfirmedOnes
<1>3. e \in Excs /\ row.cause \in {"dead", "alive"}
  BY <1>1, <1>2 DEF Excs, Unclassified
<1>4. /\ r \in EvalRows /\ r.exc = e /\ r.cause = row.cause
      /\ r.confirmed <=> e = "died"
      /\ r.kind \in {"setup", "sandbox_died", "error"}
      /\ e \in {"died", "conn"} => r.kind = "sandbox_died"
  BY <1>3, Classified
<1>5. e = "died" => b \in died
  BY <1>2 DEF EvalInv, BoxesOK, Unclassified
<1>6. r.cause = "dead" /\ r.exc # "timeout" => r.kind = "sandbox_died"
  BY <1>2, <1>4 DEF Unclassified
<1> HIDE DEF r
<1>7. TrueRow(r, k)
  BY <1>3, <1>4, <1>5, <1>6 DEF TrueRow
<1> QED
  BY <1>4, <1>7 DEF r

--------------------------------------------------------------------------------
(* The evaluation loops: every step keeps the invariant.                        *)

\* The first state.
LEMMA EvalStarts == Eval!EvalInit => EvalInv
<1> SUFFICES ASSUME Eval!EvalInit PROVE EvalInv
  OBVIOUS
<1> USE EnvironmentsAssumption DEF Eval!EvalInit
<1>1. EvalTyping
  BY DEF EvalTyping, EvalRows, Excs, Eval!NoRow, GoldenStages, HeldStages, LastStages
<1>2. RowsOK
  BY DEF RowsOK
<1>3. ProgressOK
  BY DEF ProgressOK, GoldenStages, HeldStages, LastStages
<1>4. BoxesOK
  BY DEF BoxesOK, Settled, Eval!Boxes, Eval!Runs
<1> QED
  BY <1>1, <1>2, <1>3, <1>4 DEF EvalInv

\* A sandbox dies: no row is less true for it.
LEMMA DieKeeps == ASSUME EvalInv, NEW b \in Eval!Boxes, Eval!Die(b) PROVE EvalInv'
<1> USE DEF Eval!Die, EvalInv
<1>1. EvalTyping'
  BY DEF EvalTyping
<1>2. RowsOK'
  <2>1. \A r, k : TrueRow(r, k) => TrueRow(r, k)'
    BY DEF TrueRow
  <2>2. \A c \in Eval!Boxes : box[c] = "dead" => box'[c] = "dead"
    BY DEF EvalTyping
  <2>3. Eval!Base \in Eval!Boxes /\ (stage = "not_provisioned" => run \in Eval!Boxes)
    BY EnvironmentsAssumption DEF Eval!Base, Eval!Boxes, EvalTyping, ProgressOK, HeldStages
  <2>4. \A c \in Eval!Boxes : Unclassified(c) => Unclassified(c)'
    BY <2>2 DEF Unclassified
  <2> QED
    BY <2>1, <2>3, <2>4 DEF RowsOK
<1>3. ProgressOK'
  BY DEF ProgressOK
<1>4. BoxesOK'
  <2>1. \A c \in Eval!Boxes : Settled(c) => Settled(c)'
    BY DEF Settled, EvalTyping
  <2>2. Eval!Base \in Eval!Boxes /\ Eval!Runs \subseteq Eval!Boxes
    BY EnvironmentsAssumption DEF Eval!Base, Eval!Boxes, Eval!Runs
  <2>3. \A c \in Eval!Boxes : box'[c] = "dead" => c \in died'
    BY DEF BoxesOK, EvalTyping
  <2> QED
    BY <2>1, <2>2, <2>3 DEF BoxesOK
<1> QED
  BY <1>1, <1>2, <1>3, <1>4

\* The base is made.
LEMMA CreateBaseKeeps == ASSUME EvalInv, Eval!CreateBase PROVE EvalInv'
<1> USE EnvironmentsAssumption DEF Eval!CreateBase, EvalInv
<1>1. EvalTyping'
  BY DEF EvalTyping, GoldenStages, HeldStages, LastStages
<1>2. RowsOK'
  BY DEF RowsOK, TrueRow
<1>3. ProgressOK'
  BY DEF ProgressOK, GoldenStages, HeldStages, LastStages
<1>4. BoxesOK'
  BY DEF BoxesOK, Settled, HeldStages, Eval!Runs, Eval!Boxes, Eval!Base, EvalTyping
<1> QED
  BY <1>1, <1>2, <1>3, <1>4

\* The golden state is brought about, or fails.
LEMMA GoldenKeeps == ASSUME EvalInv, Eval!Golden PROVE EvalInv'
<1> USE EnvironmentsAssumption DEF EvalInv
<1>1. /\ stage \in {"golden_connect", "golden_setup", "checkpoint"}
      /\ UNCHANGED <<mode, run, results, box, died, kept>>
      /\ stage' \in {"golden_setup", "checkpoint", "resume", "golden_failed"}
      /\ ckpt' \in {ckpt, "there"} /\ faulty' \in {faulty, faulty + 1}
  BY DEF Eval!Golden, Eval!GoldenStep, Eval!Counted
<1>0. \/ row' = row /\ stage' # "golden_failed"
      \/ \E e \in Eval!Raised(Eval!Base, {"setup"}) :
           row' = [Eval!NoRow EXCEPT !.exc = e, !.cause = Eval!Cause(Eval!Base)]
  BY DEF Eval!Golden, Eval!GoldenStep
<1>2. row' \in EvalRows /\ (stage' = "golden_failed" => Unclassified(Eval!Base)')
  <2>1. CASE row' = row /\ stage' # "golden_failed"
    BY <2>1 DEF EvalTyping
  <2>2. CASE \E e \in Eval!Raised(Eval!Base, {"setup"}) :
                 row' = [Eval!NoRow EXCEPT !.exc = e, !.cause = Eval!Cause(Eval!Base)]
    <3>1. PICK e \in Eval!Raised(Eval!Base, {"setup"}) :
                 row' = [Eval!NoRow EXCEPT !.exc = e, !.cause = Eval!Cause(Eval!Base)]
      BY <2>2
    <3>2. /\ e \in Excs /\ e # "died" /\ Eval!Cause(Eval!Base) \in {"dead", "alive"}
          /\ Eval!Cause(Eval!Base) = "dead" => box[Eval!Base] = "dead" /\ e \in {"conn", "timeout"}
      BY RaisedOnes
    <3>3. box'[Eval!Base'] = box[Eval!Base]
      BY <1>1 DEF Eval!Base
    <3> QED
      BY <3>1, <3>2, <3>3, <1>1 DEF Eval!NoRow, EvalRows, Unclassified
  <2> QED
    BY <1>0, <2>1, <2>2
<1>3. EvalTyping'
  <2>1. /\ stage' \in GoldenStages \cup {"resume"} /\ ckpt' \in {"none", "there", "gone"} /\ faulty' \in Nat
    BY <1>1 DEF EvalTyping, GoldenStages
  <2> QED
    BY <1>1, <1>2, <2>1 DEF EvalTyping
<1>4. RowsOK'
  <2>1. \A r, k : TrueRow(r, k) => TrueRow(r, k)'
    BY <1>1 DEF TrueRow
  <2>2. stage' \in {"golden_failed", "golden_setup", "checkpoint", "resume"}
    BY <1>1
  <2> QED
    BY <1>1, <1>2, <2>1, <2>2 DEF RowsOK
<1>5. ProgressOK'
  BY <1>1 DEF ProgressOK, GoldenStages, HeldStages, LastStages
<1>6. BoxesOK'
  BY <1>1 DEF BoxesOK, Settled, HeldStages, Eval!Runs, Eval!Boxes, EvalTyping
<1> QED
  BY <1>3, <1>4, <1>5, <1>6

\* The failure of the golden state is the row of every run.
LEMMA GoldenFailedKeeps == ASSUME EvalInv, Eval!GoldenFailed PROVE EvalInv'
<1> USE EnvironmentsAssumption DEF EvalInv
<1>1. /\ stage = "golden_failed" /\ stage' = "destroy_base"
      /\ UNCHANGED <<mode, run, row, box, ckpt, died, kept, faulty>>
  BY DEF Eval!GoldenFailed
<1>2. PICK e \in Eval!Confirmed(row.exc, Eval!Base) :
         results' = [k \in Eval!Runs |-> Eval!RowOf(Eval!ClassifyRun(e), e, row.cause)]
  BY DEF Eval!GoldenFailed
<1> DEFINE r == Eval!RowOf(Eval!ClassifyRun(e), e, row.cause)
<1>3. r \in EvalRows /\ \A k : TrueRow(r, k)
  <2>1. Eval!Base \in Eval!Boxes /\ Unclassified(Eval!Base)
    BY <1>1 DEF RowsOK, Eval!Base, Eval!Boxes
  <2> QED
    BY <2>1, RowIsTrue
<1>4. results' = [k \in 1 .. EvalRuns |-> r]
  BY <1>2 DEF Eval!Runs
<1> HIDE DEF r
<1>5. results' \in Seq(EvalRows) /\ Len(results') = EvalRuns /\ DOMAIN results' = 1 .. EvalRuns
  BY <1>3, <1>4
<1>6. EvalTyping'
  BY <1>1, <1>5 DEF EvalTyping, LastStages
<1>7. RowsOK'
  <2>1. \A k \in DOMAIN results' : results'[k] = r
    BY <1>4
  <2>2. \A k \in DOMAIN results' : TrueRow(results[k], k)'
    BY <1>1, <1>3, <2>1 DEF TrueRow
  <2> QED
    BY <1>1, <2>2 DEF RowsOK
<1>8. ProgressOK'
  BY <1>1, <1>5 DEF ProgressOK, GoldenStages, HeldStages, LastStages
<1>9. BoxesOK'
  BY <1>1 DEF BoxesOK, Settled, HeldStages, EvalTyping
<1> QED
  BY <1>6, <1>7, <1>8, <1>9

\* What a step of a run may do: it has the sandbox it needs, and only says what happened.
LEMMA RunKeeps ==
    ASSUME EvalInv, UNCHANGED <<mode, run, results, ckpt, died, kept>>, run \in Eval!Runs,
           stage \in HeldStages \cup {"resume"}, stage' \in HeldStages,
           faulty' \in {faulty, faulty + 1}, row' \in EvalRows,
           box' \in {box, [box EXCEPT ![run] = "up"]},
           stage' = "not_provisioned" => Unclassified(run)',
           stage' \in {"refine", "record"} => TrueRow(row', run),
           stage' = "refine" => row'.exc # "died"
    PROVE  EvalInv'
<1> USE EnvironmentsAssumption DEF EvalInv
<1>1. EvalTyping'
  <2>1. box' \in [Eval!Boxes -> {"free", "up", "dead", "gone"}] /\ faulty' \in Nat
    BY DEF EvalTyping
  <2> QED
    BY <2>1 DEF EvalTyping
<1>2. RowsOK'
  <2>1. \A r, k : TrueRow(r, k) => TrueRow(r, k)'
    BY DEF TrueRow
  <2>2. TrueRow(row', run) => TrueRow(row, run)'
    BY DEF TrueRow
  <2>3. stage' # "golden_failed"
    BY DEF HeldStages
  <2> QED
    BY <2>1, <2>2, <2>3 DEF RowsOK
<1>3. ProgressOK'
  BY DEF ProgressOK, GoldenStages, HeldStages, LastStages, Eval!Runs
<1>4. BoxesOK'
  <2>1. run \in Eval!Boxes /\ Eval!Runs \subseteq Eval!Boxes
    BY DEF Eval!Runs, Eval!Boxes
  <2>2. \A b \in Eval!Boxes : b # run => box'[b] = box[b]
    BY DEF EvalTyping
  <2>3. box'[run] \in {box[run], "up"}
    BY <2>1 DEF EvalTyping
  <2>4. \A b \in Eval!Boxes : box'[b] = "dead" => b \in died'
    BY <2>2, <2>3 DEF BoxesOK
  <2>5. mode' = "forked" => \A b \in Eval!Runs : Settled(b)' \/ (b = run' /\ stage' \in HeldStages \cup {"destroy_replica"})
    BY <2>1, <2>2 DEF BoxesOK, Settled
  <2>6. stage' \notin {"delete_checkpoint", "returned"}
    BY DEF HeldStages
  <2> QED
    BY <2>4, <2>5, <2>6 DEF BoxesOK
<1> QED
  BY <1>1, <1>2, <1>3, <1>4

\* The row of a call that raised during a run, whether classified as the agent's or the scorer's.
LEMMA RowOfRaised ==
    ASSUME NEW b, NEW extra \in SUBSET {"setup", "scorer"}, NEW e \in Eval!Raised(b, extra),
           NEW class, class = Eval!ClassifyRun(e) \/ class = Eval!ClassifyVerifier(e), NEW k,
           NEW r, r = Eval!RowOf(class, e, Eval!Cause(b))
    PROVE  r \in EvalRows /\ TrueRow(r, k) /\ r.exc # "died"
<1>1. /\ e \in Excs /\ e # "died" /\ Eval!Cause(b) \in {"dead", "alive"}
      /\ Eval!Cause(b) = "dead" => e \in {"conn", "timeout"}
  BY RaisedOnes
<1>2. /\ r \in EvalRows /\ r.exc = e /\ r.cause = Eval!Cause(b) /\ ~r.confirmed
      /\ r.kind \in {"setup", "sandbox_died", "error"}
      /\ e \in {"died", "conn"} => r.kind = "sandbox_died"
  BY <1>1, Classified
<1> QED
  BY <1>1, <1>2 DEF TrueRow

\* A sandbox for the run, or none.
LEMMA MaterializeKeeps == ASSUME EvalInv, Eval!Materialize PROVE EvalInv'
<1>1. /\ stage = "resume" /\ run \in Eval!Runs
      /\ UNCHANGED <<mode, run, results, ckpt, died, kept>>
      /\ stage' \in {"connect", "not_provisioned"} /\ faulty' \in {faulty, faulty + 1}
      /\ box' \in {box, [box EXCEPT ![run] = "up"]}
  BY DEF Eval!Materialize
<1>2. row' \in EvalRows /\ (stage' = "not_provisioned" => Unclassified(run)')
  <2>1. CASE row' = row /\ stage' = "connect"
    BY <2>1 DEF EvalInv, EvalTyping
  <2>2. CASE row' = [Eval!NoRow EXCEPT !.exc = "other", !.cause = "alive"]
    BY <2>2 DEF Eval!NoRow, EvalRows, Excs, Unclassified
  <2> QED
    BY <2>1, <2>2 DEF Eval!Materialize
<1> QED
  BY <1>1, <1>2, RunKeeps DEF HeldStages

\* The connection to it.
LEMMA ConnectKeeps == ASSUME EvalInv, Eval!Connect PROVE EvalInv'
<1>1. /\ stage = "connect"
      /\ UNCHANGED <<mode, run, results, box, ckpt, died, kept>>
      /\ stage' \in {"setup", "run", "not_provisioned"} /\ faulty' \in {faulty, faulty + 1}
  BY DEF Eval!Connect, Eval!AfterConnect, Eval!Counted
<1>2. row' \in EvalRows /\ (stage' = "not_provisioned" => Unclassified(run)')
  <2>1. CASE row' = row /\ stage' # "not_provisioned"
    BY <2>1 DEF EvalInv, EvalTyping
  <2>2. CASE \E e \in Eval!Raised(run, {}) : row' = [Eval!NoRow EXCEPT !.exc = e, !.cause = Eval!Cause(run)]
    <3>1. PICK e \in Eval!Raised(run, {}) : row' = [Eval!NoRow EXCEPT !.exc = e, !.cause = Eval!Cause(run)]
      BY <2>2
    <3>2. /\ e \in Excs /\ e # "died" /\ Eval!Cause(run) \in {"dead", "alive"}
          /\ Eval!Cause(run) = "dead" => box[run] = "dead" /\ e \in {"conn", "timeout"}
      BY RaisedOnes
    <3> QED
      BY <3>1, <3>2, <1>1 DEF Eval!NoRow, EvalRows, Unclassified
  <2> QED
    BY <2>1, <2>2 DEF Eval!Connect, Eval!AfterConnect
<1>3. run \in Eval!Runs
  BY <1>1, EnvironmentsAssumption DEF EvalInv, EvalTyping, ProgressOK, HeldStages, Eval!Runs
<1> QED
  BY <1>1, <1>2, <1>3, RunKeeps DEF HeldStages

\* A run that never began.
LEMMA NotProvisionedKeeps == ASSUME EvalInv, Eval!NotProvisioned PROVE EvalInv'
<1>1. /\ stage = "not_provisioned" /\ stage' = "record"
      /\ UNCHANGED <<mode, run, results, box, ckpt, died, kept, faulty>>
  BY DEF Eval!NotProvisioned
<1>2. run \in Eval!Runs /\ run \in Eval!Boxes
  BY <1>1, EnvironmentsAssumption DEF EvalInv, EvalTyping, ProgressOK, HeldStages, Eval!Runs, Eval!Boxes
<1>3. PICK e : /\ e \in Eval!Confirmed(row.exc, run) \/ e = row.exc
               /\ row' = Eval!RowOf(Eval!ClassifyRun(e), e, row.cause)
  BY DEF Eval!NotProvisioned
<1>4. row' \in EvalRows /\ TrueRow(row', run)
  BY <1>1, <1>2, <1>3, RowIsTrue DEF EvalInv, RowsOK
<1> QED
  BY <1>1, <1>2, <1>4, RunKeeps DEF HeldStages

\* The task's setup and its run.
LEMMA RunTaskKeeps == ASSUME EvalInv, Eval!RunTask PROVE EvalInv'
<1>1. /\ stage \in {"setup", "run"} /\ stage' \in {"run", "verify", "refine"}
      /\ UNCHANGED <<mode, run, results, box, ckpt, died, kept>>
      /\ faulty' \in {faulty, faulty + 1}
  BY DEF Eval!RunTask, Eval!Counted
<1>2. run \in Eval!Runs
  BY <1>1, EnvironmentsAssumption DEF EvalInv, EvalTyping, ProgressOK, HeldStages, Eval!Runs
<1>3. row' \in EvalRows /\ (stage' = "refine" => TrueRow(row', run) /\ row'.exc # "died")
  <2>1. CASE row' = row /\ stage' # "refine"
    BY <2>1 DEF EvalInv, EvalTyping
  <2>2. CASE \E e \in Eval!Raised(run, {"setup", "scorer"}) : row' = Eval!RowOf(Eval!ClassifyRun(e), e, Eval!Cause(run))
    BY <2>2, RowOfRaised
  <2> QED
    BY <2>1, <2>2 DEF Eval!RunTask
<1> QED
  BY <1>1, <1>2, <1>3, RunKeeps DEF HeldStages

\* The verifier: a verdict, or the row of what kept it from one.
LEMMA VerifyKeeps == ASSUME EvalInv, Eval!Verify PROVE EvalInv'
<1>1. /\ stage = "verify" /\ stage' \in {"record", "refine"}
      /\ UNCHANGED <<mode, run, results, box, ckpt, died, kept>>
      /\ faulty' \in {faulty, faulty + 1}
  BY DEF Eval!Verify, Eval!Counted
<1>2. run \in Eval!Runs
  BY <1>1, EnvironmentsAssumption DEF EvalInv, EvalTyping, ProgressOK, HeldStages, Eval!Runs
<1>3. row' \in EvalRows /\ TrueRow(row', run) /\ (stage' = "refine" => row'.exc # "died")
  <2>1. CASE stage' = "record" /\ \E returned \in {"pass", "fail", "garbage"} : row' = Eval!Coerced(returned)
    <3>1. PICK returned \in {"pass", "fail", "garbage"} : row' = Eval!Coerced(returned)
      BY <2>1
    <3>2. CASE returned = "garbage"
      <4>1. row' = Eval!RowOf(Eval!ClassifyVerifier("scorer"), "scorer", "alive")
        BY <3>1, <3>2 DEF Eval!Coerced
      <4>2. row' \in EvalRows /\ row'.cause = "alive" /\ ~row'.confirmed
            /\ row'.kind \in {"setup", "sandbox_died", "error"}
        BY <4>1, Classified DEF Excs
      <4> QED
        BY <2>1, <4>2 DEF TrueRow
    <3>3. CASE returned \in {"pass", "fail"}
      <4>1. row' = [kind |-> returned, reason |-> "task_complete", confirmed |-> FALSE, cause |-> "verdict", exc |-> "none"]
        BY <3>1, <3>3 DEF Eval!Coerced, Eval!RowOf
      <4> QED
        BY <2>1, <3>3, <4>1 DEF TrueRow, EvalRows, Excs
    <3> QED
      BY <3>2, <3>3
  <2>2. CASE \E e \in Eval!Raised(run, {"scorer"}) : row' = Eval!RowOf(Eval!ClassifyVerifier(e), e, Eval!Cause(run))
    BY <2>2, RowOfRaised
  <2> QED
    BY <2>1, <2>2 DEF Eval!Verify
<1> QED
  BY <1>1, <1>2, <1>3, RunKeeps DEF HeldStages

\* What looked like a death is probed.
LEMMA RefineKeeps == ASSUME EvalInv, Eval!Refine PROVE EvalInv'
<1>1. /\ stage = "refine" /\ stage' = "record"
      /\ UNCHANGED <<mode, run, results, box, ckpt, died, kept, faulty>>
  BY DEF Eval!Refine
<1>2. run \in Eval!Runs /\ run \in Eval!Boxes
  BY <1>1, EnvironmentsAssumption DEF EvalInv, EvalTyping, ProgressOK, HeldStages, Eval!Runs, Eval!Boxes
<1>3. PICK e : /\ e \in Eval!Confirmed("conn", run) \/ e = row.exc
               /\ row' = [row EXCEPT !.confirmed = e = "died"]
  BY DEF Eval!Refine
<1>4. row \in EvalRows /\ TrueRow(row, run) /\ row.exc # "died"
  BY <1>1 DEF EvalInv, EvalTyping, RowsOK
<1>5. e = "died" => run \in died
  <2>1. e = "died" => box[run] = "dead"
    BY <1>3, <1>4, ConfirmedOnes
  <2> QED
    BY <1>2, <2>1 DEF EvalInv, BoxesOK
<1>6. /\ row' = [kind |-> row.kind, reason |-> row.reason, confirmed |-> e = "died", cause |-> row.cause, exc |-> row.exc]
  BY <1>3, <1>4 DEF EvalRows
<1>7. row' \in EvalRows
  BY <1>4, <1>6 DEF EvalRows
<1>8. /\ row'.kind = row.kind /\ row'.cause = row.cause /\ row'.exc = row.exc
      /\ row'.confirmed = (e = "died")
  BY <1>6
<1>9. TrueRow(row', run)
  BY <1>4, <1>5, <1>8 DEF TrueRow
<1> QED
  BY <1>1, <1>2, <1>7, <1>9, RunKeeps DEF HeldStages

\* The row of a run joins the others.
LEMMA RecordKeeps == ASSUME EvalInv, Eval!Record PROVE EvalInv'
<1> USE EnvironmentsAssumption DEF EvalInv
<1>1. /\ stage = "record" /\ results' = Append(results, row) /\ row' = Eval!NoRow
      /\ UNCHANGED <<mode, box, ckpt, died, kept, faulty>>
      /\ \/ mode = "forked" /\ stage' = "destroy_replica" /\ run' = run
         \/ mode = "fresh" /\ stage' = "resume" /\ run' = run + 1
  BY DEF Eval!Record, EvalTyping
<1>2. run \in Eval!Runs /\ Len(results) = run - 1 /\ TrueRow(row, run)
  BY <1>1 DEF EvalTyping, ProgressOK, RowsOK, HeldStages, Eval!Runs
<1>3. /\ results' \in Seq(EvalRows) /\ Len(results') = run /\ DOMAIN results' = 1 .. run
      /\ results'[run] = row /\ \A k \in DOMAIN results : results'[k] = results[k]
  BY <1>1, <1>2 DEF EvalTyping, Eval!Runs
<1>4. EvalTyping'
  <2>1. row' \in EvalRows
    BY <1>1 DEF Eval!NoRow, EvalRows, Excs
  <2>2. run' \in 1 .. EvalRuns + 1
    BY <1>1, <1>2 DEF Eval!Runs
  <2> QED
    BY <1>1, <1>3, <2>1, <2>2 DEF EvalTyping
<1>5. RowsOK'
  <2>1. \A k \in DOMAIN results' : k = run \/ k \in DOMAIN results
    BY <1>2, <1>3 DEF EvalTyping, Eval!Runs
  <2>2. \A k \in DOMAIN results' : TrueRow(results[k], k)'
    BY <1>1, <1>2, <1>3, <2>1 DEF RowsOK, TrueRow
  <2> QED
    BY <1>1, <2>2 DEF RowsOK
<1>6. ProgressOK'
  BY <1>1, <1>2, <1>3 DEF ProgressOK, GoldenStages, HeldStages, LastStages, Eval!Runs
<1>7. BoxesOK'
  BY <1>1, <1>2 DEF BoxesOK, Settled, HeldStages
<1> QED
  BY <1>4, <1>5, <1>6, <1>7

--------------------------------------------------------------------------------
(* The evaluation loops: what is taken down.                                    *)

\* destroy() takes a sandbox down or leaves it to the provider, and touches no other.
LEMMA DestroySettles ==
    ASSUME EvalTyping, NEW b \in Eval!Boxes, Eval!Destroy(b)
    PROVE  /\ box' \in [Eval!Boxes -> {"free", "up", "dead", "gone"}] /\ faulty' \in {faulty, faulty + 1}
           /\ Settled(b)'
           /\ \A c \in Eval!Boxes : Settled(c) => Settled(c)'
           /\ \A c \in Eval!Boxes : box'[c] = "dead" => box[c] = "dead"
           /\ \A x : x \in kept => x \in kept'
<1>1. CASE box' = [box EXCEPT ![b] = IF @ = "free" THEN "free" ELSE "gone"] /\ UNCHANGED <<kept, faulty>>
  BY <1>1 DEF EvalTyping, Settled
<1>2. CASE faulty' = faulty + 1 /\ kept' = kept \cup {b} /\ UNCHANGED box
  BY <1>2 DEF EvalTyping, Settled
<1> QED
  BY <1>1, <1>2 DEF Eval!Destroy

\* The replica of the run.
LEMMA DestroyReplicaKeeps == ASSUME EvalInv, Eval!DestroyReplica PROVE EvalInv'
<1> USE EnvironmentsAssumption DEF EvalInv
<1>1. /\ stage = "destroy_replica" /\ Eval!Destroy(run) /\ run' = run + 1 /\ stage' = "resume"
      /\ UNCHANGED <<mode, row, results, ckpt, died>>
  BY DEF Eval!DestroyReplica
<1>2. run \in Eval!Runs /\ run \in Eval!Boxes /\ Len(results) = run /\ Eval!Runs \subseteq Eval!Boxes
  BY <1>1 DEF EvalTyping, ProgressOK, Eval!Runs, Eval!Boxes
<1>3. /\ box' \in [Eval!Boxes -> {"free", "up", "dead", "gone"}] /\ faulty' \in {faulty, faulty + 1}
      /\ Settled(run)' \/ run' # run
      /\ \A c \in Eval!Boxes : Settled(c) => Settled(c)'
      /\ \A c \in Eval!Boxes : box'[c] = "dead" => box[c] = "dead"
  BY <1>1, <1>2, DestroySettles DEF Eval!Runs
<1>4. box'[run] \in {"free", "gone"} \/ run \in kept'
  BY <1>1, <1>2 DEF Eval!Destroy, EvalTyping
<1>5. EvalTyping'
  <2>1. run' \in 1 .. EvalRuns + 1 /\ faulty' \in Nat
    BY <1>1, <1>2, <1>3 DEF Eval!Runs, EvalTyping
  <2> QED
    BY <1>1, <1>3, <2>1 DEF EvalTyping
<1>6. RowsOK'
  <2>1. \A k \in DOMAIN results' : TrueRow(results[k], k)'
    BY <1>1 DEF RowsOK, TrueRow
  <2> QED
    BY <1>1, <2>1 DEF RowsOK
<1>7. ProgressOK'
  BY <1>1, <1>2 DEF ProgressOK, GoldenStages, HeldStages, LastStages, Eval!Runs
<1>8. BoxesOK'
  <2>1. \A b \in Eval!Runs : b # run => Settled(b)'
    BY <1>1, <1>2, <1>3 DEF BoxesOK, ProgressOK
  <2>2. \A b \in Eval!Runs : b = run => Settled(b)'
    BY <1>4 DEF Settled
  <2>3. \A b \in Eval!Boxes : box'[b] = "dead" => b \in died'
    BY <1>1, <1>3 DEF BoxesOK
  <2> QED
    BY <1>1, <2>1, <2>2, <2>3 DEF BoxesOK
<1> QED
  BY <1>5, <1>6, <1>7, <1>8

\* The last run is over.
LEMMA RunsOverKeeps == ASSUME EvalInv, Eval!RunsOver PROVE EvalInv'
<1> USE EnvironmentsAssumption DEF EvalInv
<1>1. /\ stage = "resume" /\ run = EvalRuns + 1
      /\ UNCHANGED <<mode, run, row, results, box, ckpt, died, kept, faulty>>
      /\ \/ mode = "forked" /\ stage' = "destroy_base"
         \/ mode = "fresh" /\ stage' = "returned"
  BY DEF Eval!RunsOver, EvalTyping
<1>2. EvalTyping'
  BY <1>1 DEF EvalTyping, LastStages
<1>3. RowsOK'
  <2>1. \A k \in DOMAIN results' : TrueRow(results[k], k)'
    BY <1>1 DEF RowsOK, TrueRow
  <2> QED
    BY <1>1, <2>1 DEF RowsOK
<1>4. ProgressOK'
  BY <1>1 DEF ProgressOK, GoldenStages, HeldStages, LastStages, EvalTyping
<1>5. BoxesOK'
  BY <1>1 DEF BoxesOK, Settled, HeldStages
<1> QED
  BY <1>2, <1>3, <1>4, <1>5

\* The base.
LEMMA DestroyBaseKeeps == ASSUME EvalInv, Eval!DestroyBase PROVE EvalInv'
<1> USE EnvironmentsAssumption DEF EvalInv
<1>1. /\ stage = "destroy_base" /\ Eval!Destroy(Eval!Base) /\ stage' = "delete_checkpoint"
      /\ UNCHANGED <<mode, run, row, results, ckpt, died>>
  BY DEF Eval!DestroyBase
<1>2. Eval!Base \in Eval!Boxes /\ Eval!Runs \subseteq Eval!Boxes
  BY DEF Eval!Base, Eval!Runs, Eval!Boxes
<1>3. /\ box' \in [Eval!Boxes -> {"free", "up", "dead", "gone"}] /\ faulty' \in {faulty, faulty + 1}
      /\ Settled(Eval!Base)'
      /\ \A c \in Eval!Boxes : Settled(c) => Settled(c)'
      /\ \A c \in Eval!Boxes : box'[c] = "dead" => box[c] = "dead"
  BY <1>1, <1>2, DestroySettles
<1>4. EvalTyping'
  <2>1. faulty' \in Nat
    BY <1>3 DEF EvalTyping
  <2> QED
    BY <1>1, <1>3, <2>1 DEF EvalTyping, LastStages
<1>5. RowsOK'
  <2>1. \A k \in DOMAIN results' : TrueRow(results[k], k)'
    BY <1>1 DEF RowsOK, TrueRow
  <2> QED
    BY <1>1, <2>1 DEF RowsOK
<1>6. ProgressOK'
  BY <1>1 DEF ProgressOK, GoldenStages, HeldStages, LastStages
<1>7. BoxesOK'
  <2>1. \A b \in Eval!Runs : Settled(b)'
    BY <1>1, <1>2, <1>3 DEF BoxesOK, ProgressOK, HeldStages, LastStages
  <2>2. \A b \in Eval!Boxes : box'[b] = "dead" => b \in died'
    BY <1>1, <1>3 DEF BoxesOK
  <2> QED
    BY <1>1, <1>3, <2>1, <2>2 DEF BoxesOK
<1> QED
  BY <1>4, <1>5, <1>6, <1>7

\* The golden checkpoint.
LEMMA DeleteCheckpointKeeps == ASSUME EvalInv, Eval!DeleteCheckpoint PROVE EvalInv'
<1> USE EnvironmentsAssumption DEF EvalInv
<1>1. /\ stage = "delete_checkpoint" /\ stage' = "returned"
      /\ UNCHANGED <<mode, run, row, results, box, died>>
      /\ ckpt' \in {ckpt, "gone"} /\ faulty' \in {faulty, faulty + 1}
      /\ \A x : x \in kept => x \in kept'
      /\ ckpt' # "there" \/ Eval!Ckpt \in kept'
  BY DEF Eval!DeleteCheckpoint
<1>2. EvalTyping'
  <2>1. faulty' \in Nat
    BY <1>1 DEF EvalTyping
  <2> QED
    BY <1>1, <2>1 DEF EvalTyping
<1>3. RowsOK'
  <2>1. \A k \in DOMAIN results' : TrueRow(results[k], k)'
    BY <1>1 DEF RowsOK, TrueRow
  <2> QED
    BY <1>1, <2>1 DEF RowsOK
<1>4. ProgressOK'
  BY <1>1 DEF ProgressOK, GoldenStages, HeldStages, LastStages
<1>5. BoxesOK'
  <2>1. \A b : Settled(b) => (box'[b] \in {"free", "gone"} \/ b \in kept')
    BY <1>1 DEF Settled
  <2>2. \A b \in Eval!Runs : Settled(b)
    BY <1>1 DEF BoxesOK, ProgressOK, HeldStages, LastStages
  <2>3. Settled(Eval!Base) /\ Eval!Base' = Eval!Base
    BY <1>1 DEF BoxesOK, ProgressOK, LastStages, Eval!Base
  <2> QED
    BY <1>1, <2>1, <2>2, <2>3 DEF BoxesOK, Settled
<1> QED
  BY <1>2, <1>3, <1>4, <1>5

\* Every step of an evaluation.
LEMMA EvalSteps == EvalInv /\ [Eval!EvalNext]_evalVars => EvalInv'
<1> SUFFICES ASSUME EvalInv, [Eval!EvalNext]_evalVars PROVE EvalInv'
  OBVIOUS
<1>1. CASE UNCHANGED evalVars
  <2> USE <1>1 DEF evalVars
  <2>1. EvalTyping'
    BY DEF EvalInv, EvalTyping
  <2>2. RowsOK'
    BY DEF EvalInv, RowsOK, TrueRow, Unclassified, Eval!Base
  <2>3. ProgressOK' /\ BoxesOK'
    BY DEF EvalInv, ProgressOK, BoxesOK, Settled, Eval!Base, Eval!Ckpt
  <2> QED
    BY <2>1, <2>2, <2>3 DEF EvalInv
<1>2. CASE \E b \in Eval!Boxes : Eval!Die(b)
  BY <1>2, DieKeeps
<1>3. CASE Eval!Loop
  BY <1>3, CreateBaseKeeps, GoldenKeeps, GoldenFailedKeeps, MaterializeKeeps, ConnectKeeps, NotProvisionedKeeps,
     RunTaskKeeps, VerifyKeeps, RefineKeeps, RecordKeeps, DestroyReplicaKeeps, RunsOverKeeps, DestroyBaseKeeps,
     DeleteCheckpointKeeps DEF Eval!Loop
<1> QED
  BY <1>1, <1>2, <1>3 DEF Eval!EvalNext

\* What the invariant says of the rows and of what is left.
LEMMA EvalIsSound == EvalInv => Eval!EvalsSound
<1> SUFFICES ASSUME EvalInv PROVE Eval!EvalsSound
  OBVIOUS
<1> USE DEF EvalInv
<1>1. Eval!LostIsInfra
  BY DEF RowsOK, TrueRow, Eval!LostIsInfra
<1>2. Eval!RowsAreTrue
  BY DEF RowsOK, TrueRow, Eval!RowsAreTrue
<1>3. Eval!NothingLeft
  <2> SUFFICES ASSUME stage = "returned" PROVE Eval!NothingLeft
    BY DEF Eval!NothingLeft
  <2>1. DOMAIN results = Eval!Runs
    BY EnvironmentsAssumption DEF ProgressOK, EvalTyping, LastStages, Eval!Runs
  <2>2. ASSUME mode = "forked", NEW b \in Eval!Boxes \ kept PROVE box[b] \notin {"up", "dead"}
    <3>1. b \in Eval!Runs \/ b = Eval!Base
      BY EnvironmentsAssumption DEF Eval!Boxes, Eval!Runs, Eval!Base
    <3>2. Settled(b)
      BY <2>2, <3>1 DEF BoxesOK, HeldStages
    <3> QED
      BY <2>2, <3>2 DEF Settled
  <2>3. mode = "forked" /\ ckpt = "there" => Eval!Ckpt \in kept
    BY DEF BoxesOK
  <2> QED
    BY <2>1, <2>2, <2>3 DEF Eval!NothingLeft
<1> QED
  BY <1>1, <1>2, <1>3 DEF Eval!EvalsSound

--------------------------------------------------------------------------------
(* A scorer: every step keeps the invariant.                                    *)

\* The first state.
LEMMA ScorerStarts == Score!ScorerInit => ScorerInv
BY DEF Score!ScorerInit, ScorerInv

\* The child writes aside and is over when the parent reads; a kill comes with the deadline.
LEMMA ScorerSteps == ScorerInv /\ [Score!ScorerNext]_scorerVars => ScorerInv'
<1> SUFFICES ASSUME ScorerInv, [Score!ScorerNext]_scorerVars PROVE ScorerInv'
  OBVIOUS
<1>1. CASE UNCHANGED scorerVars
  BY <1>1 DEF scorerVars, ScorerInv, Score!Answer, Score!ErrorKind
<1>2. CASE Score!ChildStep
  <2>1. CASE Score!StartWriting
    BY <2>1 DEF Score!StartWriting, Score!WriteAside, ScorerInv, Score!Answer, Score!ErrorKind
  <2>2. CASE Score!Replace
    BY <2>2 DEF Score!Replace, ScorerInv, Score!Answer, Score!ErrorKind
  <2>3. CASE Score!Exit
    BY <2>3 DEF Score!Exit, ScorerInv, Score!Answer, Score!ErrorKind
  <2>4. CASE Score!StartHelper \/ Score!HelperEnds
    BY <2>4 DEF Score!StartHelper, Score!HelperEnds, ScorerInv, Score!Answer, Score!ErrorKind
  <2> QED
    BY <1>2, <2>1, <2>2, <2>3, <2>4 DEF Score!ChildStep
<1>3. CASE Score!ParentStep
  <2>1. CASE Score!SeeEnd \/ Score!Reap
    BY <2>1 DEF Score!SeeEnd, Score!Reap, Score!Finished, ScorerInv, Score!Answer, Score!ErrorKind
  <2>2. CASE Score!TimeOut
    BY <2>2 DEF Score!TimeOut, ScorerInv, Score!Answer, Score!ErrorKind
  <2>3. CASE Score!Read
    BY <2>3 DEF Score!Read, ScorerInv, Score!Answer, Score!ErrorKind
  <2> QED
    BY <1>3, <2>1, <2>2, <2>3 DEF Score!ParentStep
<1> QED
  BY <1>1, <1>2, <1>3 DEF Score!ScorerNext

\* What it says of the verdict.
LEMMA ScorerIsSound == ScorerInv => Score!VerdictStands
BY DEF ScorerInv, Score!VerdictStands, Score!Answer, Score!ErrorKind

--------------------------------------------------------------------------------
(* The composition: a behaviour is one of a single part, and the others stay.  *)

\* A step of the composition is a step of each component, or none of it.
LEMMA PartsStep ==
    ASSUME [EnvironmentsNext]_environmentVars
    PROVE  /\ [Cua!CuaNext]_cuaVars
           /\ [Eval!EvalNext]_evalVars /\ [Score!ScorerNext]_scorerVars
BY DEF EnvironmentsNext, environmentVars

\* A CUA-Gym environment gives back what it took, for any number of sandboxes, snapshots and
\* failures: between two calls what is left is in one of its fields, and a dispose() that does
\* not raise leaves nothing.
THEOREM EnvAlwaysCleansUp == EnvironmentsSpec => []EnvCleansUp
<1>1. EnvironmentsInit => CuaInv
  BY CuaStarts DEF EnvironmentsInit
<1>2. CuaInv /\ [EnvironmentsNext]_environmentVars => CuaInv'
  BY CuaSteps, PartsStep
<1>3. CuaInv => EnvCleansUp
  BY CuaIsSound DEF EnvCleansUp
<1> QED
  BY <1>1, <1>2, <1>3, PTL DEF EnvironmentsSpec

\* An evaluation of any number of runs gives each of them one true row, tells infrastructure
\* from agents and leaves nothing behind that could be taken down; and a scorer's parent
\* returns the verdict its child wrote, or says how it ended without one.
THEOREM EvaluationsAlwaysSound == EnvironmentsSpec => []EvaluationsSound
<1>1. EnvironmentsInit => EvalInv /\ ScorerInv
  BY EvalStarts, ScorerStarts DEF EnvironmentsInit
<1>2. EvalInv /\ ScorerInv /\ [EnvironmentsNext]_environmentVars => EvalInv' /\ ScorerInv'
  BY EvalSteps, ScorerSteps, PartsStep
<1>3. EvalInv /\ ScorerInv => EvaluationsSound
  BY EvalIsSound, ScorerIsSound DEF EvaluationsSound
<1> QED
  BY <1>1, <1>2, <1>3, PTL DEF EnvironmentsSpec
================================================================================
