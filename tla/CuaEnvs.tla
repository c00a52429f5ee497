---------------------------------- MODULE CuaEnvs ----------------------------------
(***************************************************************************)
(* One CUA-Gym environment (sdk/python/src/shinken/integrations/           *)
(* cua_gym.py): reset(), which builds the golden snapshot the first time   *)
(* and forks a replica of it every time, close(), and dispose(), which     *)
(* takes the golden snapshot too.  What could not be cleaned up stays with *)
(* the environment and is tried again by the next teardown.                *)
(*                                                                         *)
(* Every call of the provider is a step that works or raises; a destroy or *)
(* a delete that raises may have done its work.  The bundle's setup steps  *)
(* are one step; what they do in the guest, and rewards, are left out.     *)
(***************************************************************************)
EXTENDS Naturals, FiniteSets

CONSTANTS
    Boxes,     \* sandboxes the provider may ever make
    Snaps,     \* snapshots it may ever take
    MaxFaults  \* calls that raise

None == "none"

VARIABLES
    op,       \* the public call under way, its step, and whether it will raise
    build,    \* locals of _build_golden: base, connected, snapshot, and the two errors
    golden,   \* golden_checkpoint
    handle,   \* _handle
    sess,     \* _sess, named by its box
    pending,  \* _pending_build_sessions, _pending_build_handles, _pending_build_snapshots
    box,      \* the provider's sandboxes: "free", "up" or "gone"
    snap,     \* its snapshots: "free", "there" or "gone"
    conn,     \* boxes with an open connection
    orphans,  \* boxes connect_owned_handle could neither connect to nor destroy
    faults,   \* calls that have raised
    last      \* the public call that ended last, and whether it raised

own  == <<golden, handle, sess, pending>>
world == <<box, snap, conn, orphans>>
vars == <<op, build, own, world, faults, last>>

NoOp == [name |-> "none", pc |-> "idle", raises |-> FALSE]
NoBuild == [base |-> None, connected |-> FALSE, snapshot |-> None, primary |-> FALSE, cleanup |-> FALSE]

At(pc) == op.pc = pc
Goto(pc) == op' = [op EXCEPT !.pc = pc]
GotoRaising(pc) == op' = [op EXCEPT !.pc = pc, !.raises = TRUE]
Return(raised) == op' = NoOp /\ last' = [name |-> op.name, raised |-> raised]

\* A call of the provider raises.
Faults(n) == n > 0 /\ faults + n <= MaxFaults /\ faults' = faults + n
Fault == Faults(1)
NoFault == UNCHANGED faults

Started(b) == box[b] = "free" /\ box' = [box EXCEPT ![b] = "up"]
Removed(b) == box' = [box EXCEPT ![b] = "gone"] /\ conn' = conn \ {b}
\* destroy() raises, with its work done or not.
DestroyRaises(b) == Fault /\ (Removed(b) \/ UNCHANGED <<box, conn>>)

--------------------------------------------------------------------------------
(* _build_golden.                                                               *)

Begin(name, pc) ==
    /\ op = NoOp
    /\ op' = [name |-> name, pc |-> pc, raises |-> FALSE]
    /\ UNCHANGED <<build, own, world, faults, last>>

Reset == Begin("reset", IF golden = None THEN "create" ELSE "close_sess")
Close == Begin("close", "close_sess")
Dispose == Begin("dispose", "close_sess")

Create ==
    /\ At("create")
    /\ \/ /\ NoFault /\ Goto("connect_base") /\ UNCHANGED last
          /\ \E b \in Boxes : Started(b) /\ build' = [NoBuild EXCEPT !.base = b]
       \/ Fault /\ Return(TRUE) /\ UNCHANGED <<build, box>>
    /\ UNCHANGED <<own, snap, conn, orphans>>

ConnectBase ==
    /\ At("connect_base")
    /\ \/ conn' = conn \cup {build.base} /\ build' = [build EXCEPT !.connected = TRUE]
          /\ NoFault /\ Goto("setup")
       \/ Fault /\ build' = [build EXCEPT !.primary = TRUE] /\ Goto("close_base") /\ UNCHANGED conn
    /\ UNCHANGED <<own, box, snap, orphans, last>>

Setup ==
    /\ At("setup")
    /\ \/ NoFault /\ Goto("checkpoint") /\ UNCHANGED build
       \/ Fault /\ build' = [build EXCEPT !.primary = TRUE] /\ Goto("close_base")
    /\ UNCHANGED <<own, world, last>>

TakeGolden ==
    /\ At("checkpoint") /\ Goto("close_base")
    /\ \/ /\ NoFault
          /\ \E s \in Snaps : /\ snap[s] = "free" /\ snap' = [snap EXCEPT ![s] = "there"]
                             /\ build' = [build EXCEPT !.snapshot = s]
       \/ Fault /\ build' = [build EXCEPT !.primary = TRUE] /\ UNCHANGED snap
    /\ UNCHANGED <<own, box, conn, orphans, last>>

CloseBase ==
    /\ At("close_base") /\ Goto("destroy_base")
    /\ \/ conn' = conn \ {build.base} /\ NoFault /\ UNCHANGED <<build, pending>>
       \/ /\ build.connected /\ Fault
          /\ build' = [build EXCEPT !.cleanup = TRUE]
          /\ pending' = [pending EXCEPT !.sessions = @ \cup {build.base}]
          /\ UNCHANGED conn
    /\ UNCHANGED <<golden, handle, sess, box, snap, orphans, last>>

DestroyBase ==
    /\ At("destroy_base") /\ Goto("built")
    /\ \/ Removed(build.base) /\ NoFault /\ UNCHANGED <<build, pending>>
       \/ /\ DestroyRaises(build.base)
          /\ build' = [build EXCEPT !.cleanup = TRUE]
          /\ pending' = [pending EXCEPT !.handles = @ \cup {build.base}]
    /\ UNCHANGED <<golden, handle, sess, snap, orphans, last>>

ForgetSnapshot == pending
\* A golden snapshot whose base is not cleaned up is not used, and is owned until it is deleted.
KeepSnapshot ==
    IF build.snapshot = None THEN pending
    ELSE [pending EXCEPT !.snapshots = @ \cup {build.snapshot}]

Built ==
    /\ At("built") /\ build' = NoBuild
    /\ \/ build.primary /\ Return(TRUE) /\ UNCHANGED own
       \/ /\ ~build.primary /\ build.cleanup /\ Return(TRUE)
          /\ pending' = KeepSnapshot /\ UNCHANGED <<golden, handle, sess>>
       \/ /\ ~build.primary /\ ~build.cleanup
          /\ golden' = build.snapshot /\ Goto("close_sess") /\ UNCHANGED <<handle, sess, pending, last>>
    /\ UNCHANGED <<world, faults>>

--------------------------------------------------------------------------------
(* _teardown_replica and _drain_build_cleanup.                                  *)

CloseSess ==
    /\ At("close_sess")
    /\ \/ NoFault /\ Goto("destroy") /\ conn' = conn \ {sess} /\ sess' = None
       \/ sess # None /\ Fault /\ GotoRaising("destroy") /\ UNCHANGED <<sess, conn>>
    /\ UNCHANGED <<golden, handle, pending, build, box, snap, orphans, last>>

DestroyReplica ==
    /\ At("destroy")
    /\ \/ handle = None /\ Goto("drain_sessions") /\ NoFault /\ UNCHANGED <<handle, sess, box, conn>>
       \/ /\ handle # None /\ Removed(handle) /\ handle' = None /\ sess' = None
          /\ NoFault /\ Goto("drain_sessions")
       \/ /\ handle # None /\ DestroyRaises(handle) /\ GotoRaising("drain_sessions")
          /\ UNCHANGED <<handle, sess>>
    /\ UNCHANGED <<golden, pending, build, snap, orphans, last>>

\* Those that raise stay; the others are done with.
DrainSessions ==
    /\ At("drain_sessions")
    /\ \/ /\ pending' = [pending EXCEPT !.sessions = {}] /\ conn' = conn \ pending.sessions
          /\ NoFault /\ Goto("drain_handles")
       \/ \E bad \in SUBSET pending.sessions :
            /\ Faults(Cardinality(bad)) /\ GotoRaising("drain_handles")
            /\ pending' = [pending EXCEPT !.sessions = bad]
            /\ conn' = conn \ (pending.sessions \ bad)
    /\ UNCHANGED <<golden, handle, sess, build, box, snap, orphans, last>>

Dead(bs) == [b \in Boxes |-> IF b \in bs THEN "gone" ELSE box[b]]

DrainHandles ==
    /\ At("drain_handles")
    /\ \/ /\ pending' = [pending EXCEPT !.handles = {}]
          /\ box' = Dead(pending.handles) /\ conn' = conn \ pending.handles
          /\ NoFault /\ Goto("drain_snapshots")
       \/ \E bad \in SUBSET pending.handles :
            /\ Faults(Cardinality(bad)) /\ GotoRaising("drain_snapshots")
            /\ pending' = [pending EXCEPT !.handles = bad]
            /\ box' = Dead(pending.handles \ bad) /\ conn' = conn \ (pending.handles \ bad)
    /\ UNCHANGED <<golden, handle, sess, build, snap, orphans, last>>

Deleted(ss) == [s \in Snaps |-> IF s \in ss THEN "gone" ELSE snap[s]]

\* "Do not discard the snapshot that proves ownership while its base cleanup is still unresolved."
DrainSnapshots ==
    /\ At("drain_snapshots")
    /\ \/ pending.handles # {} /\ Goto("torn_down") /\ NoFault /\ UNCHANGED <<pending, snap>>
       \/ /\ pending.handles = {} /\ NoFault /\ Goto("torn_down")
          /\ pending' = [pending EXCEPT !.snapshots = {}] /\ snap' = Deleted(pending.snapshots)
       \/ /\ pending.handles = {}
          /\ \E bad \in SUBSET pending.snapshots :
               /\ Faults(Cardinality(bad)) /\ GotoRaising("torn_down")
               /\ pending' = [pending EXCEPT !.snapshots = bad]
               /\ snap' = Deleted(pending.snapshots \ bad)
    /\ UNCHANGED <<golden, handle, sess, build, box, conn, orphans, last>>

TornDown ==
    /\ At("torn_down")
    /\ \/ op.name = "dispose" /\ Goto("delete_golden") /\ UNCHANGED last
       \/ op.name = "reset" /\ ~op.raises /\ Goto("resume") /\ UNCHANGED last
       \/ op.name = "reset" /\ op.raises /\ Return(TRUE)
       \/ op.name = "close" /\ Return(op.raises)
    /\ UNCHANGED <<build, own, world, faults>>

\* dispose() deletes the golden snapshot whether or not the teardown raised.
DeleteGolden ==
    /\ At("delete_golden")
    /\ \/ golden = None /\ Return(op.raises) /\ NoFault /\ UNCHANGED <<golden, snap>>
       \/ /\ golden # None /\ NoFault /\ Return(op.raises)
          /\ snap' = Deleted({golden}) /\ golden' = None
       \/ /\ golden # None /\ Fault /\ Return(TRUE) /\ UNCHANGED golden
          /\ (snap' = Deleted({golden}) \/ UNCHANGED snap)
    /\ UNCHANGED <<handle, sess, pending, build, box, conn, orphans>>

--------------------------------------------------------------------------------
(* The replica.                                                                 *)

\* provider.resume, which raises for a snapshot that is gone.
Resume ==
    /\ At("resume")
    /\ \/ /\ snap[golden] = "there" /\ NoFault /\ Goto("connect") /\ UNCHANGED last
          /\ \E b \in Boxes : Started(b) /\ build' = [NoBuild EXCEPT !.base = b]
       \/ snap[golden] = "gone" /\ NoFault /\ Return(TRUE) /\ UNCHANGED <<build, box>>
       \/ Fault /\ Return(TRUE) /\ UNCHANGED <<build, box>>
    /\ UNCHANGED <<own, snap, conn, orphans>>

\* connect_owned_handle: a handshake that fails takes the box with it, if destroy() works.
Connect ==
    /\ At("connect")
    /\ \/ /\ handle' = build.base /\ sess' = build.base /\ conn' = conn \cup {build.base}
          /\ build' = NoBuild /\ NoFault /\ Goto("first_look") /\ UNCHANGED box
       \/ Fault /\ Goto("destroy_unconnected") /\ UNCHANGED <<handle, sess, conn, build, box>>
    /\ UNCHANGED <<golden, pending, snap, orphans, last>>

DestroyUnconnected ==
    /\ At("destroy_unconnected") /\ build' = NoBuild /\ Return(TRUE)
    /\ \/ Removed(build.base) /\ NoFault /\ UNCHANGED orphans
       \/ DestroyRaises(build.base) /\ orphans' = orphans \cup {build.base}
    /\ UNCHANGED <<own, snap>>

\* _exec_channel and the screenshot of the first observation.
FirstLook ==
    /\ At("first_look")
    /\ \/ NoFault /\ Return(FALSE)
       \/ Fault /\ GotoRaising("close_sess") /\ UNCHANGED last
    /\ UNCHANGED <<build, own, world>>

--------------------------------------------------------------------------------
CuaInit ==
    /\ op = NoOp /\ build = NoBuild /\ golden = None /\ handle = None /\ sess = None
    /\ pending = [sessions |-> {}, handles |-> {}, snapshots |-> {}]
    /\ box = [b \in Boxes |-> "free"] /\ snap = [s \in Snaps |-> "free"]
    /\ conn = {} /\ orphans = {} /\ faults = 0 /\ last = [name |-> "none", raised |-> FALSE]

CuaNext ==
    \/ Reset \/ Close \/ Dispose
    \/ Create \/ ConnectBase \/ Setup \/ TakeGolden \/ CloseBase \/ DestroyBase \/ Built
    \/ CloseSess \/ DestroyReplica \/ DrainSessions \/ DrainHandles \/ DrainSnapshots \/ TornDown
    \/ DeleteGolden \/ Resume \/ Connect \/ DestroyUnconnected \/ FirstLook

CuaSpec == CuaInit /\ [][CuaNext]_vars

--------------------------------------------------------------------------------
Up == {b \in Boxes : box[b] = "up"}
There == {s \in Snaps : snap[s] = "there"}

\* "Failed cleanup from an aborted golden build remains owned by this env so close() ... can
\* retry instead of forgetting handles": between two calls every box that runs, every
\* open connection and every snapshot is in a field of the environment.  The exception is
\* the box connect_owned_handle could neither connect to nor destroy.
EverythingOwned ==
    op = NoOp =>
        /\ Up \subseteq {handle} \cup pending.handles \cup orphans
        /\ conn \subseteq {sess} \cup pending.sessions
        /\ There \subseteq {golden} \cup pending.snapshots

\* dispose(), "full cleanup": when it does not raise, nothing is left, whatever went wrong
\* in the calls before it.
DisposedIsClean ==
    (op = NoOp /\ last = [name |-> "dispose", raised |-> FALSE]) =>
        Up \subseteq orphans /\ conn = {} /\ There = {}

\* Whatever fails, what is left is owned, and a dispose() that succeeds leaves nothing.
EnvCleansUp == EverythingOwned /\ DisposedIsClean
================================================================================
