--------------------------------- MODULE Sandboxes ---------------------------------
(***************************************************************************)
(* The Docker provider of the Python SDK (sdk/python/src/shinken/          *)
(* providers/docker.py): several processes that create, snapshot, restore, *)
(* fork, reset, destroy and reclaim containers and images of one daemon.   *)
(*                                                                         *)
(* An operation is a sequence of docker commands, one per step; a command  *)
(* works, fails, or outlives its timeout; other processes run in between,  *)
(* and a process may die.  What a process knows of an image is a cache of  *)
(* the record that `docker commit` put in its labels.  The record holds    *)
(* the typed fields of the spec alone: the caller's environment and        *)
(* metadata (`extra`) and the provenance a restore adds to the metadata    *)
(* (`lineage`) are replaced by a marker, and a spec with the marker is     *)
(* refused.                                                                *)
(*                                                                         *)
(* Left out: the warm pool, which the constructor refuses; force, max_age  *)
(* and destroy_all, which are told to reclaim what others use; handles     *)
(* rebuilt by list().                                                      *)
(***************************************************************************)
EXTENDS Naturals, FiniteSets

CONSTANTS
    Procs,      \* processes that share the daemon
    Boxes,      \* containers there may be at a time
    Images,     \* snapshot images there may ever be
    Attempts,   \* _CREATE_ATTEMPTS
    Budget      \* operations that are begun, and containers that die by themselves

ASSUME SandboxAssumption == Attempts \in Nat \ {0} /\ Budget \in Nat /\ {"base", "none"} \cap Images = {}

VARIABLES
    alive,  \* the process lives
    cache,  \* the spec a provider has of an image: "none", its "own", what "labels" tell of
            \* it, or "unresolved"
    box,    \* the containers, and their handles
    img,    \* the images with their labels
    op,     \* the operation a process is in
    left    \* what is left of the budget

vars == <<alive, cache, box, img, op, left>>

NoBox == [st |-> "none", owner |-> "none", from |-> "base", extra |-> FALSE, lineage |-> FALSE,
          held |-> FALSE, fork |-> "none", stuck |-> FALSE]
NoImage == [st |-> "none", owner |-> "none", extra |-> FALSE, lineage |-> FALSE,
            fork |-> FALSE, stuck |-> FALSE]
Idle == [call |-> "none", pc |-> "idle", box |-> "none", img |-> "none", tries |-> 0,
         extra |-> FALSE, lineage |-> FALSE, from |-> "base", todo |-> {}]

Here(i) == i = "base" \/ (i \in Images /\ img[i].st = "here")

At(p, pc) == alive[p] /\ op[p].pc = pc

Begin(p) == At(p, "idle") /\ left > 0 /\ left' = left - 1

Return(p) == op' = [op EXCEPT ![p] = Idle]

\* A container that is gone and of which nobody has a handle any more is forgotten.
Settled(b) == [s \in Boxes |-> IF b[s].st = "gone" /\ ~b[s].held THEN NoBox ELSE b[s]]

--------------------------------------------------------------------------------
(* create.                                                                      *)

\* _raise_: what follows when the container could not be had.  A fork deletes the snapshot
\* it has just taken.
Raised(p) ==
    op' = [op EXCEPT ![p] = IF @.call = "fork" THEN [@ EXCEPT !.pc = "unfork"] ELSE Idle]

Create(p, extra) ==
    /\ Begin(p)
    /\ op' = [op EXCEPT ![p] = [Idle EXCEPT !.call = "create", !.pc = "launch", !.tries = 1,
                                            !.extra = extra]]
    /\ UNCHANGED <<alive, cache, box, img>>

Started(p) ==
    [NoBox EXCEPT !.st = "run", !.owner = p, !.from = op[p].from, !.extra = op[p].extra,
                  !.lineage = op[p].lineage]

\* _launch_container: docker run
Launch(p, s) ==
    /\ At(p, "launch") /\ box[s].st = "none" /\ Here(op[p].from)
    /\ \A q \in Procs : s \notin op[q].todo
    /\ \/ box' = [box EXCEPT ![s] = Started(p)] /\ op' = [op EXCEPT ![p].pc = "wait", ![p].box = s]
       \/ box' = [box EXCEPT ![s] = [Started(p) EXCEPT !.stuck = TRUE]] /\ Raised(p) \* timed out
    /\ UNCHANGED <<alive, cache, img, left>>

Again(p) == op' = [op EXCEPT ![p].pc = "launch", ![p].tries = @ + 1, ![p].box = "none"]

\* docker run failed: a port that another one has taken is tried again.
LaunchFails(p) ==
    /\ At(p, "launch")
    /\ \/ Here(op[p].from) /\ op[p].tries < Attempts /\ Again(p)
       \/ Raised(p)
    /\ UNCHANGED <<alive, cache, box, img, left>>

\* _wait_ready
Ready(p) ==
    /\ At(p, "wait")
    /\ box' = [box EXCEPT ![op[p].box].held = TRUE,
                          ![op[p].box].fork = IF op[p].call = "fork" THEN op[p].img ELSE "none"]
    /\ Return(p)
    /\ UNCHANGED <<alive, cache, img, left>>

NotReady(p) ==
    /\ At(p, "wait")
    /\ op' = [op EXCEPT ![p].pc = "undo"]
    /\ UNCHANGED <<alive, cache, box, img, left>>

\* The container that is not ready is destroyed; a boot that timed out is tried again.
Undo(p) ==
    /\ At(p, "undo")
    /\ \/ /\ box' = [box EXCEPT ![op[p].box] = NoBox]
          /\ Raised(p) \/ (op[p].tries < Attempts /\ Again(p))
       \/ box' = [box EXCEPT ![op[p].box].stuck = TRUE] /\ Raised(p)
    /\ UNCHANGED <<alive, cache, img, left>>

--------------------------------------------------------------------------------
(* snapshot, checkpoint, fork.                                                  *)

Held(p, s) == box[s].owner = p /\ box[s].held /\ ~box[s].stuck

\* _spec_from_handle
Snapshot(p, s, call) ==
    /\ Begin(p) /\ Held(p, s)
    /\ op' = [op EXCEPT ![p] = [Idle EXCEPT !.call = call, !.pc = "commit", !.box = s,
                                            !.extra = box[s].extra, !.lineage = box[s].lineage]]
    /\ UNCHANGED <<alive, cache, box, img>>

Committed(p) ==
    [NoImage EXCEPT !.st = "here", !.owner = p, !.extra = op[p].extra, !.lineage = op[p].lineage,
                    !.fork = op[p].call = "fork"]

\* From here a fork is a restore of the snapshot.
Restoring(o, i, extra) ==
    [o EXCEPT !.pc = "launch", !.tries = 1, !.img = i, !.from = i, !.box = "none",
              !.extra = extra, !.lineage = TRUE]

\* docker commit: the process that took the snapshot keeps its exact spec.
Commit(p, i) ==
    /\ At(p, "commit") /\ box[op[p].box].st = "run" /\ img[i].st = "none"
    /\ \/ /\ img' = [img EXCEPT ![i] = Committed(p)]
          /\ cache' = [cache EXCEPT ![p][i] = "own"]
          /\ op' = [op EXCEPT ![p] = IF @.call = "fork" THEN Restoring(@, i, @.extra) ELSE Idle]
       \/ img' = [img EXCEPT ![i] = [Committed(p) EXCEPT !.stuck = TRUE]] \* timed out
          /\ Return(p) /\ UNCHANGED cache
    /\ UNCHANGED <<alive, box, left>>

CommitFails(p) == At(p, "commit") /\ Return(p) /\ UNCHANGED <<alive, cache, box, img, left>>

--------------------------------------------------------------------------------
(* restore.                                                                     *)

LabelsUnmarked(i) == "labels"

\* What the labels of an image tell a provider that did not commit it: the spec, unless
\* something was kept out of the labels.
FromLabels(i) == IF img[i].extra \/ img[i].lineage THEN "unresolved" ELSE "labels"

\* _resolve_snapshot, which remembers what it finds
Known(p, i) == IF cache[p][i] = "none" /\ Here(i) THEN FromLabels(i) ELSE cache[p][i]

\* Unknown, or with a marker (_validate_replay_metadata): refused.
Restore(p, i) ==
    /\ Begin(p) /\ img[i].st # "none"
    /\ cache' = [cache EXCEPT ![p][i] = Known(p, i)]
    /\ op' = IF Known(p, i) \notin {"own", "labels"} THEN op
             ELSE [op EXCEPT ![p] = Restoring([Idle EXCEPT !.call = "restore"], i,
                                              Known(p, i) = "own" /\ img[i].extra)]
    /\ UNCHANGED <<alive, box, img>>

--------------------------------------------------------------------------------
(* delete_snapshot, destroy, reset.                                             *)

Forgotten(p, i) == [cache EXCEPT ![p][i] = "none"]

\* docker rmi works when no container runs on the image, or when the image has gone.
RmiWorks(i) == \A s \in Boxes : box[s].st = "run" => box[s].from # i

Gone(i) == [img EXCEPT ![i].st = "gone"]

Delete(p, i) ==
    /\ Begin(p) /\ Known(p, i) # "none"
    /\ op' = [op EXCEPT ![p] = [Idle EXCEPT !.call = "delete", !.pc = "rmi", !.todo = {i}]]
    /\ cache' = [cache EXCEPT ![p][i] = Known(p, i)]
    /\ UNCHANGED <<alive, box, img>>

\* The intermediate snapshot of a fork that failed: a failure of this too is only logged.
Unfork(p) ==
    /\ At(p, "unfork")
    /\ \/ RmiWorks(op[p].img) /\ img' = Gone(op[p].img) /\ cache' = Forgotten(p, op[p].img)
       \/ img' = [img EXCEPT ![op[p].img].stuck = TRUE] /\ UNCHANGED cache
    /\ Return(p)
    /\ UNCHANGED <<alive, box, left>>

\* A handle whose container has been removed may still owe the snapshot it was forked from.
Destroy(p, s, call) ==
    /\ Begin(p) /\ Held(p, s)
    /\ op' = [op EXCEPT ![p] = [Idle EXCEPT !.call = call, !.pc = "rm", !.box = s,
                  !.extra = box[s].extra, !.lineage = box[s].lineage, !.from = box[s].from]]
    /\ UNCHANGED <<alive, cache, box, img>>

\* reset goes on with create
AfterDestroy(o) == IF o.call = "reset" THEN [o EXCEPT !.pc = "launch", !.tries = 1, !.box = "none"]
                   ELSE Idle

Remove(p, s) == box' = Settled([box EXCEPT ![s].st = "gone", ![s].held = box[s].fork # "none"])

Rm(p) ==
    /\ At(p, "rm")
    /\ \/ /\ Remove(p, op[p].box)
          /\ op' = [op EXCEPT ![p] = IF box[op[p].box].fork # "none" THEN [@ EXCEPT !.pc = "rmfork"]
                                     ELSE AfterDestroy(@)]
       \/ Return(p) /\ UNCHANGED box
    /\ UNCHANGED <<alive, cache, img, left>>

Rmfork(p) ==
    /\ At(p, "rmfork")
    /\ LET s == op[p].box  i == box[s].fork IN
       \/ /\ RmiWorks(i) /\ img' = Gone(i) /\ cache' = Forgotten(p, i)
          /\ box' = Settled([box EXCEPT ![s].fork = "none", ![s].held = FALSE])
          /\ op' = [op EXCEPT ![p] = AfterDestroy(@)]
       \/ Return(p) /\ UNCHANGED <<cache, box, img>>
    /\ UNCHANGED <<alive, left>>

--------------------------------------------------------------------------------
(* cleanup_snapshots, cleanup_orphans, gc.                                      *)

\* cleanup_snapshots: the registry, and the images with this process's label, unless they
\* cannot be listed.
Cleanup(p) ==
    /\ Begin(p)
    /\ LET registry == {i \in Images : cache[p][i] # "none"}
           labelled == {i \in Images : Here(i) /\ img[i].owner = p}
       IN \E todo \in {registry, registry \cup labelled} :
             op' = [op EXCEPT ![p] = [Idle EXCEPT !.call = "cleanup", !.pc = "rmi", !.todo = todo]]
    /\ UNCHANGED <<alive, cache, box, img>>

\* gc reads the labels again, of what the process may know better
Remembered(p, i) == IF op[p].call = "gc" THEN FromLabels(i) ELSE Known(p, i)

\* delete_snapshot for what is on the list, until one of them fails
Rmi(p) ==
    /\ At(p, "rmi")
    /\ \/ op[p].todo = {} /\ Return(p) /\ UNCHANGED <<cache, img>>
       \/ \E i \in op[p].todo :
             /\ RmiWorks(i) /\ img' = Gone(i) /\ cache' = Forgotten(p, i)
             /\ op' = [op EXCEPT ![p].todo = @ \ {i}]
       \/ \E i \in op[p].todo : \* what was on the list is remembered from its labels
             /\ Here(i) /\ cache' = [cache EXCEPT ![p][i] = Remembered(p, i)]
             /\ Return(p) /\ UNCHANGED img
    /\ UNCHANGED <<alive, box, left>>

NotMine(p, q) == p # q

\* An owner that is dead, or not to be seen
DeadOwner(p, q) == ~alive[q]

\* cleanup_orphans, and the first half of gc: the labels are read
Sweep(p, call) ==
    /\ Begin(p)
    /\ op' = [op EXCEPT ![p] = [Idle EXCEPT !.call = call, !.pc = "sweep",
                  !.todo = {s \in Boxes : box[s].st = "run" /\ DeadOwner(p, box[s].owner)}]]
    /\ UNCHANGED <<alive, cache, box, img>>

\* docker rm -f of all of them, of which it may do a part and fail; the images follow
Swept(p) ==
    /\ At(p, "sweep")
    /\ \E done \in SUBSET op[p].todo :
          /\ box' = Settled([s \in Boxes |-> IF s \in done THEN [box[s] EXCEPT !.st = "gone"] ELSE box[s]])
          /\ op' = [op EXCEPT ![p] =
                      IF done = op[p].todo /\ @.call = "gc" THEN
                         [@ EXCEPT !.pc = "rmi",
                                   !.todo = {i \in Images : Here(i) /\ DeadOwner(p, img[i].owner)}]
                      ELSE Idle]
    /\ UNCHANGED <<alive, cache, img, left>>

--------------------------------------------------------------------------------
(* Containers that die (--rm removes them), processes that die, and a provider  *)
(* made anew.                                                                   *)

Die(s) ==
    /\ box[s].st = "run" /\ box[s].held /\ left > 0 /\ left' = left - 1
    /\ box' = [box EXCEPT ![s].st = "gone"]
    /\ UNCHANGED <<alive, cache, img, op>>

Crash(p) ==
    /\ alive[p]
    /\ alive' = [alive EXCEPT ![p] = FALSE]
    /\ cache' = [cache EXCEPT ![p] = [i \in Images |-> "none"]]
    /\ box' = Settled([s \in Boxes |-> IF box[s].owner = p THEN [box[s] EXCEPT !.held = FALSE] ELSE box[s]])
    /\ Return(p)
    /\ UNCHANGED <<img, left>>

Reconstruct(p) ==
    /\ Begin(p)
    /\ cache' = [cache EXCEPT ![p] = [i \in Images |-> "none"]]
    /\ UNCHANGED <<alive, box, img, op>>

Init ==
    /\ alive = [p \in Procs |-> TRUE]
    /\ cache = [p \in Procs |-> [i \in Images |-> "none"]]
    /\ box = [s \in Boxes |-> NoBox]
    /\ img = [i \in Images |-> NoImage]
    /\ op = [p \in Procs |-> Idle]
    /\ left = Budget

Next ==
    \/ \E s \in Boxes : Die(s)
    \/ \E p \in Procs :
          \/ \E extra \in BOOLEAN : Create(p, extra)
          \/ LaunchFails(p) \/ Ready(p) \/ NotReady(p) \/ Undo(p) \/ CommitFails(p) \/ Unfork(p)
          \/ Rm(p) \/ Rmfork(p) \/ Cleanup(p) \/ Rmi(p) \/ Swept(p) \/ Crash(p) \/ Reconstruct(p)
          \/ \E call \in {"orphans", "gc"} : Sweep(p, call)
          \/ \E i \in Images : Commit(p, i) \/ Restore(p, i) \/ Delete(p, i)
          \/ \E s \in Boxes :
                \/ Launch(p, s)
                \/ \E call \in {"snapshot", "fork"} : Snapshot(p, s, call)
                \/ \E call \in {"destroy", "reset"} : Destroy(p, s, call)

Spec == Init /\ [][Next]_vars

--------------------------------------------------------------------------------
(* Properties.                                                                 *)

\* "fork no longer leaks one shinken-snap:* image per call" (docker.py:1257) and "keep the
\* reference until deletion succeeds": the image of a fork that has ended is owed by a handle
\* until it is gone, unless docker itself would not delete it.
NoForkLeak ==
    \A i \in Images :
        img[i].st = "here" /\ img[i].fork /\ alive[img[i].owner] =>
            img[i].stuck \/ op[img[i].owner].img = i \/ \E s \in Boxes : box[s].fork = i

\* Every running container of a live process is held by a handle, is what the process is
\* working on, or is one that docker would not remove.
NoBoxLeak ==
    \A s \in Boxes :
        box[s].st = "run" /\ alive[box[s].owner] =>
            box[s].held \/ box[s].stuck \/ op[box[s].owner].box = s

\* "fail closed" (docker.py, _spec_to_record): what is restored from an image has the
\* environment and metadata the image was taken with; the labels' lack of them is never
\* passed off as the spec.
RestoredIsFaithful ==
    \A s \in Boxes : box[s].st = "run" /\ box[s].from # "base" => box[s].extra = img[box[s].from].extra

\* An operation of p takes nothing from a process that lives.
SparesLive(p) ==
    /\ \A s \in Boxes : box[s].st = "run" /\ box'[s].st # "run" => ~alive[box[s].owner]
    /\ \A i \in Images : img[i].st = "here" /\ img'[i].st # "here" => ~alive[img[i].owner]

\* "never a live owner's session" (cleanup_orphans), "skip live owners" (gc): between the
\* reading of the labels and the removal, too.
GcSparesLive ==
    [][\A p \in Procs : op[p].call \in {"orphans", "gc"} /\ op'[p] # op[p] => SparesLive(p)]_vars

\* "Reclaim the snapshot images THIS PROCESS committed" (docker.py:1215).  The code takes the
\* registry for that, which also has what a restore has looked up: violated.
CleanupIsOwn ==
    [][\A p \in Procs, i \in Images :
          op[p].call = "cleanup" /\ op'[p] # op[p] /\ img[i].st = "here" /\ img'[i].st # "here" =>
              img[i].owner = p]_vars

\* reset(): "Rebuild the complete originating request" and create from it.  A forked
\* sandbox is created from the image that its own destroy deletes: violated.
ResetKeepsItsImage ==
    [][\A p \in Procs, i \in Images :
          op[p].call = "reset" /\ op'[p] # op[p] /\ img[i].st = "here" /\ img'[i].st # "here" =>
              op[p].from # i]_vars

\* "Every snapshot record is persisted on the committed image and can repopulate them after
\* provider reconstruction" (docker.py:224): where the caller gave nothing that may not be
\* written down.  The provenance that a restore adds is metadata too: violated.
RecordRepopulates == \A i \in Images : img[i].st = "here" /\ ~img[i].extra => FromLabels(i) = "labels"

\* What failed operations leave behind, and what a restored sandbox is made of.
SandboxesSound == NoForkLeak /\ NoBoxLeak /\ RestoredIsFaithful
================================================================================
