------------------------------ MODULE MemorySnapshots ------------------------------
(***************************************************************************)
(* Snapshots of a sandbox's processes (sdk/python/src/shinken/providers/   *)
(* criu.py): the dump of the memory, which leaves the donor stopped, the   *)
(* commit of its disk, the resumption of the donor, and the removal of     *)
(* what will not be published; restores with the retry of a lost port; and *)
(* deletion, the directory of the dump before the image.                   *)
(*                                                                         *)
(* Every step is a docker command, which works, fails, or is cut off by    *)
(* its timeout with its work done.  The donor changes its memory and its   *)
(* disk together as long as it runs.  What the image's labels hold, and    *)
(* who may reclaim it, is in Sandboxes.                                    *)
(***************************************************************************)
EXTENDS Naturals, FiniteSets

CONSTANTS
    Snaps,     \* snapshots there may ever be
    MaxWork,   \* changes the donor makes
    Resumes,   \* _DONOR_RESUME_ATTEMPTS, at least 1
    Attempts   \* _CREATE_ATTEMPTS, at least 1

VARIABLES
    donor,  \* does it run, and how often has it changed
    dir,    \* the directory of a dump on the images volume: what of the donor it has
    image,  \* the committed image
    known,  \* what the provider remembers: the record, and _mem for the dump
    op,     \* the operation under way
    boxes,  \* containers started to be restored into, and what they hold
    given,  \* the caller has the id: "no", "yes", or "deleting" when it has asked to delete it
    gaveUp  \* the donor could not be resumed; images and directories docker would not remove

vars == <<donor, dir, image, known, op, boxes, given, gaveUp>>

Idle == [pc |-> "idle", snap |-> 0, tries |-> 0, committed |-> FALSE, failed |-> FALSE]
NoDump == [st |-> "none", work |-> 0]
Unknown == [record |-> FALSE, mem |-> FALSE]
NoBoxes == [st |-> "none", memory |-> 0, disk |-> 0]

Goto(pc) == op' = [op EXCEPT !.pc = pc]

\* The donor goes on.
Work ==
    /\ donor.running /\ donor.work < MaxWork
    /\ donor' = [donor EXCEPT !.work = @ + 1]
    /\ UNCHANGED <<dir, image, known, op, boxes, gaveUp, given>>

--------------------------------------------------------------------------------
(* _take_snapshot.                                                              *)

Begin(s) ==
    /\ op.pc = "idle" /\ dir[s].st = "none" /\ image[s].st = "none" /\ donor.running
    /\ op' = [Idle EXCEPT !.pc = "dump", !.snap = s]
    /\ UNCHANGED <<donor, dir, image, known, boxes, gaveUp, given>>

DumpRunning == [donor EXCEPT !.running = TRUE]

AfterFailedDumpRaise == "rmi"

\* "A failed dump/commit can still leave part or all of the tree stopped."
AfterFailedDump == "resume"

\* criu dump --leave-stopped
Dumped == [donor EXCEPT !.running = FALSE]

Dump ==
    /\ op.pc = "dump"
    /\ \/ /\ dir' = [dir EXCEPT ![op.snap] = [st |-> "full", work |-> donor.work]]
          /\ donor' = Dumped /\ Goto("commit")
       \/ \* it fails half way, or its answer is lost
          /\ \E st \in {"part", "full"} : dir' = [dir EXCEPT ![op.snap] = [st |-> st, work |-> donor.work]]
          /\ \E d \in {donor, Dumped} : donor' = d
          /\ op' = [op EXCEPT !.pc = AfterFailedDump, !.failed = TRUE]
    /\ UNCHANGED <<image, known, boxes, gaveUp, given>>

\* docker commit; a commit that is cut off may still make its image.
Commit ==
    /\ op.pc = "commit"
    /\ LET made == [image EXCEPT ![op.snap] = [st |-> "here", work |-> donor.work]] IN
       \/ image' = made /\ op' = [op EXCEPT !.pc = "resume", !.committed = TRUE] /\ UNCHANGED gaveUp
       \/ image' = image /\ op' = [op EXCEPT !.pc = "resume", !.failed = TRUE] /\ UNCHANGED gaveUp
       \/ image' = made /\ op' = [op EXCEPT !.pc = "resume", !.failed = TRUE]
          /\ gaveUp' = [gaveUp EXCEPT !.images = @ \cup {op.snap}]
    /\ UNCHANGED <<donor, dir, known, boxes, given>>

AfterResume == IF op.failed THEN "rmi" ELSE "publish"

\* A donor that is still stopped after the last attempt: nothing is published.
AfterFailure == "rmi"

\* _resume_donor: CONT, and a look at the root of the tree
Resume ==
    /\ op.pc = "resume"
    /\ \/ donor' = [donor EXCEPT !.running = TRUE] /\ Goto(AfterResume) /\ UNCHANGED gaveUp
       \/ /\ op.tries + 1 < Resumes
          /\ op' = [op EXCEPT !.tries = @ + 1]
          /\ UNCHANGED <<donor, gaveUp>>
       \/ /\ op.tries + 1 = Resumes
          /\ op' = [op EXCEPT !.pc = AfterFailure, !.failed = TRUE]
          /\ gaveUp' = [gaveUp EXCEPT !.donor = TRUE] /\ UNCHANGED donor
    /\ UNCHANGED <<dir, image, known, boxes, given>>

\* _cleanup_unpublished_snapshot: what fails is logged, and the rest is done.
CleanupImage ==
    /\ op.pc = "rmi"
    /\ \/ op.committed /\ image' = [image EXCEPT ![op.snap] = [@ EXCEPT !.st = "gone"]] /\ UNCHANGED gaveUp
       \/ op.committed /\ gaveUp' = [gaveUp EXCEPT !.images = @ \cup {op.snap}] /\ UNCHANGED image
       \/ ~op.committed /\ UNCHANGED <<image, gaveUp>>
    /\ Goto("rmdir")
    /\ UNCHANGED <<donor, dir, known, boxes, given>>

CleanupDir ==
    /\ op.pc = "rmdir"
    /\ \/ dir' = [dir EXCEPT ![op.snap] = [@ EXCEPT !.st = "gone"]] /\ UNCHANGED gaveUp
       \/ gaveUp' = [gaveUp EXCEPT !.dirs = @ \cup {op.snap}] /\ UNCHANGED dir
    /\ op' = Idle
    /\ UNCHANGED <<donor, image, known, boxes, given>>

Publish ==
    /\ op.pc = "publish"
    /\ known' = [known EXCEPT ![op.snap] = [record |-> TRUE, mem |-> TRUE]]
    /\ given' = [given EXCEPT ![op.snap] = "yes"]
    /\ op' = Idle
    /\ UNCHANGED <<donor, dir, image, boxes, gaveUp>>

--------------------------------------------------------------------------------
(* restore, and a provider made anew, which reads the labels.                   *)

\* _resolve_snapshot and _hydrate_tier_metadata, by an id the caller was given
Resolve(s) ==
    IF known[s].record \/ image[s].st # "here" THEN known[s] ELSE [record |-> TRUE, mem |-> TRUE]

Restore(s) ==
    /\ op.pc = "idle" /\ boxes.st = "none" /\ given[s] # "no"
    /\ known' = [known EXCEPT ![s] = Resolve(s)]
    /\ op' = IF Resolve(s).mem THEN [Idle EXCEPT !.pc = "launch", !.snap = s, !.tries = 1] ELSE op
    /\ UNCHANGED <<donor, dir, image, boxes, gaveUp, given>>

\* An idle container from the committed image; a port that was lost is tried again.
Launch ==
    /\ op.pc = "launch"
    /\ \/ /\ image[op.snap].st = "here"
          /\ boxes' = [st |-> "idle", memory |-> 0, disk |-> image[op.snap].work]
          /\ Goto("criu")
       \/ op.tries < Attempts /\ op' = [op EXCEPT !.tries = @ + 1] /\ UNCHANGED boxes
       \/ op' = Idle /\ UNCHANGED boxes
    /\ UNCHANGED <<donor, dir, image, known, gaveUp, given>>

\* criu restore, the token, and readiness
CriuRestore ==
    /\ op.pc = "criu"
    /\ \/ /\ dir[op.snap].st = "full"
          /\ boxes' = [boxes EXCEPT !.st = "live", !.memory = dir[op.snap].work]
          /\ op' = Idle
       \/ Goto("undo") /\ UNCHANGED boxes
    /\ UNCHANGED <<donor, dir, image, known, gaveUp, given>>

\* What was not restored is destroyed, and the error is the caller's.
Undo ==
    /\ op.pc = "undo"
    /\ boxes' = NoBoxes /\ op' = Idle
    /\ UNCHANGED <<donor, dir, image, known, gaveUp, given>>

Destroy ==
    /\ op.pc = "idle" /\ boxes.st = "live"
    /\ boxes' = NoBoxes
    /\ UNCHANGED <<donor, dir, image, known, op, gaveUp, given>>

\* delete_snapshot: the directory, what is remembered of the dump, and then the image and
\* the record.  What has gone is no error, and what fails is kept for a retry.
Delete(s) ==
    /\ op.pc = "idle" /\ given[s] # "no" /\ Resolve(s).record
    /\ given' = [given EXCEPT ![s] = "deleting"]
    /\ known' = [known EXCEPT ![s] = Resolve(s)]
    /\ op' = [Idle EXCEPT !.pc = IF Resolve(s).mem THEN "deldir" ELSE "delimage", !.snap = s]
    /\ UNCHANGED <<donor, dir, image, boxes, gaveUp>>

DeleteDir ==
    /\ op.pc = "deldir"
    /\ \/ /\ dir' = [dir EXCEPT ![op.snap] = [@ EXCEPT !.st = "gone"]]
          /\ known' = [known EXCEPT ![op.snap].mem = FALSE] /\ Goto("delimage")
       \/ op' = Idle /\ UNCHANGED <<dir, known>>
    /\ UNCHANGED <<donor, image, boxes, given, gaveUp>>

DeleteImage ==
    /\ op.pc = "delimage"
    /\ \/ /\ image' = [image EXCEPT ![op.snap] = [@ EXCEPT !.st = "gone"]]
          /\ known' = [known EXCEPT ![op.snap] = Unknown]
       \/ UNCHANGED <<image, known>>
    /\ op' = Idle
    /\ UNCHANGED <<donor, dir, boxes, given, gaveUp>>

Reconstruct ==
    /\ op.pc = "idle"
    /\ known' = [s \in Snaps |-> Unknown]
    /\ UNCHANGED <<donor, dir, image, op, boxes, gaveUp, given>>

Init ==
    /\ donor = [running |-> TRUE, work |-> 0]
    /\ dir = [s \in Snaps |-> NoDump]
    /\ image = [s \in Snaps |-> NoDump]
    /\ known = [s \in Snaps |-> Unknown]
    /\ op = Idle
    /\ boxes = NoBoxes
    /\ given = [s \in Snaps |-> "no"]
    /\ gaveUp = [donor |-> FALSE, images |-> {}, dirs |-> {}]

Step ==
    \/ Dump \/ Commit \/ Resume \/ CleanupImage \/ CleanupDir \/ Publish
    \/ Launch \/ CriuRestore \/ Undo \/ DeleteDir \/ DeleteImage

Next ==
    \/ Work \/ Step \/ Destroy \/ Reconstruct
    \/ \E s \in Snaps : Begin(s) \/ Restore(s) \/ Delete(s)

\* An operation goes on until it has returned or raised.
Spec == Init /\ [][Next]_vars /\ WF_vars(Step)

--------------------------------------------------------------------------------
(* Properties.                                                                 *)

\* "Dump memory and commit the rootfs inside one stopped consistency window" (criu.py:200):
\* the dump and the image a caller was given, and what is restored from them, are of one
\* moment of the donor, whatever failed, was retried or was deleted before.
OneMoment ==
    /\ boxes.st = "live" => boxes.memory = boxes.disk
    /\ \A s \in Snaps : given[s] = "yes" =>
          dir[s].st = "full" /\ image[s].st = "here" /\ dir[s].work = image[s].work

\* Of a snapshot that was not returned, neither an image nor a dump is left, but for what
\* docker would not remove, and a commit that went on after its timeout.
NothingUnpublished ==
    op.pc = "idle" => \A s \in Snaps : given[s] = "no" =>
        /\ image[s].st = "here" => s \in gaveUp.images
        /\ dir[s].st \in {"part", "full"} => s \in gaveUp.dirs

\* A donor that was stopped for a snapshot runs again before the operation ends, or the
\* resumption was tried Resumes times and reported.
DonorRunsAgain == ~donor.running ~> donor.running \/ gaveUp.donor

\* A snapshot of memory is of one moment, or it is not there (_take_snapshot).
DumpsSound == OneMoment /\ NothingUnpublished
================================================================================
