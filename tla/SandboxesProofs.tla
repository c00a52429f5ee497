---------------------------- MODULE SandboxesProofs ----------------------------
(***************************************************************************)
(* What the operations of the Docker provider leave behind and what they   *)
(* take, for any number of processes, containers, images and attempts,     *)
(* whatever fails, times out or dies.  Then what crosses the border of a   *)
(* sandbox, and who leaves it: the session() blocks of an Agentix provider *)
(* (AgentixScopes), the transfers of LocalArtifactStore (Transfers) and    *)
(* the injection of shinkend (Injections), for any number of blocks,       *)
(* movers and attempts.  Then those who hold sandboxes: deployments with   *)
(* shell sessions (SweDeployments), the runtime of a rollout (Rollouts)    *)
(* and a sandbox from its making to its end (Lifecycles).  And that the    *)
(* composition keeps what its parts promise.                               *)
(***************************************************************************)
EXTENDS MCSandboxes, SequenceTheorems, TLAPS

Calls == {"none", "create", "snapshot", "fork", "restore", "delete", "destroy", "reset",
          "cleanup", "orphans", "gc"}
Pcs == {"idle", "launch", "wait", "undo", "commit", "unfork", "rm", "rmfork", "rmi", "sweep"}

Box == [st : {"none", "run", "gone"}, owner : Procs \cup {"none"}, from : Images \cup {"base"},
        extra : BOOLEAN, lineage : BOOLEAN, held : BOOLEAN, fork : Images \cup {"none"},
        stuck : BOOLEAN]
Image == [st : {"none", "here", "gone"}, owner : Procs \cup {"none"}, extra : BOOLEAN,
          lineage : BOOLEAN, fork : BOOLEAN, stuck : BOOLEAN]
Op == [call : Calls, pc : Pcs, box : Boxes \cup {"none"}, img : Images \cup {"none"}, tries : Nat,
       extra : BOOLEAN, lineage : BOOLEAN, from : Images \cup {"base"},
       todo : SUBSET (Images \cup Boxes)]

Typing ==
    /\ alive \in [Procs -> BOOLEAN]
    /\ cache \in [Procs -> [Images -> {"none", "own", "labels", "unresolved"}]]
    /\ box \in [Boxes -> Box]
    /\ img \in [Images -> Image]
    /\ op \in [Procs -> Op]
    /\ left \in Nat

\* A live process works on its own container until it hands it out or gives it up.
WorksOn(p, s) == op[p].pc \in {"wait", "undo"} /\ op[p].box = s

\* A live process has the snapshot of its fork still in hand.
Forking(p, i) == op[p].call = "fork" /\ op[p].pc # "commit" /\ op[p].img = i

BoxOK(s) ==
    /\ box[s].st = "none" => box[s] = NoBox
    /\ box[s].st # "none" => box[s].owner \in Procs
    /\ box[s].st = "gone" => box[s].held
    /\ box[s].held => alive[box[s].owner]
    /\ box[s].fork # "none" =>
         img[box[s].fork].st # "none" /\ (alive[box[s].owner] => box[s].held)
    /\ box[s].st = "run" /\ alive[box[s].owner] =>
         box[s].held \/ box[s].stuck \/ WorksOn(box[s].owner, s)
    /\ box[s].from # "base" =>
         img[box[s].from].st # "none" /\ box[s].extra = img[box[s].from].extra

ImgOK(i) ==
    /\ img[i].st # "none" => img[i].owner \in Procs
    /\ img[i].st = "here" /\ img[i].fork /\ alive[img[i].owner] =>
         \/ img[i].stuck \/ Forking(img[i].owner, i)
         \/ \E s \in Boxes : box[s].fork = i /\ box[s].owner = img[i].owner

CacheOK(p) ==
    \A i \in Images : /\ cache[p][i] # "none" => img[i].st # "none"
                      /\ cache[p][i] = "labels" => ~img[i].extra

OpOK(p) ==
    /\ ~alive[p] \/ op[p].pc = "idle" => op[p] = Idle
    /\ op[p].pc \in {"wait", "undo"} =>
         /\ op[p].box \in Boxes
         /\ box[op[p].box].st = "run" /\ box[op[p].box].owner = p
         /\ ~box[op[p].box].held /\ box[op[p].box].fork = "none"
    /\ op[p].pc = "commit" => op[p].box \in Boxes
    /\ op[p].pc \in {"rm", "rmfork"} =>
         /\ op[p].call \in {"destroy", "reset"}
         /\ op[p].box \in Boxes /\ box[op[p].box].held /\ box[op[p].box].owner = p
    /\ op[p].pc = "rmfork" => box[op[p].box].st = "gone" /\ box[op[p].box].fork # "none"
    /\ op[p].call = "fork" => op[p].pc \in {"commit", "launch", "wait", "undo", "unfork"}
    /\ op[p].call = "fork" /\ op[p].pc # "commit" => op[p].img \in Images /\ img[op[p].img].st # "none"
    /\ op[p].pc = "unfork" => op[p].call = "fork"
    /\ op[p].from # "base" => img[op[p].from].st # "none" /\ op[p].extra = img[op[p].from].extra
    /\ op[p].call \in {"orphans", "gc"} => op[p].pc \in {"sweep", "rmi"}
    /\ op[p].pc = "sweep" =>
         /\ op[p].call \in {"orphans", "gc"}
         /\ op[p].todo \subseteq Boxes
         /\ \A s \in op[p].todo : box[s].st = "none" \/ ~alive[box[s].owner]
    /\ op[p].pc = "rmi" =>
         /\ op[p].call \in {"delete", "cleanup", "gc"}
         /\ op[p].todo \subseteq Images
         /\ \A i \in op[p].todo : img[i].st # "none" /\ (op[p].call = "gc" => ~alive[img[i].owner])

IInv ==
    /\ Typing
    /\ \A s \in Boxes : BoxOK(s)
    /\ \A i \in Images : ImgOK(i)
    /\ \A p \in Procs : CacheOK(p) /\ OpOK(p)

--------------------------------------------------------------------------------
(* What a step of p may do to what belongs to others.                          *)

\* It works on containers of its own, on new ones, and removes those of the dead.
Takes(p, s) ==
    \/ box[s].st # "none" /\ box[s].owner = p /\ (box'[s] = NoBox \/ box'[s].owner = p)
    \/ box[s].st = "none" /\ box'[s].owner = p /\ \A q \in Procs : s \notin op[q].todo
    \/ ~alive[box[s].owner] /\ box'[s] = NoBox

\* An image is taken once and never forgotten; it is made, removed, or turns out to be stuck.
Grows(p, i) ==
    /\ img[i].st # "none" =>
         img'[i].st # "none" /\ img'[i].owner = img[i].owner /\ img'[i].extra = img[i].extra
    /\ \/ img'[i] = img[i] \/ img'[i].owner = p
       \/ img[i].st # "none" /\ (img'[i].st = "gone" \/ img'[i].stuck)

Alone(p) ==
    /\ alive[p] /\ alive' = alive
    /\ \A q \in Procs \ {p} : op'[q] = op[q] /\ cache'[q] = cache[q]
    /\ \A s \in Boxes : box'[s] = box[s] \/ Takes(p, s)
    /\ \A i \in Images : Grows(p, i)

LEMMA Types == NoBox \in Box /\ NoImage \in Image /\ Idle \in Op
  BY DEF NoBox, NoImage, Idle, Box, Image, Op, Calls, Pcs

LEMMA BoxElsewhere ==
    ASSUME IInv, NEW p \in Procs, Alone(p), NEW s \in Boxes, box'[s] = box[s], box[s].owner # p
    PROVE  BoxOK(s)'
  <1>1. BoxOK(s) /\ \A i \in Images : Grows(p, i)
    BY DEF IInv, Alone
  <1>2. box[s] \in Box /\ \A q \in Procs : op[q] \in Op
    BY DEF IInv, Typing
  <1>3. box[s].st # "none" => op'[box[s].owner] = op[box[s].owner]
    BY <1>1 DEF BoxOK, Alone
  <1>4. alive' = alive
    BY DEF Alone
  <1>5. /\ box[s].fork # "none" => box[s].fork \in Images
        /\ box[s].from # "base" => box[s].from \in Images
    BY <1>2 DEF Box
  <1>6. box[s].st = "none" => box[s].fork = "none" /\ box[s].from = "base"
    BY <1>1 DEF BoxOK, NoBox
  <1>a. (box[s].st = "none" => box[s] = NoBox)'
    BY <1>1, <1>3, <1>4, <1>5 DEF BoxOK, NoBox
  <1>b. /\ (box[s].st # "none" => box[s].owner \in Procs)'
        /\ (box[s].st = "gone" => box[s].held)'
        /\ (box[s].held => alive[box[s].owner])'
    BY <1>1, <1>4 DEF BoxOK
  <1>c. (box[s].fork # "none" =>
           img[box[s].fork].st # "none" /\ (alive[box[s].owner] => box[s].held))'
    BY <1>1, <1>4, <1>5 DEF BoxOK, Grows
  <1>d. (box[s].st = "run" /\ alive[box[s].owner] =>
           box[s].held \/ box[s].stuck \/ WorksOn(box[s].owner, s))'
    BY <1>1, <1>3, <1>4 DEF BoxOK, WorksOn
  <1>e. (box[s].from # "base" =>
           img[box[s].from].st # "none" /\ box[s].extra = img[box[s].from].extra)'
    BY <1>1, <1>4, <1>5 DEF BoxOK, Grows
  <1> QED BY <1>a, <1>b, <1>c, <1>d, <1>e DEF BoxOK

LEMMA ImgElsewhere ==
    ASSUME IInv, Typing', NEW p \in Procs, Alone(p), NEW i \in Images, img'[i].owner # p
    PROVE  ImgOK(i)'
  <1>1. ImgOK(i) /\ Grows(p, i) /\ alive' = alive
    BY DEF IInv, Alone
  <1>2. CASE img[i].st # "none" /\ (img'[i].st = "gone" \/ img'[i].stuck)
    BY <1>1, <1>2 DEF ImgOK, Grows
  <1>3. CASE img'[i] = img[i]
    <2>1. SUFFICES ASSUME img[i].st = "here", img[i].fork, alive[img[i].owner], ~img[i].stuck
                   PROVE  (\/ Forking(img[i].owner, i)
                           \/ \E s \in Boxes : box[s].fork = i /\ box[s].owner = img[i].owner)'
      BY <1>1, <1>3 DEF ImgOK
    <2> DEFINE q == img[i].owner
    <2>2. q \in Procs /\ q # p /\ op'[q] = op[q]
      BY <1>1, <1>3, <2>1 DEF ImgOK, Alone
    <2>3. CASE Forking(q, i)
      BY <1>3, <2>2, <2>3 DEF Forking
    <2>4. ASSUME NEW s \in Boxes, box[s].fork = i, box[s].owner = q
          PROVE  box'[s] = box[s]
      <3>1. BoxOK(s) /\ (box'[s] = box[s] \/ Takes(p, s))
        BY DEF IInv, Alone
      <3>2. i # "none"
        BY SandboxAssumption
      <3> QED BY <2>1, <2>2, <2>4, <3>1, <3>2 DEF Takes, BoxOK, NoBox
    <2> QED BY <1>1, <1>3, <2>1, <2>3, <2>4 DEF ImgOK
  <1> QED BY <1>1, <1>2, <1>3 DEF Grows

LEMMA ProcElsewhere ==
    ASSUME IInv, NEW p \in Procs, Alone(p), NEW q \in Procs, q # p
    PROVE  CacheOK(q)' /\ OpOK(q)'
  <1>1. CacheOK(q) /\ OpOK(q) /\ op'[q] = op[q] /\ cache'[q] = cache[q] /\ alive' = alive
    BY DEF IInv, Alone
  <1>2. \A i \in Images : Grows(p, i)
    BY DEF Alone
  <1>3. CacheOK(q)'
    BY <1>1, <1>2 DEF CacheOK, Grows
  <1>4. op[q] \in Op
    BY DEF IInv, Typing
  <1>5. ASSUME NEW s \in Boxes, box[s].owner = q, alive[q], box[s].st # "none"
        PROVE  box'[s] = box[s]
    BY <1>5 DEF Alone, Takes
  <1>6. alive[q] \/ op[q] = Idle
    BY <1>1 DEF OpOK
  <1>7. ASSUME NEW s \in Boxes, s \in op[q].todo, box[s].st = "none" \/ ~alive[box[s].owner]
        PROVE  box'[s].st = "none" \/ ~alive[box'[s].owner]
    BY <1>7 DEF Alone, Takes, NoBox
  <1>8. (~alive[q] \/ op[q].pc = "idle" => op[q] = Idle)'
    BY <1>1 DEF OpOK
  <1>9. (op[q].pc \in {"wait", "undo"} =>
           /\ op[q].box \in Boxes
           /\ box[op[q].box].st = "run" /\ box[op[q].box].owner = q
           /\ ~box[op[q].box].held /\ box[op[q].box].fork = "none")'
    BY <1>1, <1>5, <1>6 DEF OpOK, Idle
  <1>10. (op[q].pc \in {"rm", "rmfork"} =>
            /\ op[q].call \in {"destroy", "reset"}
            /\ op[q].box \in Boxes /\ box[op[q].box].held /\ box[op[q].box].owner = q)'
    <2>1. \A s \in Boxes : box[s].held => box[s].st # "none"
      BY DEF IInv, BoxOK, NoBox
    <2> QED BY <1>1, <1>5, <1>6, <2>1 DEF OpOK, Idle
  <1>11. (op[q].pc = "rmfork" => box[op[q].box].st = "gone" /\ box[op[q].box].fork # "none")'
    BY <1>1, <1>5, <1>6 DEF OpOK, Idle
  <1>12. /\ (op[q].pc = "commit" => op[q].box \in Boxes)'
         /\ (op[q].call = "fork" => op[q].pc \in {"commit", "launch", "wait", "undo", "unfork"})'
         /\ (op[q].pc = "unfork" => op[q].call = "fork")'
         /\ (op[q].call \in {"orphans", "gc"} => op[q].pc \in {"sweep", "rmi"})'
    BY <1>1 DEF OpOK
  <1>13. (op[q].call = "fork" /\ op[q].pc # "commit" =>
            op[q].img \in Images /\ img[op[q].img].st # "none")'
    BY <1>1, <1>2 DEF OpOK, Grows
  <1>14. (op[q].from # "base" =>
            img[op[q].from].st # "none" /\ op[q].extra = img[op[q].from].extra)'
    BY <1>1, <1>2, <1>4 DEF OpOK, Grows, Op
  <1>15. (op[q].pc = "sweep" =>
            /\ op[q].call \in {"orphans", "gc"}
            /\ op[q].todo \subseteq Boxes
            /\ \A s \in op[q].todo : box[s].st = "none" \/ ~alive[box[s].owner])'
    BY <1>1, <1>7 DEF OpOK
  <1>16. (op[q].pc = "rmi" =>
            /\ op[q].call \in {"delete", "cleanup", "gc"}
            /\ op[q].todo \subseteq Images
            /\ \A i \in op[q].todo :
                  img[i].st # "none" /\ (op[q].call = "gc" => ~alive[img[i].owner]))'
    BY <1>1, <1>2 DEF OpOK, Grows
  <1> QED BY <1>3, <1>8, <1>9, <1>10, <1>11, <1>12, <1>13, <1>14, <1>15, <1>16 DEF OpOK

\* So it is enough to look at what is p's own and at what has changed.
LEMMA EnoughAtHome ==
    ASSUME IInv, Typing', NEW p \in Procs, Alone(p), CacheOK(p)', OpOK(p)',
           \A s \in Boxes : box[s].owner = p \/ box'[s] # box[s] => BoxOK(s)',
           \A i \in Images : img'[i].owner = p => ImgOK(i)'
    PROVE  IInv'
  <1>1. \A s \in Boxes : BoxOK(s)'
    BY BoxElsewhere
  <1>2. \A i \in Images : ImgOK(i)'
    BY ImgElsewhere
  <1>3. \A q \in Procs : CacheOK(q)' /\ OpOK(q)'
    BY ProcElsewhere
  <1> QED BY <1>1, <1>2, <1>3 DEF IInv
--------------------------------------------------------------------------------
(* Steps that begin an operation, or go on with one, and touch nothing yet.     *)

\* What p still works on, and the snapshot it still has in hand, it keeps.
GoesOn(p, o) ==
    /\ op[p].pc \in {"wait", "undo"} => o.pc \in {"wait", "undo"} /\ o.box = op[p].box
    /\ \A i \in Images : Forking(p, i) => o.call = "fork" /\ o.pc # "commit" /\ o.img = i

LEMMA OpStep ==
    ASSUME IInv, NEW p \in Procs, alive[p], NEW o \in Op, GoesOn(p, o),
           op' = [op EXCEPT ![p] = o], UNCHANGED <<alive, box, img>>,
           NEW c \in [Images -> {"none", "own", "labels", "unresolved"}],
           cache' = [cache EXCEPT ![p] = c], left' \in Nat,
           CacheOK(p)', OpOK(p)'
    PROVE  IInv'
  <1>1. Typing'
    BY DEF IInv, Typing
  <1>2. /\ op'[p] = o /\ \A q \in Procs \ {p} : op'[q] = op[q]
        /\ \A q \in Procs \ {p} : cache'[q] = cache[q]
        /\ alive' = alive /\ box' = box /\ img' = img
    BY DEF IInv, Typing
  <1>3. Alone(p)
    BY <1>2 DEF Alone, Grows
  <1>4. ASSUME NEW s \in Boxes, box[s].owner = p
        PROVE  BoxOK(s)'
    <2>1. BoxOK(s)
      BY DEF IInv
    <2>2. WorksOn(p, s) => WorksOn(p, s)'
      BY <1>2 DEF WorksOn, GoesOn
    <2> QED BY <1>2, <1>4, <2>1, <2>2 DEF BoxOK
  <1>5. ASSUME NEW i \in Images, img'[i].owner = p
        PROVE  ImgOK(i)'
    <2>1. ImgOK(i)
      BY DEF IInv
    <2>2. Forking(p, i) => Forking(p, i)'
      BY <1>2 DEF Forking, GoesOn
    <2> QED BY <1>2, <1>5, <2>1, <2>2 DEF ImgOK
  <1> QED BY <1>1, <1>2, <1>3, <1>4, <1>5, EnoughAtHome

\* The same, when the cache is left alone too.
LEMMA OpOnlyStep ==
    ASSUME IInv, NEW p \in Procs, alive[p], NEW o \in Op, GoesOn(p, o),
           op' = [op EXCEPT ![p] = o], UNCHANGED <<alive, cache, box, img>>, left' \in Nat,
           OpOK(p)'
    PROVE  IInv'
  <1>1. cache[p] \in [Images -> {"none", "own", "labels", "unresolved"}]
    BY DEF IInv, Typing
  <1>2. cache' = [cache EXCEPT ![p] = cache[p]]
    BY DEF IInv, Typing
  <1>3. CacheOK(p)'
    BY DEF IInv, CacheOK
  <1> QED BY <1>1, <1>2, <1>3, OpStep

\* A process that begins is idle and has nothing in hand.
LEMMA Beginning ==
    ASSUME IInv, NEW p \in Procs, Begin(p)
    PROVE  /\ alive[p] /\ left' \in Nat /\ op[p] = Idle
           /\ \A o \in Op : GoesOn(p, o)
  <1>1. alive[p] /\ op[p] = Idle
    BY DEF IInv, OpOK, Begin, At
  <1> QED BY <1>1 DEF IInv, Typing, Begin, GoesOn, Forking, Idle

LEMMA CreateStep ==
    ASSUME IInv, NEW p \in Procs, NEW extra \in BOOLEAN, Create(p, extra)
    PROVE  IInv'
  <1> DEFINE o == [Idle EXCEPT !.call = "create", !.pc = "launch", !.tries = 1, !.extra = extra]
  <1>1. o \in Op
    BY DEF Idle, Op, Calls, Pcs
  <1>2. alive[p] /\ left' \in Nat /\ GoesOn(p, o)
    BY <1>1, Beginning DEF Create
  <1>3. op' = [op EXCEPT ![p] = o] /\ UNCHANGED <<alive, cache, box, img>>
    BY DEF Create
  <1>4. op'[p] = o
    BY <1>3 DEF IInv, Typing
  <1>5. o.pc = "launch" /\ o.call = "create" /\ o.from = "base"
    BY DEF Idle
  <1>6. OpOK(p)'
    <2> HIDE DEF o
    <2> QED BY <1>2, <1>3, <1>4, <1>5 DEF OpOK
  <1> QED BY <1>1, <1>2, <1>3, <1>6, OpOnlyStep

\* An operation that ends, or a fork that goes on to give up its snapshot.
LEMMA ReturnStep ==
    ASSUME IInv, NEW p \in Procs, alive[p], Return(p), UNCHANGED <<alive, cache, box, img, left>>,
           op[p].pc \notin {"wait", "undo"}, op[p].call # "fork" \/ op[p].pc = "commit"
    PROVE  IInv'
  <1>1. op' = [op EXCEPT ![p] = Idle] /\ left' \in Nat /\ GoesOn(p, Idle)
    BY DEF Return, IInv, Typing, GoesOn, Forking
  <1>2. op'[p] = Idle
    BY <1>1 DEF IInv, Typing
  <1>3. OpOK(p)'
    BY <1>2 DEF OpOK, Idle
  <1> QED BY <1>1, <1>3, Types, OpOnlyStep

\* What _raise_ leaves of an operation is sound.
LEMMA RaisedOK ==
    ASSUME IInv, NEW p \in Procs, alive[p], Raised(p), alive' = alive, op[p].pc # "commit",
           \A i \in Images : Grows(p, i)
    PROVE  /\ op' \in [Procs -> Op] /\ OpOK(p)'
           /\ \A q \in Procs \ {p} : op'[q] = op[q]
           /\ op[p].call # "fork" => op' = [op EXCEPT ![p] = Idle]
           /\ op[p].call = "fork" => op' = [op EXCEPT ![p] = [op[p] EXCEPT !.pc = "unfork"]]
           /\ \A i \in Images : Forking(p, i) => Forking(p, i)'
  <1>1. op[p] \in Op /\ OpOK(p)
    BY DEF IInv, Typing
  <1>2. CASE op[p].call = "fork"
    <2> DEFINE o == [op[p] EXCEPT !.pc = "unfork"]
    <2>1. op' = [op EXCEPT ![p] = o]
      BY <1>2 DEF Raised, IInv, Typing
    <2>2. o \in Op
      BY <1>1 DEF Op, Pcs
    <2>3. op'[p] = o
      BY <2>1 DEF IInv, Typing
    <2>4. /\ o.pc = "unfork" /\ o.call = "fork" /\ o.img = op[p].img /\ o.from = op[p].from
          /\ o.extra = op[p].extra
      BY <1>1, <1>2 DEF Op
    <2>5. op[p].from # "base" => op[p].from \in Images
      BY <1>1 DEF Op
    <2>6. OpOK(p)'
      <3> HIDE DEF o
      <3> QED BY <1>1, <1>2, <2>3, <2>4, <2>5 DEF OpOK, Grows
    <2>7. \A i \in Images : Forking(p, i) => Forking(p, i)'
      BY <2>3, <2>4 DEF Forking
    <2> QED BY <1>2, <2>1, <2>2, <2>6, <2>7 DEF IInv, Typing
  <1>3. CASE op[p].call # "fork"
    <2>1. op' = [op EXCEPT ![p] = Idle]
      BY <1>3 DEF Raised, IInv, Typing
    <2>2. op'[p] = Idle
      BY <2>1 DEF IInv, Typing
    <2>3. OpOK(p)'
      BY <2>2 DEF OpOK, Idle
    <2> QED BY <1>3, <2>1, <2>3, Types DEF IInv, Typing, Forking
  <1> QED BY <1>2, <1>3

\* And so is another attempt.
LEMMA AgainOK ==
    ASSUME IInv, NEW p \in Procs, alive[p], Again(p), alive' = alive,
           op[p].pc \in {"launch", "undo"}, \A i \in Images : Grows(p, i)
    PROVE  /\ op' \in [Procs -> Op] /\ OpOK(p)'
           /\ \A q \in Procs \ {p} : op'[q] = op[q]
           /\ \A i \in Images : Forking(p, i) => Forking(p, i)'
  <1> DEFINE o == [op[p] EXCEPT !.pc = "launch", !.tries = op[p].tries + 1, !.box = "none"]
  <1>1. op[p] \in Op /\ OpOK(p)
    BY DEF IInv, Typing
  <1>2. o \in Op
    <2>1. op[p].tries + 1 \in Nat
      BY <1>1 DEF Op
    <2> QED BY <1>1, <2>1 DEF Op, Pcs
  <1>3. op' = [op EXCEPT ![p] = o]
    BY DEF Again, IInv, Typing
  <1>4. op'[p] = o
    BY <1>3 DEF IInv, Typing
  <1>5. /\ o.pc = "launch" /\ o.call = op[p].call /\ o.img = op[p].img /\ o.from = op[p].from
        /\ o.extra = op[p].extra
    BY <1>1 DEF Op
  <1>6. op[p].from # "base" => op[p].from \in Images
    BY <1>1 DEF Op
  <1> HIDE DEF o
  <1>7. OpOK(p)'
    BY <1>1, <1>4, <1>5, <1>6 DEF OpOK, Idle, Grows
  <1>8. \A i \in Images : Forking(p, i) => Forking(p, i)'
    BY <1>4, <1>5 DEF Forking
  <1> QED BY <1>2, <1>3, <1>7, <1>8 DEF IInv, Typing

LEMMA LaunchFailsStep ==
    ASSUME IInv, NEW p \in Procs, LaunchFails(p)
    PROVE  IInv'
  <1>1. /\ op[p] \in Op /\ alive[p] /\ op[p].pc = "launch" /\ left' \in Nat
        /\ UNCHANGED <<alive, cache, box, img, left>> /\ (Again(p) \/ Raised(p))
    BY DEF IInv, Typing, LaunchFails, At
  <1>2. \A i \in Images : Grows(p, i)
    BY <1>1 DEF Grows
  <1>3. /\ op' \in [Procs -> Op] /\ OpOK(p)' /\ \A q \in Procs \ {p} : op'[q] = op[q]
        /\ \A i \in Images : Forking(p, i) => Forking(p, i)'
    BY <1>1, <1>2, RaisedOK, AgainOK
  <1>4. op' = [op EXCEPT ![p] = op'[p]] /\ op'[p] \in Op
    BY <1>3 DEF IInv, Typing
  <1>5. GoesOn(p, op'[p])
    BY <1>1, <1>3 DEF GoesOn, Forking
  <1> QED BY <1>1, <1>3, <1>4, <1>5, OpOnlyStep

LEMMA NotReadyStep ==
    ASSUME IInv, NEW p \in Procs, NotReady(p)
    PROVE  IInv'
  <1> DEFINE o == [op[p] EXCEPT !.pc = "undo"]
  <1>1. /\ op[p] \in Op /\ OpOK(p) /\ alive[p] /\ op[p].pc = "wait" /\ left' \in Nat
        /\ UNCHANGED <<alive, cache, box, img, left>> /\ op' = [op EXCEPT ![p] = o]
    BY DEF IInv, Typing, NotReady, At
  <1>2. o \in Op /\ op'[p] = o
    BY <1>1 DEF IInv, Typing, Op, Pcs
  <1>3. /\ o.pc = "undo" /\ o.call = op[p].call /\ o.img = op[p].img /\ o.from = op[p].from
        /\ o.extra = op[p].extra /\ o.box = op[p].box
    BY <1>1 DEF Op
  <1> HIDE DEF o
  <1>4. OpOK(p)'
    BY <1>1, <1>2, <1>3 DEF OpOK, Idle
  <1>5. GoesOn(p, o)
    BY <1>1, <1>3 DEF GoesOn, Forking
  <1> QED BY <1>1, <1>2, <1>4, <1>5, OpOnlyStep

LEMMA CommitFailsStep == ASSUME IInv, NEW p \in Procs, CommitFails(p) PROVE IInv'
  BY ReturnStep DEF CommitFails, At

LEMMA SnapshotStep ==
    ASSUME IInv, NEW p \in Procs, NEW s \in Boxes, NEW verb \in {"snapshot", "fork"},
           Snapshot(p, s, verb)
    PROVE  IInv'
  <1> DEFINE o == [Idle EXCEPT !.call = verb, !.pc = "commit", !.box = s,
                               !.extra = box[s].extra, !.lineage = box[s].lineage]
  <1>1. o \in Op
    BY DEF IInv, Typing, Box, Idle, Op, Calls, Pcs
  <1>2. alive[p] /\ left' \in Nat /\ GoesOn(p, o)
    BY <1>1, Beginning DEF Snapshot
  <1>3. op' = [op EXCEPT ![p] = o] /\ UNCHANGED <<alive, cache, box, img>>
    BY DEF Snapshot
  <1>4. op'[p] = o
    BY <1>3 DEF IInv, Typing
  <1>5. o.pc = "commit" /\ o.call = verb /\ o.from = "base" /\ o.box = s
    BY DEF Idle
  <1>6. OpOK(p)'
    <2> HIDE DEF o
    <2> QED BY <1>2, <1>3, <1>4, <1>5 DEF OpOK
  <1> QED BY <1>1, <1>2, <1>3, <1>6, OpOnlyStep

LEMMA DestroyStep ==
    ASSUME IInv, NEW p \in Procs, NEW s \in Boxes, NEW verb \in {"destroy", "reset"},
           Destroy(p, s, verb)
    PROVE  IInv'
  <1> DEFINE o == [Idle EXCEPT !.call = verb, !.pc = "rm", !.box = s, !.extra = box[s].extra,
                               !.lineage = box[s].lineage, !.from = box[s].from]
  <1>1. o \in Op
    BY DEF IInv, Typing, Box, Idle, Op, Calls, Pcs
  <1>2. alive[p] /\ left' \in Nat /\ GoesOn(p, o)
    BY <1>1, Beginning DEF Destroy
  <1>3. op' = [op EXCEPT ![p] = o] /\ UNCHANGED <<alive, cache, box, img>>
    BY DEF Destroy
  <1>4. op'[p] = o
    BY <1>3 DEF IInv, Typing
  <1>5. o.pc = "rm" /\ o.call = verb /\ o.from = box[s].from /\ o.extra = box[s].extra /\ o.box = s
    BY DEF Idle
  <1>6. box[s].held /\ box[s].owner = p /\ BoxOK(s)
    BY DEF Destroy, Held, IInv
  <1>7. OpOK(p)'
    <2> HIDE DEF o
    <2> QED BY <1>2, <1>3, <1>4, <1>5, <1>6 DEF OpOK, BoxOK
  <1> QED BY <1>1, <1>2, <1>3, <1>7, OpOnlyStep

LEMMA CleanupStep ==
    ASSUME IInv, NEW p \in Procs, Cleanup(p)
    PROVE  IInv'
  <1>1. PICK todo \in SUBSET Images :
          /\ \A i \in todo : cache[p][i] # "none" \/ Here(i)
          /\ op' = [op EXCEPT ![p] = [Idle EXCEPT !.call = "cleanup", !.pc = "rmi", !.todo = todo]]
    BY DEF Cleanup
  <1> DEFINE o == [Idle EXCEPT !.call = "cleanup", !.pc = "rmi", !.todo = todo]
  <1>2. o \in Op
    BY DEF Idle, Op, Calls, Pcs
  <1>3. alive[p] /\ left' \in Nat /\ GoesOn(p, o)
    BY <1>2, Beginning DEF Cleanup
  <1>4. op'[p] = o /\ UNCHANGED <<alive, cache, box, img>>
    BY <1>1 DEF IInv, Typing, Cleanup
  <1>5. o.pc = "rmi" /\ o.call = "cleanup" /\ o.from = "base" /\ o.todo = todo
    BY DEF Idle
  <1>6. \A i \in todo : img[i].st # "none"
    <2>1. CacheOK(p) /\ "base" \notin Images
      BY SandboxAssumption DEF IInv
    <2> QED BY <1>1, <2>1 DEF CacheOK, Here
  <1>7. OpOK(p)'
    <2> HIDE DEF o
    <2> QED BY <1>3, <1>4, <1>5, <1>6 DEF OpOK
  <1> QED BY <1>1, <1>2, <1>3, <1>4, <1>7, OpOnlyStep

\* What is on the list of a sweep belongs to the dead.
LEMMA SweepStep ==
    ASSUME IInv, NEW p \in Procs, NEW verb \in {"orphans", "gc"}, Sweep(p, verb)
    PROVE  IInv'
  <1> DEFINE todo == {s \in Boxes : box[s].st = "run" /\ DeadOwner(p, box[s].owner)}
             o == [Idle EXCEPT !.call = verb, !.pc = "sweep", !.todo = todo]
  <1>1. o \in Op
    BY DEF Idle, Op, Calls, Pcs
  <1>2. alive[p] /\ left' \in Nat /\ GoesOn(p, o)
    BY <1>1, Beginning DEF Sweep
  <1>3. op' = [op EXCEPT ![p] = o] /\ UNCHANGED <<alive, cache, box, img>>
    BY DEF Sweep
  <1>4. op'[p] = o
    BY <1>3 DEF IInv, Typing
  <1>5. o.pc = "sweep" /\ o.call = verb /\ o.from = "base" /\ o.todo = todo
    BY DEF Idle
  <1>6. todo \subseteq Boxes /\ \A s \in todo : ~alive[box[s].owner]
    BY DEF DeadOwner
  <1>7. OpOK(p)'
    <2> HIDE DEF o, todo
    <2> QED BY <1>2, <1>3, <1>4, <1>5, <1>6 DEF OpOK
  <1> QED BY <1>1, <1>2, <1>3, <1>7, OpOnlyStep

\* What a process finds out about an image that is or was there.
LEMMA KnownOK ==
    ASSUME IInv, NEW p \in Procs, NEW i \in Images
    PROVE  /\ FromLabels(i) \in {"labels", "unresolved"}
           /\ FromLabels(i) = "labels" => ~img[i].extra
           /\ Known(p, i) \in {"none", "own", "labels", "unresolved"}
           /\ Known(p, i) # "none" => img[i].st # "none"
           /\ Known(p, i) = "labels" => ~img[i].extra
  <1>1. FromLabels(i) \in {"labels", "unresolved"} /\ (FromLabels(i) = "labels" => ~img[i].extra)
    BY DEF FromLabels
  <1>2. CacheOK(p) /\ cache[p][i] \in {"none", "own", "labels", "unresolved"} /\ i # "base"
    BY SandboxAssumption DEF IInv, Typing
  <1> QED BY <1>1, <1>2 DEF Known, Here, CacheOK

LEMMA CacheStepOK ==
    ASSUME IInv, NEW p \in Procs, NEW i \in Images,
           NEW k \in {"none", "own", "labels", "unresolved"},
           k # "none" => img'[i].st # "none", k = "labels" => ~img'[i].extra,
           \A j \in Images : Grows(p, j), cache' = [cache EXCEPT ![p][i] = k]
    PROVE  /\ cache' \in [Procs -> [Images -> {"none", "own", "labels", "unresolved"}]]
           /\ CacheOK(p)'
           /\ \A q \in Procs \ {p} : cache'[q] = cache[q]
           /\ cache' = [cache EXCEPT ![p] = cache'[p]]
  <1>1. cache' = [cache EXCEPT ![p] = [cache[p] EXCEPT ![i] = k]]
    BY DEF IInv, Typing
  <1>2. cache[p] \in [Images -> {"none", "own", "labels", "unresolved"}] /\ CacheOK(p)
    BY DEF IInv, Typing
  <1>3. cache'[p] = [cache[p] EXCEPT ![i] = k]
    BY <1>1 DEF IInv, Typing
  <1>4. \A j \in Images : cache'[p][j] = IF j = i THEN k ELSE cache[p][j]
    BY <1>2, <1>3
  <1>5. CacheOK(p)'
    BY <1>2, <1>4 DEF CacheOK, Grows
  <1> QED BY <1>1, <1>2, <1>3, <1>5 DEF IInv, Typing

\* A restore of what is known exactly, or unmarked, asks for what the image was taken with.
LEMMA RestoreStep ==
    ASSUME IInv, NEW p \in Procs, NEW i \in Images, Restore(p, i)
    PROVE  IInv'
  <1>1. alive[p] /\ left' \in Nat /\ op[p] = Idle /\ \A o \in Op : GoesOn(p, o)
    BY Beginning DEF Restore
  <1>2. UNCHANGED <<alive, box, img>> /\ cache' = [cache EXCEPT ![p][i] = Known(p, i)]
    BY DEF Restore
  <1>3. \A j \in Images : Grows(p, j)
    BY <1>2 DEF Grows
  <1>4. /\ cache' = [cache EXCEPT ![p] = cache'[p]] /\ CacheOK(p)'
        /\ cache'[p] \in [Images -> {"none", "own", "labels", "unresolved"}]
    BY <1>2, <1>3, KnownOK, CacheStepOK
  <1>5. CASE Known(p, i) \notin {"own", "labels"}
    <2>1. op' = [op EXCEPT ![p] = op[p]]
      BY <1>5 DEF Restore, IInv, Typing
    <2>2. op[p] \in Op /\ OpOK(p) /\ op'[p] = op[p]
      BY <2>1 DEF IInv, Typing
    <2>3. OpOK(p)'
      BY <1>1, <2>2 DEF OpOK, Idle
    <2> QED BY <1>1, <1>2, <1>4, <2>1, <2>2, <2>3, OpStep
  <1>6. CASE Known(p, i) \in {"own", "labels"}
    <2> DEFINE x == Known(p, i) = "own" /\ img[i].extra
               o == Restoring([Idle EXCEPT !.call = "restore"], i, x)
    <2>1. x \in BOOLEAN /\ x = img[i].extra /\ img[i].st # "none"
      <3>1. img[i] \in Image
        BY DEF IInv, Typing
      <3> QED BY <1>6, <3>1, KnownOK DEF Restore, Image
    <2>2. op' = [op EXCEPT ![p] = o]
      BY <1>6 DEF Restore
    <2> HIDE DEF x
    <2>3. o \in Op
      BY <2>1 DEF Restoring, Idle, Op, Calls, Pcs
    <2>4. o.pc = "launch" /\ o.call = "restore" /\ o.from = i /\ o.extra = x
      BY DEF Restoring, Idle
    <2> HIDE DEF o
    <2>5. op'[p] = o
      BY <2>2 DEF IInv, Typing
    <2>6. OpOK(p)'
      BY <1>1, <1>2, <2>1, <2>4, <2>5 DEF OpOK
    <2> QED BY <1>1, <1>2, <1>4, <2>2, <2>3, <2>6, OpStep
  <1> QED BY <1>5, <1>6

LEMMA DeleteStep ==
    ASSUME IInv, NEW p \in Procs, NEW i \in Images, Delete(p, i)
    PROVE  IInv'
  <1> DEFINE o == [Idle EXCEPT !.call = "delete", !.pc = "rmi", !.todo = {i}]
  <1>1. alive[p] /\ left' \in Nat /\ \A r \in Op : GoesOn(p, r)
    BY Beginning DEF Delete
  <1>2. /\ UNCHANGED <<alive, box, img>> /\ cache' = [cache EXCEPT ![p][i] = Known(p, i)]
        /\ op' = [op EXCEPT ![p] = o]
    BY DEF Delete
  <1>3. \A j \in Images : Grows(p, j)
    BY <1>2 DEF Grows
  <1>4. /\ cache' = [cache EXCEPT ![p] = cache'[p]] /\ CacheOK(p)'
        /\ cache'[p] \in [Images -> {"none", "own", "labels", "unresolved"}]
    BY <1>2, <1>3, KnownOK, CacheStepOK
  <1>5. o \in Op
    BY DEF Idle, Op, Calls, Pcs
  <1>6. o.pc = "rmi" /\ o.call = "delete" /\ o.from = "base" /\ o.todo = {i}
    BY DEF Idle
  <1>7. op'[p] = o /\ img[i].st # "none"
    BY <1>2, KnownOK DEF IInv, Typing, Delete
  <1>8. OpOK(p)'
    <2> HIDE DEF o
    <2> QED BY <1>1, <1>2, <1>6, <1>7 DEF OpOK
  <1> QED BY <1>1, <1>2, <1>4, <1>5, <1>8, OpStep

LEMMA ReconstructStep ==
    ASSUME IInv, NEW p \in Procs, Reconstruct(p)
    PROVE  IInv'
  <1>1. alive[p] /\ left' \in Nat /\ \A r \in Op : GoesOn(p, r)
    BY Beginning DEF Reconstruct
  <1>2. /\ UNCHANGED <<alive, box, img, op>>
        /\ cache' = [cache EXCEPT ![p] = [i \in Images |-> "none"]]
    BY DEF Reconstruct
  <1>3. op' = [op EXCEPT ![p] = op[p]] /\ op[p] \in Op /\ OpOK(p)'
    BY <1>2 DEF IInv, Typing, OpOK
  <1>4. CacheOK(p)'
    BY <1>2 DEF IInv, Typing, CacheOK
  <1> QED BY <1>1, <1>2, <1>3, <1>4, OpStep

--------------------------------------------------------------------------------
(* Steps that start, hand out or remove a container.                           *)

LEMMA BoxStep ==
    ASSUME IInv, NEW p \in Procs, alive[p], NEW s \in Boxes, NEW r \in Box,
           box' = [box EXCEPT ![s] = r], UNCHANGED <<alive, cache, img>>, left' \in Nat,
           op' \in [Procs -> Op], \A q \in Procs \ {p} : op'[q] = op[q],
           Takes(p, s), BoxOK(s)', OpOK(p)',
           \A t \in Boxes \ {s} : WorksOn(p, t) => WorksOn(p, t)',
           \A i \in Images : Forking(p, i) => Forking(p, i)' \/ (r.fork = i /\ r.owner = p),
           \A i \in Images : box[s].fork = i /\ box[s].owner = p => r.fork = i /\ r.owner = p
    PROVE  IInv'
  <1>1. Typing'
    BY DEF IInv, Typing
  <1>2. /\ box'[s] = r /\ \A t \in Boxes \ {s} : box'[t] = box[t]
        /\ alive' = alive /\ cache' = cache /\ img' = img
    BY DEF IInv, Typing
  <1>3. Alone(p)
    BY <1>2 DEF Alone, Grows
  <1>4. ASSUME NEW t \in Boxes, t # s, box[t].owner = p
        PROVE  BoxOK(t)'
    <2>1. BoxOK(t)
      BY DEF IInv
    <2> QED BY <1>2, <1>4, <2>1 DEF BoxOK, WorksOn
  <1>5. ASSUME NEW i \in Images, img'[i].owner = p
        PROVE  ImgOK(i)'
    <2>1. ImgOK(i)
      BY DEF IInv
    <2>2. ASSUME NEW t \in Boxes, box[t].fork = i /\ box[t].owner = p
          PROVE  \E u \in Boxes : box'[u].fork = i /\ box'[u].owner = p
      BY <1>2, <2>2
    <2> QED BY <1>2, <1>5, <2>1, <2>2 DEF ImgOK
  <1>6. CacheOK(p)'
    BY <1>2 DEF IInv, CacheOK
  <1> QED BY <1>1, <1>2, <1>3, <1>4, <1>5, <1>6, EnoughAtHome

LEMMA LaunchStep ==
    ASSUME IInv, NEW p \in Procs, NEW s \in Boxes, Launch(p, s)
    PROVE  IInv'
  <1>1. /\ op[p] \in Op /\ OpOK(p) /\ alive[p] /\ op[p].pc = "launch" /\ left' \in Nat
        /\ UNCHANGED <<alive, cache, img, left>>
        /\ box[s].st = "none" /\ \A q \in Procs : s \notin op[q].todo
    BY DEF IInv, Typing, Launch, At
  <1>2. \A i \in Images : Grows(p, i)
    BY <1>1 DEF Grows
  <1>3. BoxOK(s) /\ box[s] = NoBox
    BY <1>1 DEF IInv, BoxOK
  <1>4. op[p].from # "base" => op[p].from \in Images
    BY <1>1 DEF Op
  <1>5. \A t \in Boxes : ~WorksOn(p, t)
    BY <1>1 DEF WorksOn
  <1>6. \A i \in Images : box[s].fork # i
    BY <1>3, SandboxAssumption DEF NoBox
  <1>7. ASSUME NEW r \in Box, box' = [box EXCEPT ![s] = r], r.st = "run", r.owner = p,
               r.from = op[p].from, r.extra = op[p].extra, ~r.held, r.fork = "none",
               op' \in [Procs -> Op], OpOK(p)', \A q \in Procs \ {p} : op'[q] = op[q],
               \A i \in Images : Forking(p, i) => Forking(p, i)',
               r.stuck \/ WorksOn(p, s)'
        PROVE  IInv'
    <2>1. box'[s] = r
      BY <1>7 DEF IInv, Typing
    <2>2. Takes(p, s)
      BY <1>1, <1>7, <2>1 DEF Takes
    <2>3. BoxOK(s)'
      BY <1>1, <1>4, <1>7, <2>1 DEF BoxOK, OpOK
    <2> QED BY <1>1, <1>5, <1>6, <1>7, <2>2, <2>3, BoxStep
  <1>8. CASE box' = [box EXCEPT ![s] = Started(p)]
             /\ op' = [op EXCEPT ![p].pc = "wait", ![p].box = s]
    <2> DEFINE o == [op[p] EXCEPT !.pc = "wait", !.box = s]
               r == Started(p)
    <2>1. op' = [op EXCEPT ![p] = o]
      BY <1>8 DEF IInv, Typing
    <2>2. o \in Op
      BY <1>1 DEF Op, Pcs
    <2>3. /\ o.pc = "wait" /\ o.call = op[p].call /\ o.img = op[p].img /\ o.from = op[p].from
          /\ o.extra = op[p].extra /\ o.box = s
      BY <1>1 DEF Op
    <2>4. op'[p] = o /\ op' \in [Procs -> Op] /\ \A q \in Procs \ {p} : op'[q] = op[q]
      BY <2>1, <2>2 DEF IInv, Typing
    <2>5. /\ r \in Box /\ r.st = "run" /\ r.owner = p /\ r.from = op[p].from
          /\ r.extra = op[p].extra /\ ~r.held /\ r.fork = "none"
      BY <1>1 DEF Started, NoBox, Box, Op
    <2> HIDE DEF o, r
    <2>6. box'[s] = r
      BY <1>8 DEF IInv, Typing, r
    <2>7. OpOK(p)'
      BY <1>1, <2>3, <2>4, <2>5, <2>6 DEF OpOK, Idle
    <2>8. WorksOn(p, s)' /\ \A i \in Images : Forking(p, i) => Forking(p, i)'
      BY <2>3, <2>4 DEF WorksOn, Forking
    <2> QED BY <1>7, <1>8, <2>4, <2>5, <2>7, <2>8 DEF r
  <1>9. CASE box' = [box EXCEPT ![s] = [Started(p) EXCEPT !.stuck = TRUE]] /\ Raised(p)
    <2> DEFINE r == [Started(p) EXCEPT !.stuck = TRUE]
    <2>1. /\ r \in Box /\ r.st = "run" /\ r.owner = p /\ r.from = op[p].from
          /\ r.extra = op[p].extra /\ ~r.held /\ r.fork = "none" /\ r.stuck
      BY <1>1 DEF Started, NoBox, Box, Op
    <2>2. /\ op' \in [Procs -> Op] /\ OpOK(p)' /\ \A q \in Procs \ {p} : op'[q] = op[q]
          /\ \A i \in Images : Forking(p, i) => Forking(p, i)'
      BY <1>1, <1>2, <1>9, RaisedOK
    <2> HIDE DEF r
    <2> QED BY <1>7, <1>9, <2>1, <2>2 DEF r
  <1> QED BY <1>8, <1>9 DEF Launch

LEMMA ReadyStep ==
    ASSUME IInv, NEW p \in Procs, Ready(p)
    PROVE  IInv'
  <1>0. op[p].box \in Boxes
    BY DEF IInv, OpOK, Ready, At
  <1>s. PICK s \in Boxes : s = op[p].box
    BY <1>0
  <1>1. /\ op[p] \in Op /\ OpOK(p) /\ alive[p] /\ op[p].pc = "wait" /\ left' \in Nat
        /\ UNCHANGED <<alive, cache, img, left>> /\ op' = [op EXCEPT ![p] = Idle]
    BY DEF IInv, Typing, Ready, At, Return
  <1>2. /\ s \in Boxes /\ box[s].st = "run" /\ box[s].owner = p /\ ~box[s].held
        /\ box[s].fork = "none"
    BY <1>s, <1>1 DEF OpOK
  <1>3. box[s] \in Box /\ BoxOK(s)
    BY <1>2 DEF IInv, Typing
  <1>4. PICK f \in Images \cup {"none"} : f = IF op[p].call = "fork" THEN op[p].img ELSE "none"
    BY <1>1 DEF OpOK
  <1>5. PICK r \in Box : r = [box[s] EXCEPT !.held = TRUE, !.fork = f]
    BY <1>2, <1>3 DEF Box
  <1>6. /\ r.st = "run" /\ r.owner = p /\ r.held /\ r.fork = f
        /\ r.from = box[s].from /\ r.extra = box[s].extra
    BY <1>2, <1>3, <1>5 DEF Box
  <1>16. box' = [box EXCEPT ![s] = r]
    BY <1>s, <1>2, <1>4, <1>5 DEF Ready, IInv, Typing
  <1>17. f # "none" => f \in Images /\ img[f].st # "none"
    BY <1>1, <1>4 DEF OpOK
  <1>7. op'[p] = Idle /\ op' \in [Procs -> Op] /\ \A q \in Procs \ {p} : op'[q] = op[q]
    BY <1>1, Types DEF IInv, Typing
  <1>8. box'[s] = r
    BY <1>16 DEF IInv, Typing
  <1>9. BoxOK(s)'
    BY <1>1, <1>2, <1>3, <1>6, <1>8, <1>17 DEF BoxOK
  <1>10. OpOK(p)'
    BY <1>7 DEF OpOK, Idle
  <1>11. Takes(p, s)
    BY <1>2, <1>6, <1>8 DEF Takes
  <1>12. \A t \in Boxes \ {s} : ~WorksOn(p, t)
    BY <1>s DEF WorksOn
  <1>13. \A i \in Images : Forking(p, i) => r.fork = i /\ r.owner = p
    BY <1>4, <1>6 DEF Forking
  <1>14. \A i \in Images : box[s].fork # i
    BY <1>2, SandboxAssumption
  <1>15. /\ \A t \in Boxes \ {s} : WorksOn(p, t) => WorksOn(p, t)'
         /\ \A i \in Images : Forking(p, i) => Forking(p, i)' \/ (r.fork = i /\ r.owner = p)
         /\ \A i \in Images : box[s].fork = i /\ box[s].owner = p => r.fork = i /\ r.owner = p
    BY <1>12, <1>13, <1>14
  <1> QED BY <1>1, <1>7, <1>9, <1>10, <1>11, <1>15, <1>16, BoxStep

LEMMA UndoStep ==
    ASSUME IInv, NEW p \in Procs, Undo(p)
    PROVE  IInv'
  <1>0. op[p].box \in Boxes
    BY DEF IInv, OpOK, Undo, At
  <1> PICK s \in Boxes : s = op[p].box
    BY <1>0
  <1>1. /\ op[p] \in Op /\ OpOK(p) /\ alive[p] /\ op[p].pc = "undo" /\ left' \in Nat
        /\ UNCHANGED <<alive, cache, img, left>> /\ (Again(p) \/ Raised(p))
    BY DEF IInv, Typing, Undo, At
  <1>2. /\ s \in Boxes /\ box[s].st = "run" /\ box[s].owner = p /\ ~box[s].held
        /\ box[s].fork = "none"
    BY <1>1 DEF OpOK
  <1>3. box[s] \in Box /\ BoxOK(s)
    BY <1>2 DEF IInv, Typing
  <1>4. \A i \in Images : Grows(p, i)
    BY <1>1 DEF Grows
  <1>5. /\ op' \in [Procs -> Op] /\ OpOK(p)' /\ \A q \in Procs \ {p} : op'[q] = op[q]
        /\ \A i \in Images : Forking(p, i) => Forking(p, i)'
    BY <1>1, <1>4, RaisedOK, AgainOK
  <1>6. \A t \in Boxes \ {s} : ~WorksOn(p, t)
    BY DEF WorksOn
  <1>7. \A i \in Images : box[s].fork # i
    BY <1>2, SandboxAssumption
  <1>8. ASSUME NEW r \in Box, box' = [box EXCEPT ![s] = r], Takes(p, s), BoxOK(s)'
        PROVE  IInv'
    BY <1>1, <1>2, <1>5, <1>6, <1>7, <1>8, BoxStep
  <1>9. CASE box' = [box EXCEPT ![s] = NoBox]
    <2>1. box'[s] = NoBox
      BY <1>2, <1>9 DEF IInv, Typing
    <2>2. Takes(p, s)
      BY <1>2, <2>1 DEF Takes
    <2>3. BoxOK(s)'
      BY <2>1 DEF BoxOK, NoBox
    <2> QED BY <1>8, <1>9, <2>2, <2>3, Types
  <1>10. CASE box' = [box EXCEPT ![s].stuck = TRUE]
    <2> DEFINE r == [box[s] EXCEPT !.stuck = TRUE]
    <2>1. box' = [box EXCEPT ![s] = r] /\ box'[s] = r
      BY <1>2, <1>10 DEF IInv, Typing
    <2>2. /\ r \in Box /\ r.st = "run" /\ r.owner = p /\ r.stuck /\ ~r.held /\ r.fork = "none"
          /\ r.from = box[s].from /\ r.extra = box[s].extra
      BY <1>2, <1>3 DEF Box
    <2> HIDE DEF r
    <2>3. Takes(p, s)
      BY <1>2, <2>1, <2>2 DEF Takes
    <2>4. BoxOK(s)'
      BY <1>1, <1>2, <1>3, <2>1, <2>2 DEF BoxOK
    <2> QED BY <1>8, <2>1, <2>2, <2>3, <2>4
  <1> QED BY <1>9, <1>10 DEF Undo

\* Nothing but what has just gone is forgotten.
LEMMA SettledOne ==
    ASSUME IInv, NEW s \in Boxes, NEW r \in Box
    PROVE  Settled([box EXCEPT ![s] = r])
             = [box EXCEPT ![s] = IF r.st = "gone" /\ ~r.held THEN NoBox ELSE r]
  <1>1. \A t \in Boxes : ~(box[t].st = "gone" /\ ~box[t].held)
    BY DEF IInv, BoxOK
  <1>2. box \in [Boxes -> Box]
    BY DEF IInv, Typing
  <1> DEFINE e == IF r.st = "gone" /\ ~r.held THEN NoBox ELSE r
  <1>3. \A t \in Boxes : Settled([box EXCEPT ![s] = r])[t] = [box EXCEPT ![s] = e][t]
    BY <1>1, <1>2 DEF Settled
  <1> QED BY <1>2, <1>3 DEF Settled

LEMMA AfterDestroyOK ==
    ASSUME IInv, NEW p \in Procs, op[p].pc \in {"rm", "rmfork"}
    PROVE  LET o == AfterDestroy(op[p]) IN
           /\ o \in Op
           /\ \/ o = Idle
              \/ o.pc = "launch" /\ o.call = "reset" /\ o.from = op[p].from /\ o.extra = op[p].extra
  <1>1. op[p] \in Op
    BY DEF IInv, Typing
  <1> DEFINE o == [op[p] EXCEPT !.pc = "launch", !.tries = 1, !.box = "none"]
  <1>2. CASE op[p].call = "reset"
    <2>1. AfterDestroy(op[p]) = o
      BY <1>2 DEF AfterDestroy
    <2>2. /\ o \in Op
          /\ o.pc = "launch" /\ o.call = "reset" /\ o.from = op[p].from /\ o.extra = op[p].extra
      BY <1>1, <1>2 DEF Op, Pcs
    <2> HIDE DEF o
    <2> QED BY <2>1, <2>2
  <1>3. CASE op[p].call # "reset"
    BY <1>3, Types DEF AfterDestroy
  <1> QED BY <1>2, <1>3

LEMMA RmStep ==
    ASSUME IInv, NEW p \in Procs, Rm(p)
    PROVE  IInv'
  <1>0. op[p].box \in Boxes
    BY DEF IInv, OpOK, Rm, At
  <1>s. PICK s \in Boxes : s = op[p].box
    BY <1>0
  <1>1. /\ op[p] \in Op /\ OpOK(p) /\ alive[p] /\ op[p].pc = "rm" /\ left' \in Nat
        /\ UNCHANGED <<alive, cache, img, left>>
    BY DEF IInv, Typing, Rm, At
  <1>2. /\ box[s].held /\ box[s].owner = p /\ op[p].call \in {"destroy", "reset"}
    BY <1>s, <1>1 DEF OpOK
  <1>3. box[s] \in Box /\ BoxOK(s) /\ box[s].st # "none"
    <2>1. box[s] \in Box /\ BoxOK(s)
      BY DEF IInv, Typing
    <2> QED BY <1>2, <2>1 DEF BoxOK, NoBox
  <1>4. \A t \in Boxes : ~WorksOn(p, t)
    BY <1>1 DEF WorksOn
  <1>5. \A i \in Images : ~Forking(p, i)
    BY <1>2 DEF Forking
  <1>6. CASE Return(p) /\ UNCHANGED box
    BY <1>1, <1>2, <1>6, ReturnStep
  <1>7. ASSUME Remove(p, s),
               op' = [op EXCEPT ![p] = IF box[s].fork # "none" THEN [op[p] EXCEPT !.pc = "rmfork"]
                                       ELSE AfterDestroy(op[p])]
        PROVE  IInv'
    <2>1. PICK g \in Box : g = [box[s] EXCEPT !.st = "gone", !.held = box[s].fork # "none"]
      BY <1>3 DEF Box
    <2>2. /\ g.st = "gone" /\ g.held = (box[s].fork # "none") /\ g.owner = p
          /\ g.fork = box[s].fork /\ g.from = box[s].from /\ g.extra = box[s].extra
      BY <1>2, <1>3, <2>1 DEF Box
    <2>3. PICK r \in Box : r = IF g.st = "gone" /\ ~g.held THEN NoBox ELSE g
      BY Types
    <2>4. [box EXCEPT ![s].st = "gone", ![s].held = box[s].fork # "none"] = [box EXCEPT ![s] = g]
      BY <2>1 DEF IInv, Typing
    <2>5. box' = [box EXCEPT ![s] = r]
      <3>1. box' = Settled([box EXCEPT ![s] = g])
        BY <1>7, <2>4 DEF Remove
      <3> QED BY <2>3, <3>1, SettledOne
    <2>6. box'[s] = r
      BY <2>5 DEF IInv, Typing
    <2>7. CASE box[s].fork # "none"
      <3>1. r = g
        BY <2>2, <2>3, <2>7
      <3>2. PICK o \in Op : o = [op[p] EXCEPT !.pc = "rmfork"]
        BY <1>1 DEF Op, Pcs
      <3>3. /\ o.pc = "rmfork" /\ o.call = op[p].call /\ o.box = s /\ o.from = op[p].from
            /\ o.extra = op[p].extra
        BY <1>s, <1>1, <3>2 DEF Op
      <3>4. op'[p] = o /\ op' \in [Procs -> Op] /\ \A q \in Procs \ {p} : op'[q] = op[q]
        BY <1>7, <2>7, <3>2 DEF IInv, Typing
      <3>5. op[p].from # "base" => op[p].from \in Images
        BY <1>1 DEF Op
      <3>9. /\ box'[s].held /\ box'[s].owner = p /\ box'[s].st = "gone" /\ box'[s].fork # "none"
            /\ alive' = alive /\ img' = img
        BY <1>1, <2>2, <2>6, <2>7, <3>1
      <3>6. OpOK(p)'
        BY <1>1, <1>2, <3>3, <3>4, <3>5, <3>9 DEF OpOK
      <3>7. BoxOK(s)'
        BY <1>1, <1>2, <1>3, <2>2, <2>6, <2>7, <3>1 DEF BoxOK
      <3>8. Takes(p, s)
        BY <1>2, <1>3, <2>2, <2>6, <3>1 DEF Takes
      <3> QED BY <1>1, <1>4, <1>5, <2>2, <2>5, <3>1, <3>4, <3>6, <3>7, <3>8, BoxStep
    <2>8. CASE box[s].fork = "none"
      <3>1. r = NoBox
        BY <2>2, <2>3, <2>8
      <3>2. PICK o \in Op : o = AfterDestroy(op[p])
        BY <1>1, AfterDestroyOK
      <3>3. o = Idle \/ (o.pc = "launch" /\ o.call = "reset" /\ o.from = op[p].from
                         /\ o.extra = op[p].extra)
        BY <1>1, <3>2, AfterDestroyOK
      <3>4. op'[p] = o /\ op' \in [Procs -> Op] /\ \A q \in Procs \ {p} : op'[q] = op[q]
        BY <1>7, <2>8, <3>2 DEF IInv, Typing
      <3>6. OpOK(p)'
        BY <1>1, <3>3, <3>4 DEF OpOK, Idle
      <3>7. BoxOK(s)'
        BY <2>6, <3>1 DEF BoxOK, NoBox
      <3>8. Takes(p, s)
        BY <1>2, <1>3, <2>6, <3>1 DEF Takes
      <3>9. \A i \in Images : box[s].fork # i
        BY <2>8, SandboxAssumption
      <3> QED BY <1>1, <1>4, <1>5, <2>5, <3>4, <3>6, <3>7, <3>8, <3>9, BoxStep
    <2> QED BY <2>7, <2>8
  <1>8. CASE ~(Return(p) /\ UNCHANGED box)
    BY <1>s, <1>7, <1>8 DEF Rm
  <1> QED BY <1>6, <1>8

\* A container that is held dies: its owner is at work on another one.
LEMMA DieStep ==
    ASSUME IInv, NEW s \in Boxes, Die(s)
    PROVE  IInv'
  <1>1. /\ box[s] \in Box /\ BoxOK(s) /\ box[s].st = "run" /\ box[s].held /\ left' \in Nat
        /\ UNCHANGED <<alive, cache, img, op>>
    BY DEF IInv, Typing, Die
  <1>2. PICK p \in Procs : p = box[s].owner /\ alive[p]
    BY <1>1 DEF BoxOK
  <1>3. PICK r \in Box : r = [box[s] EXCEPT !.st = "gone"]
    BY <1>1 DEF Box
  <1>4. /\ r.st = "gone" /\ r.held /\ r.owner = p /\ r.fork = box[s].fork
        /\ r.from = box[s].from /\ r.extra = box[s].extra
    BY <1>1, <1>2, <1>3 DEF Box
  <1>5. box' = [box EXCEPT ![s] = r]
    BY <1>3 DEF Die, IInv, Typing
  <1>6. box'[s] = r /\ \A t \in Boxes \ {s} : box'[t] = box[t]
    BY <1>5 DEF IInv, Typing
  <1>7. OpOK(p) /\ op[p] \in Op
    BY DEF IInv, Typing
  <1>8. OpOK(p)'
    <2>1. /\ op[p].pc \in {"wait", "undo"} => op[p].box # s
          /\ op[p].pc = "rmfork" => op[p].box # s
          /\ op[p].pc = "sweep" => s \notin op[p].todo
      BY <1>1, <1>2, <1>7 DEF OpOK
    <2>2. op' = op /\ alive' = alive /\ img' = img
      BY <1>1
    <2>3. (op[p].pc \in {"wait", "undo"} =>
             /\ op[p].box \in Boxes
             /\ box[op[p].box].st = "run" /\ box[op[p].box].owner = p
             /\ ~box[op[p].box].held /\ box[op[p].box].fork = "none")'
      BY <1>6, <1>7, <2>1, <2>2 DEF OpOK
    <2>4. /\ (op[p].pc \in {"rm", "rmfork"} =>
               /\ op[p].call \in {"destroy", "reset"}
               /\ op[p].box \in Boxes /\ box[op[p].box].held /\ box[op[p].box].owner = p)'
          /\ (op[p].pc = "rmfork" => box[op[p].box].st = "gone" /\ box[op[p].box].fork # "none")'
      BY <1>4, <1>6, <1>7, <2>1, <2>2 DEF OpOK
    <2>5. (op[p].pc = "sweep" =>
             /\ op[p].call \in {"orphans", "gc"}
             /\ op[p].todo \subseteq Boxes
             /\ \A t \in op[p].todo : box[t].st = "none" \/ ~alive[box[t].owner])'
      BY <1>6, <1>7, <2>1, <2>2 DEF OpOK
    <2> QED BY <1>7, <2>2, <2>3, <2>4, <2>5 DEF OpOK
  <1>9. BoxOK(s)'
    BY <1>1, <1>2, <1>4, <1>6 DEF BoxOK
  <1>10. Takes(p, s)
    BY <1>1, <1>2, <1>4, <1>6 DEF Takes
  <1>11. /\ \A t \in Boxes \ {s} : WorksOn(p, t) => WorksOn(p, t)'
         /\ \A i \in Images : Forking(p, i) => Forking(p, i)' \/ (r.fork = i /\ r.owner = p)
    BY <1>1 DEF WorksOn, Forking
  <1>12. op' \in [Procs -> Op] /\ \A q \in Procs \ {p} : op'[q] = op[q]
    BY <1>1 DEF IInv, Typing
  <1>13. /\ alive[p] /\ left' \in Nat /\ UNCHANGED <<alive, cache, img>>
         /\ \A i \in Images : box[s].fork = i /\ box[s].owner = p => r.fork = i /\ r.owner = p
    BY <1>1, <1>2, <1>4
  <1> QED BY <1>5, <1>8, <1>9, <1>10, <1>11, <1>12, <1>13, BoxStep

--------------------------------------------------------------------------------
(* Steps that make or remove an image.                                         *)

\* The containers of a process that works on none stay sound while images come and go.
LEMMA BoxesKeep ==
    ASSUME IInv, NEW p \in Procs, alive[p], op[p].pc \notin {"wait", "undo"}, alive' = alive,
           \A i \in Images : Grows(p, i), NEW s \in Boxes, box[s].owner = p, box'[s] = box[s]
    PROVE  BoxOK(s)'
  <1>1. BoxOK(s) /\ ~WorksOn(p, s) /\ box[s] \in Box
    BY DEF IInv, WorksOn, Typing
  <1>2. /\ box[s].fork # "none" => box[s].fork \in Images
        /\ box[s].from # "base" => box[s].from \in Images
    BY <1>1 DEF Box
  <1>3. (box[s].fork # "none" =>
           img[box[s].fork].st # "none" /\ (alive[box[s].owner] => box[s].held))'
    BY <1>1, <1>2 DEF BoxOK, Grows
  <1>4. (box[s].from # "base" =>
           img[box[s].from].st # "none" /\ box[s].extra = img[box[s].from].extra)'
    BY <1>1, <1>2 DEF BoxOK, Grows
  <1>5. (/\ box[s].st # "none" => box[s].owner \in Procs
         /\ box[s].st = "gone" => box[s].held
         /\ box[s].held => alive[box[s].owner]
         /\ box[s].st = "run" /\ alive[box[s].owner] => box[s].held \/ box[s].stuck)'
    BY <1>1 DEF BoxOK
  <1>6. (box[s].st = "none" => box[s] = NoBox)'
    BY <1>1 DEF BoxOK, NoBox
  <1> QED BY <1>3, <1>4, <1>5, <1>6 DEF BoxOK

LEMMA ImgStep ==
    ASSUME IInv, NEW p \in Procs, alive[p], op[p].pc \notin {"wait", "undo"},
           NEW i \in Images, NEW r \in Image, img' = [img EXCEPT ![i] = r], Grows(p, i),
           UNCHANGED <<alive, box, left>>,
           op' \in [Procs -> Op], \A q \in Procs \ {p} : op'[q] = op[q],
           cache' \in [Procs -> [Images -> {"none", "own", "labels", "unresolved"}]],
           \A q \in Procs \ {p} : cache'[q] = cache[q],
           CacheOK(p)', OpOK(p)', ImgOK(i)',
           \A j \in Images \ {i} : Forking(p, j) => Forking(p, j)'
    PROVE  IInv'
  <1>1. Typing'
    BY DEF IInv, Typing
  <1>2. img'[i] = r /\ \A j \in Images \ {i} : img'[j] = img[j]
    BY DEF IInv, Typing
  <1>3. \A j \in Images : Grows(p, j)
    BY <1>2 DEF Grows
  <1>4. Alone(p)
    BY <1>3 DEF Alone
  <1>5. \A s \in Boxes : box[s].owner = p => BoxOK(s)'
    BY <1>3, BoxesKeep
  <1>6. ASSUME NEW j \in Images, j # i, img'[j].owner = p
        PROVE  ImgOK(j)'
    <2>1. ImgOK(j)
      BY DEF IInv
    <2> QED BY <1>2, <1>6, <2>1 DEF ImgOK
  <1> QED BY <1>1, <1>4, <1>5, <1>6, EnoughAtHome

\* From here a fork has its snapshot in hand.
LEMMA CommitStep ==
    ASSUME IInv, NEW p \in Procs, NEW i \in Images, Commit(p, i)
    PROVE  IInv'
  <1>1. /\ op[p] \in Op /\ OpOK(p) /\ alive[p] /\ op[p].pc = "commit" /\ img[i].st = "none"
        /\ UNCHANGED <<alive, box, left>>
    BY DEF IInv, Typing, Commit, At
  <1>2. \A j \in Images : ~Forking(p, j)
    BY <1>1 DEF Forking
  <1>3. PICK c \in Image : c = Committed(p)
    <2>1. \A f \in BOOLEAN, x \in BOOLEAN, y \in BOOLEAN :
            [NoImage EXCEPT !.st = "here", !.owner = p, !.extra = x, !.lineage = y, !.fork = f]
              \in Image
      BY DEF NoImage, Image
    <2>2. op[p].extra \in BOOLEAN /\ op[p].lineage \in BOOLEAN /\ (op[p].call = "fork") \in BOOLEAN
      BY <1>1 DEF Op
    <2> QED BY <2>1, <2>2 DEF Committed
  <1>4. /\ c.st = "here" /\ c.owner = p /\ c.extra = op[p].extra /\ c.fork = (op[p].call = "fork")
    BY <1>3 DEF Committed, NoImage
  <1>5. ASSUME img' = [img EXCEPT ![i] = c], cache' = [cache EXCEPT ![p][i] = "own"],
               op' = [op EXCEPT ![p] = IF op[p].call = "fork" THEN Restoring(op[p], i, op[p].extra)
                                       ELSE Idle]
        PROVE  IInv'
    <2>1. img'[i] = c /\ \A j \in Images \ {i} : img'[j] = img[j]
      BY <1>5 DEF IInv, Typing
    <2>2. \A j \in Images : Grows(p, j)
      BY <1>1, <1>4, <2>1 DEF Grows
    <2>3. /\ cache' \in [Procs -> [Images -> {"none", "own", "labels", "unresolved"}]]
          /\ CacheOK(p)' /\ \A q \in Procs \ {p} : cache'[q] = cache[q]
      BY <1>4, <1>5, <2>1, <2>2, CacheStepOK
    <2>4. CASE op[p].call = "fork"
      <3>1. PICK o \in Op : o = Restoring(op[p], i, op[p].extra)
        BY <1>1 DEF Restoring, Op, Pcs
      <3>2. /\ o.pc = "launch" /\ o.call = "fork" /\ o.from = i /\ o.extra = op[p].extra /\ o.img = i
        BY <1>1, <2>4, <3>1 DEF Restoring, Op
      <3>3. op'[p] = o /\ op' \in [Procs -> Op] /\ \A q \in Procs \ {p} : op'[q] = op[q]
        BY <1>5, <2>4, <3>1 DEF IInv, Typing
      <3>4. OpOK(p)'
        BY <1>1, <1>4, <2>1, <3>2, <3>3 DEF OpOK
      <3>5. ImgOK(i)'
        BY <1>4, <2>1, <3>2, <3>3 DEF ImgOK, Forking
      <3> QED BY <1>1, <1>2, <1>5, <2>2, <2>3, <3>3, <3>4, <3>5, ImgStep
    <2>5. CASE op[p].call # "fork"
      <3>1. op'[p] = Idle /\ op' \in [Procs -> Op] /\ \A q \in Procs \ {p} : op'[q] = op[q]
        BY <1>5, <2>5, Types DEF IInv, Typing
      <3>2. OpOK(p)'
        BY <3>1 DEF OpOK, Idle
      <3>3. ImgOK(i)'
        BY <1>4, <2>1, <2>5 DEF ImgOK
      <3> QED BY <1>1, <1>2, <1>5, <2>2, <2>3, <3>1, <3>2, <3>3, ImgStep
    <2> QED BY <2>4, <2>5
  <1>6. ASSUME img' = [img EXCEPT ![i] = [Committed(p) EXCEPT !.stuck = TRUE]], Return(p),
               UNCHANGED cache
        PROVE  IInv'
    <2>1. PICK r \in Image : r = [Committed(p) EXCEPT !.stuck = TRUE]
      BY <1>3 DEF Image
    <2>2. r.st = "here" /\ r.owner = p /\ r.stuck
      BY <1>3, <1>4, <2>1 DEF Image
    <2>3. img' = [img EXCEPT ![i] = r] /\ img'[i] = r
      BY <1>6, <2>1 DEF IInv, Typing
    <2>4. Grows(p, i)
      BY <1>1, <2>2, <2>3 DEF Grows
    <2>5. op'[p] = Idle /\ op' \in [Procs -> Op] /\ \A q \in Procs \ {p} : op'[q] = op[q]
      BY <1>6, Types DEF IInv, Typing, Return
    <2>6. OpOK(p)'
      BY <2>5 DEF OpOK, Idle
    <2>7. ImgOK(i)'
      BY <2>2, <2>3 DEF ImgOK
    <2>8. CacheOK(p)'
      <3>1. CacheOK(p) /\ \A j \in Images \ {i} : img'[j] = img[j]
        BY <2>3 DEF IInv, Typing
      <3> QED BY <1>1, <1>6, <3>1 DEF CacheOK
    <2>9. /\ cache' \in [Procs -> [Images -> {"none", "own", "labels", "unresolved"}]]
          /\ \A q \in Procs \ {p} : cache'[q] = cache[q]
      BY <1>6 DEF IInv, Typing
    <2> QED BY <1>1, <1>2, <2>3, <2>4, <2>5, <2>6, <2>7, <2>8, <2>9, ImgStep
  <1> QED BY <1>3, <1>5, <1>6 DEF Commit

\* An image that goes, or turns out to be stuck.
LEMMA GoneOK ==
    ASSUME IInv, NEW p \in Procs, NEW i \in Images, img[i].st # "none",
           img' = Gone(i) \/ img' = [img EXCEPT ![i].stuck = TRUE]
    PROVE  \E r \in Image :
             /\ img' = [img EXCEPT ![i] = r] /\ img'[i] = r
             /\ r.st # "none" /\ r.owner = img[i].owner /\ r.extra = img[i].extra
             /\ r.st = "gone" \/ r.stuck
  <1>1. img[i] \in Image
    BY DEF IInv, Typing
  <1>2. CASE img' = Gone(i)
    <2>1. PICK r \in Image : r = [img[i] EXCEPT !.st = "gone"]
      BY <1>1 DEF Image
    <2>2. r.st = "gone" /\ r.owner = img[i].owner /\ r.extra = img[i].extra
      BY <1>1, <2>1 DEF Image
    <2>3. img' = [img EXCEPT ![i] = r] /\ img'[i] = r
      BY <1>2, <2>1 DEF Gone, IInv, Typing
    <2> QED BY <2>2, <2>3
  <1>3. CASE img' = [img EXCEPT ![i].stuck = TRUE]
    <2>1. PICK r \in Image : r = [img[i] EXCEPT !.stuck = TRUE]
      BY <1>1 DEF Image
    <2>2. r.st = img[i].st /\ r.stuck /\ r.owner = img[i].owner /\ r.extra = img[i].extra
      BY <1>1, <2>1 DEF Image
    <2>3. img' = [img EXCEPT ![i] = r] /\ img'[i] = r
      BY <1>3, <2>1 DEF IInv, Typing
    <2> QED BY <2>2, <2>3
  <1> QED BY <1>2, <1>3

LEMMA GoneStep ==
    ASSUME IInv, NEW p \in Procs, alive[p], op[p].pc \notin {"wait", "undo"},
           NEW i \in Images, img[i].st # "none",
           \/ img' = Gone(i) /\ cache' = Forgotten(p, i)
           \/ img' = [img EXCEPT ![i].stuck = TRUE] /\ cache' = cache,
           UNCHANGED <<alive, box, left>>,
           op' \in [Procs -> Op], \A q \in Procs \ {p} : op'[q] = op[q],
           OpOK(p)', \A j \in Images \ {i} : ~Forking(p, j)
    PROVE  IInv'
  <1>1. PICK r \in Image :
          /\ img' = [img EXCEPT ![i] = r] /\ img'[i] = r
          /\ r.st # "none" /\ r.owner = img[i].owner /\ r.extra = img[i].extra
          /\ r.st = "gone" \/ r.stuck
    BY GoneOK
  <1>2. img'[i] = r /\ \A j \in Images \ {i} : img'[j] = img[j]
    BY <1>1 DEF IInv, Typing
  <1>3. \A j \in Images : Grows(p, j)
    BY <1>1, <1>2 DEF Grows
  <1>4. /\ cache' \in [Procs -> [Images -> {"none", "own", "labels", "unresolved"}]]
        /\ CacheOK(p)' /\ \A q \in Procs \ {p} : cache'[q] = cache[q]
    <2>1. CASE cache' = Forgotten(p, i)
      BY <1>3, <2>1, CacheStepOK DEF Forgotten
    <2>2. CASE cache' = cache
      <3>1. CacheOK(p)
        BY DEF IInv
      <3> QED BY <1>3, <2>2, <3>1 DEF IInv, Typing, CacheOK, Grows
    <2> QED BY <2>1, <2>2
  <1>5. ImgOK(i)'
    <2>1. ImgOK(i)
      BY DEF IInv
    <2> QED BY <1>1, <1>2, <2>1 DEF ImgOK
  <1> QED BY <1>1, <1>3, <1>4, <1>5, ImgStep

LEMMA UnforkStep ==
    ASSUME IInv, NEW p \in Procs, Unfork(p)
    PROVE  IInv'
  <1>1. /\ alive[p] /\ op[p].pc = "unfork" /\ OpOK(p) /\ UNCHANGED <<alive, box, left>>
        /\ Return(p)
    BY DEF IInv, Unfork, At
  <1>2. PICK i \in Images : i = op[p].img /\ img[i].st # "none"
    BY <1>1 DEF OpOK
  <1>3. op'[p] = Idle /\ op' \in [Procs -> Op] /\ \A q \in Procs \ {p} : op'[q] = op[q]
    BY <1>1, Types DEF IInv, Typing, Return
  <1>4. OpOK(p)'
    BY <1>3 DEF OpOK, Idle
  <1>5. \A j \in Images \ {i} : ~Forking(p, j)
    BY <1>2 DEF Forking
  <1>6. \/ img' = Gone(i) /\ cache' = Forgotten(p, i)
        \/ img' = [img EXCEPT ![i].stuck = TRUE] /\ cache' = cache
    BY <1>2 DEF Unfork
  <1> QED BY <1>1, <1>2, <1>3, <1>4, <1>5, <1>6, GoneStep

\* One image of the list after another.
LEMMA RmiStep ==
    ASSUME IInv, NEW p \in Procs, Rmi(p)
    PROVE  IInv'
  <1>1. /\ op[p] \in Op /\ OpOK(p) /\ alive[p] /\ op[p].pc = "rmi" /\ left' \in Nat
        /\ UNCHANGED <<alive, box, left>>
    BY DEF IInv, Typing, Rmi, At
  <1>2. /\ op[p].call \in {"delete", "cleanup", "gc"}
        /\ op[p].todo \subseteq Images
        /\ \A i \in op[p].todo : img[i].st # "none" /\ (op[p].call = "gc" => ~alive[img[i].owner])
    BY <1>1 DEF OpOK
  <1>3. \A j \in Images : ~Forking(p, j)
    BY <1>2 DEF Forking
  <1>4. CASE Return(p) /\ UNCHANGED <<cache, img>>
    BY <1>1, <1>2, <1>4, ReturnStep
  <1>5. ASSUME NEW i \in op[p].todo, img' = Gone(i), cache' = Forgotten(p, i),
               op' = [op EXCEPT ![p].todo = @ \ {i}]
        PROVE  IInv'
    <2>1. PICK o \in Op : o = [op[p] EXCEPT !.todo = op[p].todo \ {i}]
      BY <1>1 DEF Op
    <2>2. /\ o.pc = "rmi" /\ o.call = op[p].call /\ o.from = op[p].from /\ o.extra = op[p].extra
          /\ o.todo \subseteq op[p].todo
      BY <1>1, <2>1 DEF Op
    <2>3. op'[p] = o /\ op' \in [Procs -> Op] /\ \A q \in Procs \ {p} : op'[q] = op[q]
      BY <1>5, <2>1 DEF IInv, Typing
    <2>4. i \in Images /\ img[i].st # "none"
      BY <1>2
    <2>5. \A j \in Images : Grows(p, j)
      <3>1. PICK r \in Image :
              /\ img' = [img EXCEPT ![i] = r] /\ img'[i] = r
              /\ r.st # "none" /\ r.owner = img[i].owner /\ r.extra = img[i].extra
              /\ r.st = "gone" \/ r.stuck
        BY <1>5, <2>4, GoneOK
      <3>2. \A j \in Images \ {i} : img'[j] = img[j]
        BY <3>1 DEF IInv, Typing
      <3> QED BY <2>4, <3>1, <3>2 DEF Grows
    <2>6. op[p].from # "base" => op[p].from \in Images
      BY <1>1 DEF Op
    <2>7. OpOK(p)'
      BY <1>1, <1>2, <2>2, <2>3, <2>5, <2>6 DEF OpOK, Grows
    <2> QED BY <1>1, <1>3, <1>5, <2>3, <2>4, <2>7, GoneStep
  <1>6. ASSUME NEW i \in op[p].todo, cache' = [cache EXCEPT ![p][i] = Remembered(p, i)],
               Here(i), Return(p), UNCHANGED img
        PROVE  IInv'
    <2>1. i \in Images /\ img[i].st # "none"
      BY <1>2
    <2>2. /\ Remembered(p, i) \in {"none", "own", "labels", "unresolved"}
          /\ Remembered(p, i) = "labels" => ~img[i].extra
      BY <2>1, KnownOK DEF Remembered
    <2>3. \A j \in Images : Grows(p, j)
      BY <1>6 DEF Grows
    <2>4. /\ cache' = [cache EXCEPT ![p] = cache'[p]] /\ CacheOK(p)'
          /\ cache'[p] \in [Images -> {"none", "own", "labels", "unresolved"}]
      BY <1>6, <2>1, <2>2, <2>3, CacheStepOK
    <2>5. op' = [op EXCEPT ![p] = Idle] /\ op'[p] = Idle
      BY <1>6 DEF Return, IInv, Typing
    <2>6. OpOK(p)'
      BY <2>5 DEF OpOK, Idle
    <2>7. GoesOn(p, Idle)
      BY <1>1, <1>3 DEF GoesOn
    <2> QED BY <1>1, <1>6, <2>4, <2>5, <2>6, <2>7, Types, OpStep
  <1> QED BY <1>4, <1>5, <1>6 DEF Rmi

\* The image a sandbox was forked from goes with its handle.
LEMMA RmforkStep ==
    ASSUME IInv, NEW p \in Procs, Rmfork(p)
    PROVE  IInv'
  <1>0. op[p].box \in Boxes
    BY DEF IInv, OpOK, Rmfork, At
  <1>s. PICK s \in Boxes : s = op[p].box
    BY <1>0
  <1>1. /\ op[p] \in Op /\ OpOK(p) /\ alive[p] /\ op[p].pc = "rmfork" /\ left' \in Nat
        /\ UNCHANGED <<alive, left>>
    BY DEF IInv, Typing, Rmfork, At
  <1>2. /\ box[s].owner = p /\ op[p].call \in {"destroy", "reset"}
        /\ box[s].st = "gone" /\ box[s].fork # "none"
    BY <1>s, <1>1 DEF OpOK
  <1>3. box[s] \in Box /\ BoxOK(s)
    BY DEF IInv, Typing
  <1>4. PICK i \in Images : i = box[s].fork /\ img[i].st # "none"
    BY <1>2, <1>3 DEF Box, BoxOK
  <1>5. CASE Return(p) /\ UNCHANGED <<cache, box, img>>
    BY <1>1, <1>2, <1>5, ReturnStep
  <1>6. ASSUME img' = Gone(i), cache' = Forgotten(p, i),
               box' = Settled([box EXCEPT ![s].fork = "none", ![s].held = FALSE]),
               op' = [op EXCEPT ![p] = AfterDestroy(op[p])]
        PROVE  IInv'
    <2>1. PICK r \in Image :
            /\ img' = [img EXCEPT ![i] = r] /\ img'[i] = r
            /\ r.st # "none" /\ r.owner = img[i].owner /\ r.extra = img[i].extra
            /\ r.st = "gone" \/ r.stuck
      BY <1>4, <1>6, GoneOK
    <2>2. img'[i] = r /\ \A j \in Images \ {i} : img'[j] = img[j]
      BY <2>1 DEF IInv, Typing
    <2>3. \A j \in Images : Grows(p, j)
      BY <1>4, <2>1, <2>2 DEF Grows
    <2>4. box' = [box EXCEPT ![s] = NoBox]
      <3>1. PICK g \in Box : g = [box[s] EXCEPT !.fork = "none", !.held = FALSE]
        BY <1>3 DEF Box
      <3>2. g.st = "gone" /\ ~g.held
        BY <1>2, <1>3, <3>1 DEF Box
      <3>3. [box EXCEPT ![s].fork = "none", ![s].held = FALSE] = [box EXCEPT ![s] = g]
        BY <3>1 DEF IInv, Typing
      <3>4. Settled([box EXCEPT ![s] = g]) = [box EXCEPT ![s] = NoBox]
        BY <3>2, SettledOne
      <3> QED BY <1>6, <3>3, <3>4
    <2>5. box'[s] = NoBox /\ \A t \in Boxes \ {s} : box'[t] = box[t]
      BY <2>4 DEF IInv, Typing
    <2>6. PICK o \in Op : o = AfterDestroy(op[p])
      BY <1>1, AfterDestroyOK
    <2>7. o = Idle \/ (o.pc = "launch" /\ o.call = "reset" /\ o.from = op[p].from
                       /\ o.extra = op[p].extra)
      BY <1>1, <2>6, AfterDestroyOK
    <2>8. op'[p] = o /\ op' \in [Procs -> Op] /\ \A q \in Procs \ {p} : op'[q] = op[q]
      BY <1>6, <2>6 DEF IInv, Typing
    <2>9. op[p].from # "base" => op[p].from \in Images
      BY <1>1 DEF Op
    <2>10. OpOK(p)'
      BY <1>1, <2>3, <2>7, <2>8, <2>9 DEF OpOK, Idle, Grows
    <2>11. /\ cache' \in [Procs -> [Images -> {"none", "own", "labels", "unresolved"}]]
           /\ CacheOK(p)' /\ \A q \in Procs \ {p} : cache'[q] = cache[q]
      BY <1>6, <2>3, CacheStepOK DEF Forgotten
    <2>12. Typing'
      BY <1>1, <2>1, <2>4, <2>8, <2>11, Types DEF IInv, Typing
    <2>13. Alone(p)
      BY <1>1, <1>2, <2>3, <2>5, <2>8, <2>11 DEF Alone, Takes
    <2>14. ASSUME NEW t \in Boxes, box[t].owner = p \/ box'[t] # box[t]
           PROVE  BoxOK(t)'
      <3>1. CASE t = s
        BY <2>5, <3>1 DEF BoxOK, NoBox
      <3>2. CASE t # s
        BY <1>1, <2>3, <2>5, <2>14, <3>2, BoxesKeep
      <3> QED BY <3>1, <3>2
    <2>15. ASSUME NEW j \in Images, img'[j].owner = p
           PROVE  ImgOK(j)'
      <3>1. ImgOK(j)
        BY DEF IInv
      <3>2. CASE j = i
        BY <1>4, <2>1, <2>15, <3>1, <3>2 DEF ImgOK
      <3>3. CASE j # i
        <4>1. ~Forking(p, j)
          BY <1>2 DEF Forking
        <4>2. \A t \in Boxes : box[t].fork = j => box'[t] = box[t]
          BY <1>4, <2>5, <3>3
        <4> QED BY <1>1, <2>2, <2>15, <3>1, <3>3, <4>1, <4>2 DEF ImgOK
      <3> QED BY <3>2, <3>3
    <2> QED BY <2>10, <2>11, <2>12, <2>13, <2>14, <2>15, EnoughAtHome
  <1>7. CASE ~(Return(p) /\ UNCHANGED <<cache, box, img>>)
    BY <1>s, <1>4, <1>6, <1>7 DEF Rmfork
  <1> QED BY <1>5, <1>7

--------------------------------------------------------------------------------
(* Steps that concern the dead.                                                *)

\* What a sweep removes is a container of the dead, or has gone already.
LEMMA SweptBoxes ==
    ASSUME IInv, NEW p \in Procs, At(p, "sweep"), NEW done \in SUBSET op[p].todo,
           box' = Settled([s \in Boxes |-> IF s \in done THEN [box[s] EXCEPT !.st = "gone"]
                                           ELSE box[s]])
    PROVE  /\ box' \in [Boxes -> Box]
           /\ \A s \in Boxes : box'[s] = box[s] \/ (~alive[box[s].owner] /\ box'[s] = NoBox)
  <1>1. \A s \in op[p].todo : box[s].st = "none" \/ ~alive[box[s].owner]
    BY DEF IInv, OpOK, At
  <1>2. ASSUME NEW s \in Boxes
        PROVE  /\ box'[s] \in Box
               /\ box'[s] = box[s] \/ (~alive[box[s].owner] /\ box'[s] = NoBox)
    <2>1. box[s] \in Box /\ BoxOK(s)
      BY DEF IInv, Typing
    <2>2. CASE s \notin done
      BY <2>1, <2>2 DEF Settled, BoxOK
    <2>3. CASE s \in done
      <3>1. ~box[s].held
        BY <1>1, <2>1, <2>3 DEF BoxOK, NoBox
      <3>2. [box[s] EXCEPT !.st = "gone"].st = "gone" /\ ~[box[s] EXCEPT !.st = "gone"].held
        BY <2>1, <3>1 DEF Box
      <3>3. box'[s] = NoBox
        BY <2>3, <3>2 DEF Settled
      <3>4. box[s].st = "none" => box[s] = NoBox
        BY <2>1 DEF BoxOK
      <3> QED BY <1>1, <2>3, <3>3, <3>4, Types
    <2> QED BY <2>2, <2>3
  <1> QED BY <1>2 DEF Settled

LEMMA SweptStep ==
    ASSUME IInv, NEW p \in Procs, Swept(p)
    PROVE  IInv'
  <1>1. /\ op[p] \in Op /\ OpOK(p) /\ alive[p] /\ op[p].pc = "sweep" /\ At(p, "sweep")
        /\ UNCHANGED <<alive, cache, img, left>>
    BY DEF IInv, Typing, Swept, At
  <1>2. PICK done \in SUBSET op[p].todo :
          /\ box' = Settled([s \in Boxes |-> IF s \in done THEN [box[s] EXCEPT !.st = "gone"]
                                             ELSE box[s]])
          /\ op' = [op EXCEPT ![p] =
                      IF done = op[p].todo /\ @.call = "gc" THEN
                         [@ EXCEPT !.pc = "rmi",
                                   !.todo = {i \in Images : Here(i) /\ DeadOwner(p, img[i].owner)}]
                      ELSE Idle]
    BY DEF Swept
  <1>3. /\ box' \in [Boxes -> Box]
        /\ \A s \in Boxes : box'[s] = box[s] \/ (~alive[box[s].owner] /\ box'[s] = NoBox)
    BY <1>1, <1>2, SweptBoxes
  <1>4. PICK doomed \in SUBSET Images :
          doomed = {i \in Images : Here(i) /\ DeadOwner(p, img[i].owner)}
    OBVIOUS
  <1>5. \A i \in doomed : img[i].st # "none" /\ ~alive[img[i].owner]
    BY <1>4, SandboxAssumption DEF Here, DeadOwner
  <1>6. PICK r \in Op : r = [op[p] EXCEPT !.pc = "rmi", !.todo = doomed]
    BY <1>1 DEF Op, Pcs
  <1>7. /\ r.pc = "rmi" /\ r.call = op[p].call /\ r.from = op[p].from /\ r.extra = op[p].extra
        /\ r.todo = doomed
    BY <1>1, <1>6 DEF Op
  <1>8. PICK o \in Op : /\ op' = [op EXCEPT ![p] = o]
                        /\ o = Idle \/ (o = r /\ op[p].call = "gc")
    <2>1. op' = [op EXCEPT ![p] = IF done = op[p].todo /\ op[p].call = "gc" THEN r ELSE Idle]
      BY <1>2, <1>4, <1>6 DEF IInv, Typing
    <2> QED BY <2>1, Types
  <1>9. op'[p] = o /\ op' \in [Procs -> Op] /\ \A q \in Procs \ {p} : op'[q] = op[q]
    BY <1>8 DEF IInv, Typing
  <1>10. OpOK(p)'
    BY <1>1, <1>5, <1>7, <1>8, <1>9 DEF OpOK, Idle
  <1>11. \A j \in Images : Grows(p, j)
    BY <1>1 DEF Grows
  <1>12. Alone(p)
    BY <1>1, <1>3, <1>9, <1>11 DEF Alone, Takes
  <1>13. Typing' /\ CacheOK(p)'
    BY <1>1, <1>3, <1>9 DEF IInv, Typing, CacheOK
  <1>14. ASSUME NEW s \in Boxes, box[s].owner = p \/ box'[s] # box[s]
         PROVE  BoxOK(s)'
    <2>1. CASE box'[s] = NoBox
      BY <2>1 DEF BoxOK, NoBox
    <2>2. CASE box'[s] = box[s]
      BY <1>1, <1>11, <1>14, <2>2, BoxesKeep
    <2> QED BY <1>3, <2>1, <2>2
  <1>15. ASSUME NEW j \in Images, img'[j].owner = p
         PROVE  ImgOK(j)'
    <2>1. ImgOK(j) /\ ~Forking(p, j)
      BY <1>1 DEF IInv, Forking, OpOK
    <2>2. \A t \in Boxes : box[t].owner = p => box'[t] = box[t]
      BY <1>1, <1>3
    <2> QED BY <1>1, <1>15, <2>1, <2>2 DEF ImgOK
  <1> QED BY <1>10, <1>12, <1>13, <1>14, <1>15, EnoughAtHome

\* Who dies drops its handles and forgets what it knew; what it leaves may now be swept.
LEMMA CrashStep ==
    ASSUME IInv, NEW p \in Procs, Crash(p)
    PROVE  IInv'
  <1>1. /\ alive' = [alive EXCEPT ![p] = FALSE] /\ UNCHANGED <<img, left>>
        /\ cache' = [cache EXCEPT ![p] = [i \in Images |-> "none"]]
        /\ op' = [op EXCEPT ![p] = Idle]
        /\ box' = Settled([s \in Boxes |-> IF box[s].owner = p THEN [box[s] EXCEPT !.held = FALSE]
                                           ELSE box[s]])
    BY DEF Crash, Return
  <1>2. /\ ~alive'[p] /\ \A q \in Procs \ {p} : alive'[q] = alive[q] /\ op'[q] = op[q] /\ cache'[q] = cache[q]
        /\ op'[p] = Idle /\ op' \in [Procs -> Op]
    BY <1>1, Types DEF IInv, Typing
  <1>3. ASSUME NEW s \in Boxes
        PROVE  /\ box'[s] \in Box
               /\ box[s].owner # p => box'[s] = box[s]
               /\ box[s].owner = p =>
                    \/ box'[s] = NoBox
                    \/ /\ box'[s].owner = p /\ box'[s].st = "run" /\ ~box'[s].held
                       /\ box'[s].st = box[s].st /\ box'[s].from = box[s].from
                       /\ box'[s].extra = box[s].extra /\ box'[s].fork = box[s].fork
    <2>1. box[s] \in Box /\ BoxOK(s)
      BY DEF IInv, Typing
    <2>2. CASE box[s].owner # p
      BY <1>1, <2>1, <2>2 DEF Settled, BoxOK
    <2>3. CASE box[s].owner = p
      <3>1. PICK g \in Box : g = [box[s] EXCEPT !.held = FALSE]
        BY <2>1 DEF Box
      <3>2. /\ g.st = box[s].st /\ g.owner = p /\ ~g.held /\ g.from = box[s].from
            /\ g.extra = box[s].extra /\ g.fork = box[s].fork
        BY <2>1, <2>3, <3>1 DEF Box
      <3>3. box'[s] = IF g.st = "gone" /\ ~g.held THEN NoBox ELSE g
        BY <1>1, <2>3, <3>1 DEF Settled
      <3>4. box[s].st = "none" => g = NoBox
        <4> SUFFICES ASSUME box[s] = NoBox PROVE g = NoBox
          BY <2>1 DEF BoxOK
        <4>1. g = [NoBox EXCEPT !.held = FALSE]
          BY <3>1
        <4>2. NoBox.held = FALSE
          BY DEF NoBox
        <4> QED BY <4>1, <4>2, Types, Zenon DEF NoBox
      <3>5. g.st \in {"none", "run", "gone"}
        BY DEF Box
      <3> QED BY <2>3, <3>2, <3>3, <3>4, <3>5, Types
    <2> QED BY <2>2, <2>3
  <1>4. Typing'
    <2>1. box' \in [Boxes -> Box]
      BY <1>1, <1>3 DEF Settled
    <2> QED BY <1>1, <1>2, <2>1 DEF IInv, Typing
  <1>5. ASSUME NEW s \in Boxes
        PROVE  BoxOK(s)'
    <2>1. box[s] \in Box /\ BoxOK(s)
      BY DEF IInv, Typing
    <2>2. CASE box'[s] = NoBox
      BY <2>2 DEF BoxOK, NoBox
    <2>3. CASE box[s].owner # p
      <3>1. box[s].st # "none" => box[s].owner \in Procs \ {p}
        BY <2>1, <2>3 DEF BoxOK
      <3>2. CASE box[s].st = "none"
        <4>1. box'[s] = NoBox
          BY <1>3, <2>1, <2>3, <3>2 DEF BoxOK
        <4> QED BY <2>2, <4>1
      <3>3. CASE box[s].st # "none"
        <4>1. /\ box'[s] = box[s] /\ op'[box[s].owner] = op[box[s].owner]
              /\ alive'[box[s].owner] = alive[box[s].owner] /\ img' = img
          BY <1>1, <1>2, <1>3, <2>3, <3>1, <3>3
        <4> QED BY <2>1, <3>3, <4>1 DEF BoxOK, WorksOn
      <3> QED BY <3>2, <3>3
    <2>4. CASE box[s].owner = p /\ box'[s] # NoBox
      <3>1. /\ box'[s].owner = p /\ box'[s].st = "run" /\ ~box'[s].held
            /\ box'[s].from = box[s].from /\ box'[s].extra = box[s].extra
            /\ box'[s].fork = box[s].fork /\ img' = img /\ ~alive'[p]
        BY <1>1, <1>2, <1>3, <2>4
      <3> QED BY <2>1, <3>1 DEF BoxOK
    <2> QED BY <2>2, <2>3, <2>4
  <1>6. ASSUME NEW i \in Images
        PROVE  ImgOK(i)'
    <2>1. ImgOK(i)
      BY DEF IInv
    <2>2. CASE img[i].owner = p
      BY <1>1, <1>2, <2>1, <2>2 DEF ImgOK
    <2>3. CASE img[i].owner # p
      <3>1. \A s \in Boxes : box[s].owner = img[i].owner => box'[s] = box[s]
        BY <1>3, <2>3
      <3>2. img[i].st # "none" => img[i].owner \in Procs \ {p}
        BY <2>1, <2>3 DEF ImgOK
      <3>3. img'[i] = img[i]
        BY <1>1
      <3> QED BY <1>2, <2>1, <3>1, <3>2, <3>3 DEF ImgOK, Forking
    <2> QED BY <2>2, <2>3
  <1>7. ASSUME NEW q \in Procs
        PROVE  CacheOK(q)' /\ OpOK(q)'
    <2>1. CacheOK(q) /\ OpOK(q) /\ op[q] \in Op
      BY DEF IInv, Typing
    <2>2. CASE q = p
      <3>1. OpOK(q)'
        BY <1>2, <2>2 DEF OpOK, Idle
      <3>2. \A i \in Images : cache'[q][i] = "none"
        BY <1>1, <2>2 DEF IInv, Typing
      <3> QED BY <3>1, <3>2 DEF CacheOK
    <2>3. CASE q # p
      <3>1. op'[q] = op[q] /\ cache'[q] = cache[q] /\ alive'[q] = alive[q] /\ img' = img
        BY <1>1, <1>2, <2>3
      <3>2. \A s \in Boxes : box[s].owner = q => box'[s] = box[s]
        BY <1>3, <2>3
      <3>3. ASSUME NEW s \in Boxes, box[s].st = "none" \/ ~alive[box[s].owner]
            PROVE  box'[s].st = "none" \/ ~alive'[box'[s].owner]
        <4>1. CASE box[s].owner = p
          BY <1>2, <1>3, <4>1 DEF NoBox
        <4>2. CASE box[s].owner # p
          <5>1. box'[s] = box[s] /\ BoxOK(s)
            BY <1>3, <4>2 DEF IInv
          <5> QED BY <1>2, <3>3, <4>2, <5>1 DEF BoxOK
        <4> QED BY <4>1, <4>2
      <3>4. \A i \in Images : img[i].st # "none" /\ ~alive[img[i].owner] => ~alive'[img[i].owner]
        <4>1. \A i \in Images : ImgOK(i)
          BY DEF IInv
        <4> QED BY <1>2, <4>1 DEF ImgOK
      <3>5. CacheOK(q)'
        BY <2>1, <3>1 DEF CacheOK
      <3>6. OpOK(q)'
        BY <2>1, <3>1, <3>2, <3>3, <3>4 DEF OpOK
      <3> QED BY <3>5, <3>6
    <2> QED BY <2>2, <2>3
  <1> QED BY <1>4, <1>5, <1>6, <1>7 DEF IInv

--------------------------------------------------------------------------------
LEMMA InitInv == Init => IInv
  <1> SUFFICES ASSUME Init PROVE IInv
    OBVIOUS
  <1>1. Typing
    BY Types, SandboxAssumption DEF Init, Typing
  <1>2. \A s \in Boxes : BoxOK(s)
    BY DEF Init, BoxOK, NoBox
  <1>3. \A i \in Images : ImgOK(i)
    BY DEF Init, ImgOK, NoImage
  <1>4. \A p \in Procs : CacheOK(p) /\ OpOK(p)
    BY DEF Init, CacheOK, OpOK, Idle
  <1> QED BY <1>1, <1>2, <1>3, <1>4 DEF IInv

\* What one process does in a step.
ProcessStep(p) ==
    \/ \E extra \in BOOLEAN : Create(p, extra)
    \/ LaunchFails(p) \/ Ready(p) \/ NotReady(p) \/ Undo(p) \/ CommitFails(p) \/ Unfork(p)
    \/ Rm(p) \/ Rmfork(p) \/ Cleanup(p) \/ Rmi(p) \/ Swept(p) \/ Crash(p) \/ Reconstruct(p)
    \/ \E verb \in {"orphans", "gc"} : Sweep(p, verb)
    \/ \E i \in Images : Commit(p, i) \/ Restore(p, i) \/ Delete(p, i)
    \/ \E s \in Boxes :
          \/ Launch(p, s)
          \/ \E verb \in {"snapshot", "fork"} : Snapshot(p, s, verb)
          \/ \E verb \in {"destroy", "reset"} : Destroy(p, s, verb)

LEMMA NextIsProcessStep == Next <=> (\E s \in Boxes : Die(s)) \/ \E p \in Procs : ProcessStep(p)
  BY DEF Next, ProcessStep

LEMMA NextInv == IInv /\ [Next]_vars => IInv'
  <1> SUFFICES ASSUME IInv, [Next]_vars PROVE IInv'
    OBVIOUS
  <1>1. CASE UNCHANGED vars
    BY <1>1 DEF vars, IInv, Typing, BoxOK, ImgOK, CacheOK, OpOK, WorksOn, Forking
  <1>2. ASSUME NEW s \in Boxes, Die(s) PROVE IInv'
    BY <1>2, DieStep
  <1>3. ASSUME NEW p \in Procs, ProcessStep(p) PROVE IInv'
    <2>1. CASE \/ \E extra \in BOOLEAN : Create(p, extra)
               \/ LaunchFails(p) \/ Ready(p) \/ NotReady(p) \/ Undo(p) \/ CommitFails(p)
               \/ \E s \in Boxes : Launch(p, s)
      BY <2>1, CreateStep, LaunchFailsStep, ReadyStep, NotReadyStep, UndoStep, CommitFailsStep,
         LaunchStep
    <2>2. CASE \/ Unfork(p) \/ Rm(p) \/ Rmfork(p) \/ Cleanup(p) \/ Rmi(p) \/ Swept(p) \/ Crash(p)
               \/ Reconstruct(p)
      BY <2>2, UnforkStep, RmStep, RmforkStep, CleanupStep, RmiStep, SweptStep, CrashStep,
         ReconstructStep
    <2>3. CASE \/ \E verb \in {"orphans", "gc"} : Sweep(p, verb)
               \/ \E i \in Images : Commit(p, i) \/ Restore(p, i) \/ Delete(p, i)
      BY <2>3, SweepStep, CommitStep, RestoreStep, DeleteStep
    <2>4. CASE \E s \in Boxes :
                  \/ \E verb \in {"snapshot", "fork"} : Snapshot(p, s, verb)
                  \/ \E verb \in {"destroy", "reset"} : Destroy(p, s, verb)
      BY <2>4, SnapshotStep, DestroyStep
    <2> QED BY <1>3, <2>1, <2>2, <2>3, <2>4 DEF ProcessStep
  <1> QED BY <1>1, <1>2, <1>3, NextIsProcessStep

LEMMA InvAlways == Spec => []IInv
  BY InitInv, NextInv, PTL DEF Spec

\* SandboxesSound: a running container of a live process is held, in work or one that docker
\* would not remove; the image of a fork that has ended is owed by a handle until it is gone or
\* docker would not delete it; and what is restored has the environment its image was taken
\* with (docker.py: create, fork, destroy, _spec_to_record).
THEOREM SandboxesAlwaysSound == Spec => []SandboxesSound
  <1>1. IInv => SandboxesSound
    <2> SUFFICES ASSUME IInv PROVE SandboxesSound
      OBVIOUS
    <2>1. NoForkLeak
      BY DEF IInv, ImgOK, Forking, NoForkLeak
    <2>2. NoBoxLeak
      BY DEF IInv, BoxOK, WorksOn, NoBoxLeak
    <2>3. RestoredIsFaithful
      BY DEF IInv, BoxOK, RestoredIsFaithful
    <2> QED BY <2>1, <2>2, <2>3 DEF SandboxesSound
  <1> QED BY <1>1, InvAlways, PTL

\* A step of one process leaves the operation of another where it is.
LEMMA OthersGoOn ==
    ASSUME IInv, NEW q \in Procs, ProcessStep(q), NEW p \in Procs, p # q
    PROVE  op'[p] = op[p]
  <1> USE DEF IInv, Typing
  <1>1. CASE \/ \E extra \in BOOLEAN : Create(q, extra)
             \/ LaunchFails(q) \/ Ready(q) \/ NotReady(q) \/ Undo(q) \/ CommitFails(q)
             \/ \E s \in Boxes : Launch(q, s)
    BY <1>1 DEF Create, LaunchFails, Ready, NotReady, Undo, CommitFails, Launch, Return, Raised,
                Again
  <1>2. CASE \/ Unfork(q) \/ Rm(q) \/ Rmfork(q) \/ Cleanup(q) \/ Rmi(q) \/ Swept(q) \/ Crash(q)
             \/ Reconstruct(q)
    BY <1>2 DEF Unfork, Rm, Rmfork, Cleanup, Rmi, Swept, Crash, Reconstruct, Return
  <1>3. CASE \/ \E verb \in {"orphans", "gc"} : Sweep(q, verb)
             \/ \E i \in Images : Commit(q, i) \/ Restore(q, i) \/ Delete(q, i)
    BY <1>3 DEF Sweep, Commit, Restore, Delete, Return
  <1>4. CASE \E s \in Boxes :
                \/ \E verb \in {"snapshot", "fork"} : Snapshot(q, s, verb)
                \/ \E verb \in {"destroy", "reset"} : Destroy(q, s, verb)
    BY <1>4 DEF Snapshot, Destroy
  <1> QED BY <1>1, <1>2, <1>3, <1>4 DEF ProcessStep

\* What a process does that sweeps or collects.
LEMMA Sweeping ==
    ASSUME IInv, NEW p \in Procs, ProcessStep(p), op[p].call \in {"orphans", "gc"}
    PROVE  Swept(p) \/ Rmi(p) \/ Crash(p)
  <1>1. op[p].pc \in {"sweep", "rmi"}
    BY DEF IInv, OpOK
  <1> QED BY <1>1 DEF ProcessStep, Create, LaunchFails, Ready, NotReady, Undo, CommitFails, Launch,
     Unfork,
                      Rm, Rmfork, Cleanup, Reconstruct, Sweep, Commit, Restore, Delete, Snapshot,
                      Destroy, Begin, At

LEMMA SweepSpares ==
    ASSUME IInv, NEW p \in Procs, op[p].call \in {"orphans", "gc"}, Swept(p) \/ Rmi(p) \/ Crash(p)
    PROVE  SparesLive(p)
  <1>1. OpOK(p) /\ \A s \in Boxes : box[s] \in Box /\ BoxOK(s)
    BY DEF IInv, Typing
  <1>2. CASE Swept(p)
    <2>1. /\ At(p, "sweep") /\ img' = img
          /\ \E done \in SUBSET op[p].todo :
               box' = Settled([s \in Boxes |-> IF s \in done THEN [box[s] EXCEPT !.st = "gone"]
                                               ELSE box[s]])
      BY <1>2 DEF Swept
    <2>2. \A s \in Boxes : box'[s] = box[s] \/ (~alive[box[s].owner] /\ box'[s] = NoBox)
      BY <2>1, SweptBoxes
    <2> QED BY <2>1, <2>2 DEF SparesLive
  <1>3. CASE Rmi(p)
    <2>1. op[p].pc = "rmi" /\ op[p].call = "gc" /\ box' = box
      BY <1>1, <1>3 DEF Rmi, At, OpOK
    <2>2. \A i \in op[p].todo : ~alive[img[i].owner]
      BY <1>1, <2>1 DEF OpOK
    <2>3. \A i \in Images : img'[i].st # img[i].st => i \in op[p].todo
      BY <1>3 DEF Rmi, Gone, IInv, Typing
    <2> QED BY <2>1, <2>2, <2>3 DEF SparesLive
  <1>4. CASE Crash(p)
    <2>1. img' = img
      BY <1>4 DEF Crash
    <2>2. ASSUME NEW s \in Boxes, box[s].st = "run"
          PROVE  box'[s].st = "run"
      <3>1. [box[s] EXCEPT !.held = FALSE].st = "run"
        BY <1>1, <2>2 DEF Box
      <3> QED BY <1>4, <2>2, <3>1 DEF Crash, Settled
    <2> QED BY <2>1, <2>2 DEF SparesLive
  <1> QED BY <1>2, <1>3, <1>4

\* GcSparesLive: cleanup_orphans and gc take no container and no image from a process that
\* lives, whatever happens between the reading of the labels and the removal.
THEOREM CollectionSparesTheLive == Spec => GcSparesLive
  <1> DEFINE Spares == \A p \in Procs : op[p].call \in {"orphans", "gc"} /\ op'[p] # op[p] => SparesLive(p)
  <1>1. IInv /\ [Next]_vars => [Spares]_vars
    <2> SUFFICES ASSUME IInv, Next, NEW p \in Procs, op[p].call \in {"orphans", "gc"}, op'[p] # op[p]
                 PROVE  SparesLive(p)
      BY DEF vars
    <2>1. \A s \in Boxes : ~Die(s)
      BY DEF Die
    <2>2. PICK q \in Procs : ProcessStep(q)
      BY <2>1, NextIsProcessStep
    <2>3. q = p
      BY <2>2, OthersGoOn
    <2> QED BY <2>2, <2>3, Sweeping, SweepSpares
  <1> QED BY <1>1, InvAlways, PTL DEF Spec, GcSparesLive

--------------------------------------------------------------------------------
(* AgentixScopes: a block is left, cancelled or not.                            *)

ScopeSpec == ScopeInit /\ [][ScopeNext]_scopeVars

\* Where a task and its thread may be.
ScopeTypeOK ==
    /\ where \in [Scopes -> {"out", "entering", "inside", "closing", "deleting", "left"}]
    /\ substrate \in [Scopes -> {"none", "up", "gone"}]
    /\ session \in [Scopes -> {"none", "up", "closed"}]
    /\ thread \in [Scopes -> {"none", "create", "close", "destroy"}]

\* A task waits for the thread it has started; a thread nobody waits for belongs to a block that
\* has been left, except the destroy of another task.
ThreadBelongs(s) ==
    /\ where[s] = "out" => thread[s] = "none"
    /\ where[s] = "entering" => thread[s] = "create"
    /\ where[s] = "closing" => thread[s] = "close"
    /\ where[s] = "deleting" => thread[s] = "destroy"
    /\ where[s] = "inside" => thread[s] \in {"none", "destroy"}

\* Until it is created a sandbox has no handle and no session; while it is destroyed, no handle.
NothingEarly(s) ==
    /\ where[s] = "out" \/ thread[s] = "create" =>
         substrate[s] = "none" /\ s \notin handles /\ session[s] = "none"
    /\ thread[s] = "destroy" => s \notin handles

\* Who leaves before the creation or the close has ended was cancelled there, and only who was
\* cancelled leaves a handle behind.
LeftEarly(s) ==
    where[s] = "left" /\ (thread[s] \in {"create", "close"} \/ s \in handles) => s \in abandoned

\* The parts of NoneForgotten and NoSessionLeft that are about block s.
Kept(s) ==
    /\ substrate[s] = "up" /\ s \notin handles /\ thread[s] # "destroy" =>
         s \in refusals \cup abandoned
    /\ session[s] = "up" => where[s] = "inside" \/ thread[s] = "close"

Sane(s) == ThreadBelongs(s) /\ NothingEarly(s) /\ LeftEarly(s) /\ Kept(s)

ScopeInv == ScopeTypeOK /\ \A s \in Scopes : Sane(s)

LEMMA ScopeInitInv == ScopeInit => ScopeInv
  BY DEF ScopeInit, ScopeInv, ScopeTypeOK, Sane, ThreadBelongs, NothingEarly, LeftEarly, Kept

--------------------------------------------------------------------------------
(* A step of one block concerns that block alone.                              *)

\* What block s does leaves every other block as it was.
LEMMA BlocksApart ==
    ASSUME ScopeTypeOK, NEW s \in Scopes,
           \/ Enter(s) \/ Created(s) \/ Aci(s) \/ Exit(s) \/ SessionClosed(s) \/ DeleteById(s)
           \/ Destroyed(s) \/ Cancel(s) \/ BoxDies(s),
           NEW o \in Scopes, o # s
    PROVE  /\ where'[o] = where[o] /\ substrate'[o] = substrate[o] /\ session'[o] = session[o]
           /\ thread'[o] = thread[o]
           /\ (o \in handles') = (o \in handles) /\ (o \in refusals') = (o \in refusals)
           /\ (o \in abandoned') = (o \in abandoned)
  <1> USE DEF ScopeTypeOK, Goto
  <1>1. CASE Enter(s) \/ Aci(s) \/ Cancel(s) \/ BoxDies(s)
    BY <1>1 DEF Enter, Aci, Cancel, BoxDies
  <1>2. CASE Created(s) \/ DeleteById(s) \/ Destroyed(s)
    BY <1>2 DEF Created, DeleteById, Destroyed
  <1>3. CASE Exit(s)
    BY <1>3 DEF Exit, DeleteBox
  <1>4. CASE SessionClosed(s)
    BY <1>4 DEF SessionClosed, DeleteBox
  <1> QED BY <1>1, <1>2, <1>3, <1>4

LEMMA StaysSane ==
    ASSUME ScopeTypeOK, NEW s \in Scopes, Sane(s),
           \/ Enter(s) \/ Created(s) \/ Aci(s) \/ Exit(s) \/ SessionClosed(s) \/ DeleteById(s)
           \/ Destroyed(s) \/ Cancel(s) \/ BoxDies(s)
    PROVE  ScopeTypeOK' /\ Sane(s)'
  <1> USE DEF ScopeTypeOK, Sane, ThreadBelongs, NothingEarly, LeftEarly, Kept, Goto
  <1>1. CASE Enter(s)
    BY <1>1 DEF Enter
  <1>2. CASE Created(s)
    BY <1>2 DEF Created
  <1>3. CASE Aci(s)
    BY <1>3 DEF Aci
  <1>4. CASE Exit(s)
    BY <1>4 DEF Exit, DeleteBox
  <1>5. CASE SessionClosed(s)
    BY <1>5 DEF SessionClosed, DeleteBox
  <1>6. CASE DeleteById(s)
    BY <1>6 DEF DeleteById
  <1>7. CASE Destroyed(s)
    BY <1>7 DEF Destroyed
  <1>8. CASE Cancel(s)
    BY <1>8 DEF Cancel
  <1>9. CASE BoxDies(s)
    BY <1>9 DEF BoxDies
  <1> QED BY <1>1, <1>2, <1>3, <1>4, <1>5, <1>6, <1>7, <1>8, <1>9

LEMMA ScopeNextInv == ScopeInv /\ [ScopeNext]_scopeVars => ScopeInv'
  <1> SUFFICES ASSUME ScopeInv, [ScopeNext]_scopeVars PROVE ScopeInv'
    OBVIOUS
  <1>0. ScopeTypeOK /\ \A s \in Scopes : Sane(s)
    BY DEF ScopeInv
  <1>1. CASE UNCHANGED scopeVars
    BY <1>1 DEF scopeVars, ScopeInv, ScopeTypeOK, Sane, ThreadBelongs, NothingEarly, LeftEarly, Kept
  <1>2. CASE ScopeNext
    <2>1. PICK s \in Scopes :
            \/ Enter(s) \/ Created(s) \/ Aci(s) \/ Exit(s) \/ SessionClosed(s) \/ DeleteById(s)
            \/ Destroyed(s) \/ Cancel(s) \/ BoxDies(s)
      BY <1>2 DEF ScopeNext
    <2>2. ScopeTypeOK' /\ Sane(s)'
      BY <1>0, <2>1, StaysSane
    <2>3. ASSUME NEW o \in Scopes, o # s
          PROVE  Sane(o)'
      <3>1. Sane(o)
        BY <1>0
      <3>2. /\ where'[o] = where[o] /\ substrate'[o] = substrate[o] /\ session'[o] = session[o]
            /\ thread'[o] = thread[o]
            /\ (o \in handles') = (o \in handles) /\ (o \in refusals') = (o \in refusals)
            /\ (o \in abandoned') = (o \in abandoned)
        BY <1>0, <2>1, <2>3, BlocksApart
      <3> QED BY <3>1, <3>2 DEF Sane, ThreadBelongs, NothingEarly, LeftEarly, Kept
    <2> QED BY <2>2, <2>3 DEF ScopeInv
  <1> QED BY <1>1, <1>2

\* ScopesSound: when a block has been left and its threads are done, its sandbox is gone and its
\* session closed, unless the provider refused to destroy it or the task was cancelled while it
\* entered or closed; for any number of blocks (agentix.py, session, aclose, delete).
THEOREM ScopesAlwaysSound == ScopeSpec => []ScopesSound
  <1>1. ScopeInv => ScopesSound
    BY DEF ScopeInv, Sane, LeftEarly, Kept, ScopesSound, ScopeCleansUp, NoneForgotten,
       NoSessionLeft, Left
  <1> QED BY <1>1, ScopeInitInv, ScopeNextInv, PTL DEF ScopeSpec

--------------------------------------------------------------------------------
(* Transfers: whoever is killed and whatever is rewritten meanwhile.            *)

TransferSpec == TransferInit /\ [][TransferNext]_transferVars

File == {f \in Seq({"x", "y"}) : Len(f) <= 2}
WholeFile == {f \in File : Len(f) # 1}

Move == [kind : {"none", "put", "get"}, pc : {"rest", "copy", "hash", "verify"},
         expect : File, digest : File, found : File]

TransferTyping ==
    /\ there \in WholeFile
    /\ local \in [Movers -> WholeFile]
    /\ temp \in [Movers -> File]
    /\ move \in [Movers -> Move]
    /\ moves \in [Movers -> 0 .. MaxMoves]
    /\ told \in [Movers -> [outcome : {"none", "done", "mismatch", "error"},
                             digest : File, left : File, found : File]]

\* What a transfer has done so far: before it is hashed the copy is whole, before it is placed
\* the digest is that of the copy; and a get has left its target alone.
UnderWay(m) ==
    /\ move[m].pc # "rest" => move[m].kind \in {"put", "get"}
    /\ move[m].kind = "put" => move[m].expect = Missing
    /\ move[m].pc \in {"hash", "verify"} => Len(temp[m]) = 2
    /\ move[m].pc = "verify" => move[m].digest = temp[m]
    /\ move[m].pc # "rest" /\ move[m].kind = "get" => move[m].found = local[m]

\* What a transfer answered, and that it left no temporary file.
Answered(m) ==
    /\ told[m].outcome = "done" => told[m].digest = told[m].left
    /\ told[m].outcome = "mismatch" => told[m].left = told[m].found
    /\ move[m].pc = "rest" /\ told[m].outcome # "none" => temp[m] = Missing

TransferInv == TransferTyping /\ \A m \in Movers : UnderWay(m) /\ Answered(m)

--------------------------------------------------------------------------------
LEMMA EmptyFile == Missing \in WholeFile /\ Len(Missing) = 0
  BY DEF Missing, WholeFile, File

LEMMA WholeContents == Contents \subseteq WholeFile /\ \A c \in Contents : c # Missing
  BY DEF Contents, WholeFile, File, Missing

LEMMA TwoHalves == ASSUME NEW f \in File, Len(f) = 2 PROVE f \in WholeFile
  BY DEF WholeFile

\* A copy of one half more is a file, and is whole when it had a half.
LEMMA CopyGrows ==
    ASSUME NEW half \in File, NEW from \in File, Len(half) < 2, Len(from) > Len(half)
    PROVE  /\ Copied(half, from) \in File
           /\ Len(half) = 1 => Len(Copied(half, from)) = 2
  <1>1. half \in Seq({"x", "y"}) /\ from \in Seq({"x", "y"}) /\ Len(half) \in Nat /\ Len(from) \in Nat
    BY DEF File
  <1>2. from[Len(half) + 1] \in {"x", "y"}
    <2>1. Len(half) + 1 \in 1 .. Len(from)
      BY <1>1
    <2> QED BY <1>1, <2>1
  <1>3. /\ Copied(half, from) \in Seq({"x", "y"})
        /\ Len(Copied(half, from)) = Len(half) + 1
    BY <1>1, <1>2 DEF Copied
  <1> QED BY <1>1, <1>3 DEF File

\* A transfer goes on; its digest is taken.
LEMMA MoveGoesOn ==
    ASSUME TransferTyping, NEW m \in Movers, NEW f \in File
    PROVE  /\ \A p \in {"copy", "hash", "verify"} : [move EXCEPT ![m].pc = p] \in [Movers -> Move]
           /\ [move EXCEPT ![m].pc = "verify", ![m].digest = f] \in [Movers -> Move]
  <1>1. move[m] \in Move
    BY DEF TransferTyping
  <1>2. \A p \in {"copy", "hash", "verify"} : [move[m] EXCEPT !.pc = p] \in Move
    BY <1>1 DEF Move
  <1>3. [move[m] EXCEPT !.pc = "verify", !.digest = f] \in Move
    BY <1>1 DEF Move
  <1>4. \A p \in {"copy", "hash", "verify"} :
          [move EXCEPT ![m].pc = p] = [move EXCEPT ![m] = [move[m] EXCEPT !.pc = p]]
    OBVIOUS
  <1>5. [move EXCEPT ![m].pc = "verify", ![m].digest = f]
          = [move EXCEPT ![m] = [move[m] EXCEPT !.pc = "verify", !.digest = f]]
    BY DEF TransferTyping
  <1>6. \A r \in Move : [move EXCEPT ![m] = r] \in [Movers -> Move]
    BY DEF TransferTyping
  <1> QED BY <1>2, <1>3, <1>4, <1>5, <1>6

LEMMA TransferInitInv == TransferInit => TransferInv
  <1> SUFFICES ASSUME TransferInit PROVE TransferInv
    OBVIOUS
  <1> USE EmptyFile, WholeContents, TransfersAssumption DEF TransferInit, WholeFile
  <1>1. there \in WholeFile /\ local \in [Movers -> WholeFile] /\ temp \in [Movers -> File]
    OBVIOUS
  <1>2. /\ move \in [Movers -> Move]
        /\ moves \in [Movers -> 0 .. MaxMoves]
        /\ told \in [Movers -> [outcome : {"none", "done", "mismatch", "error"},
                                 digest : File, left : File, found : File]]
    BY DEF NoMove, Silent, Move
  <1>3. \A m \in Movers : UnderWay(m) /\ Answered(m)
    BY DEF UnderWay, Answered, NoMove, Silent
  <1> QED BY <1>1, <1>2, <1>3 DEF TransferInv, TransferTyping

--------------------------------------------------------------------------------
(* A step of one mover.                                                        *)

MoverStep(m) ==
    \/ \E way \in {"put", "get"}, e \in Contents \cup {Missing} : BeginMove(m, way, e)
    \/ Clear(m) \/ Copy(m) \/ Hash(m) \/ Mismatch(m) \/ Place(m) \/ Fail(m) \/ KillMover(m)

\* It changes nothing of another mover, and, of the files of the host, its own alone.
LEMMA MoversApart ==
    ASSUME Transport = "store", TransferTyping, NEW m \in Movers, MoverStep(m), NEW o \in Movers, o # m
    PROVE  /\ local'[o] = local[o] /\ temp'[o] = temp[o] /\ move'[o] = move[o]
           /\ told'[o] = told[o]
  <1> USE DEF TransferTyping, On, WriteTo, Told
  <1>1. CASE Clear(m) \/ Copy(m) \/ Hash(m)
    BY <1>1 DEF Clear, Copy, Hash
  <1>2. CASE Mismatch(m) \/ Place(m) \/ Fail(m) \/ KillMover(m)
    BY <1>2 DEF Mismatch, Place, Fail, KillMover
  <1>3. CASE \E way \in {"put", "get"}, e \in Contents \cup {Missing} : BeginMove(m, way, e)
    BY <1>3 DEF BeginMove
  <1> QED BY <1>1, <1>2, <1>3 DEF MoverStep

LEMMA MoverStepInv ==
    ASSUME Transport = "store", TransferTyping, NEW m \in Movers, UnderWay(m), Answered(m), MoverStep(m)
    PROVE  TransferTyping' /\ UnderWay(m)' /\ Answered(m)'
  <1> USE EmptyFile, WholeContents DEF TransferTyping, UnderWay, Answered, On, WriteTo, Told, Written
  <1>1. ASSUME NEW way \in {"put", "get"}, NEW e \in Contents \cup {Missing},
               BeginMove(m, way, e)
        PROVE  TransferTyping' /\ UnderWay(m)' /\ Answered(m)'
    <2> DEFINE begun == [kind |-> way, expect |-> e, pc |-> "copy",
                         digest |-> IF way = "put" THEN local[m] ELSE Missing,
                         found |-> IF way = "put" THEN there ELSE local[m]]
    <2>1. begun \in Move
      BY DEF Move, WholeFile
    <2>2. /\ move' = [move EXCEPT ![m] = begun] /\ moves' = [moves EXCEPT ![m] = moves[m] + 1]
          /\ moves[m] < MaxMoves
          /\ (way = "put" => e = Missing) /\ UNCHANGED <<there, local, temp, told>>
      BY <1>1 DEF BeginMove
    <2>3. moves' \in [Movers -> 0 .. MaxMoves]
      BY <2>2, TransfersAssumption
    <2>4. TransferTyping'
      <3> HIDE DEF begun
      <3> QED BY <2>1, <2>2, <2>3
    <2>5. UnderWay(m)' /\ Answered(m)'
      BY <2>2
    <2> QED BY <2>4, <2>5
  <1>2. CASE Clear(m)
    <2>1. move[m].pc # "clear"
      BY DEF Move
    <2> QED BY <1>2, <2>1 DEF Clear
  <1>3. CASE Copy(m)
    <2>1. Source(m) \in File
      BY <1>3 DEF Source, WholeFile
    <2>2. /\ Copied(temp[m], Source(m)) \in File
          /\ Len(temp[m]) = 1 => Len(Copied(temp[m], Source(m))) = 2
      BY <1>3, <2>1, CopyGrows DEF Copy
    <2>3. /\ temp' = [temp EXCEPT ![m] = Copied(temp[m], Source(m))]
          /\ move' = [move EXCEPT ![m].pc = IF Len(temp[m]) = 1 THEN "hash" ELSE "copy"]
          /\ move[m].pc = "copy" /\ UNCHANGED <<there, local, moves, told>>
      BY <1>3 DEF Copy
    <2>4. TransferTyping'
      <3>1. move' \in [Movers -> Move]
        BY <2>3, MoveGoesOn
      <3>2. temp' \in [Movers -> File]
        BY <2>2, <2>3
      <3> QED BY <2>3, <3>1, <3>2
    <2>5. UnderWay(m)' /\ Answered(m)'
      BY <2>2, <2>3
    <2> QED BY <2>4, <2>5
  <1>4. CASE Hash(m)
    <2>1. /\ move' = [move EXCEPT ![m].pc = "verify", ![m].digest = temp[m]]
          /\ move[m].pc = "hash" /\ UNCHANGED <<there, local, temp, moves, told>>
      BY <1>4 DEF Hash, DigestTaken
    <2>2. TransferTyping'
      <3>1. move' \in [Movers -> Move]
        BY <2>1, MoveGoesOn
      <3> QED BY <2>1, <3>1
    <2>3. UnderWay(m)' /\ Answered(m)'
      BY <2>1
    <2> QED BY <2>2, <2>3
  <1>5. CASE Mismatch(m)
    BY <1>5 DEF Mismatch, Target, NoMove, Move, WholeFile
  <1>6. CASE Place(m)
    <2>1. NoMove \in Move
      BY DEF NoMove, Move, WholeFile
    <2>2. /\ move[m] \in Move /\ temp[m] \in WholeFile /\ move[m].digest = temp[m]
      <3>1. move[m].pc = "verify"
        BY <1>6 DEF Place
      <3>2. move[m].digest = temp[m] /\ Len(temp[m]) = 2 /\ temp[m] \in File
        BY <3>1
      <3>3. temp[m] \in WholeFile
        BY <3>2, TwoHalves
      <3>4. move[m] \in Move
        OBVIOUS
      <3> QED BY <3>2, <3>3, <3>4
    <2>3. [outcome |-> "done", digest |-> move[m].digest, left |-> temp[m],
           found |-> move[m].found]
            \in [outcome : {"none", "done", "mismatch", "error"},
                 digest : File, left : File, found : File]
      BY <2>2 DEF Move
    <2>4. /\ temp' = [temp EXCEPT ![m] = Missing]
          /\ move' = [move EXCEPT ![m] = NoMove]
          /\ told' = [told EXCEPT ![m] = [outcome |-> "done", digest |-> move[m].digest,
                                            left |-> temp[m], found |-> move[m].found]]
          /\ UNCHANGED moves
          /\ \/ there' = temp[m] /\ UNCHANGED local
             \/ local' = [local EXCEPT ![m] = temp[m]] /\ UNCHANGED there
      BY <1>6 DEF Place
    <2>5. TransferTyping'
      BY <2>1, <2>2, <2>3, <2>4 DEF WholeFile
    <2>6. UnderWay(m)' /\ Answered(m)'
      BY <2>2, <2>4 DEF NoMove
    <2> QED BY <2>5, <2>6
  <1>7. CASE Fail(m)
    BY <1>7 DEF Fail, Target, NoMove, Move, WholeFile
  <1>8. CASE KillMover(m)
    BY <1>8, TransfersAssumption DEF KillMover, NoMove, Move, Silent, WholeFile
  <1> QED BY <1>1, <1>2, <1>3, <1>4, <1>5, <1>6, <1>7, <1>8 DEF MoverStep

\* The owner of a source rewrites it; a transfer under way notices nothing, or copies a mixture.
LEMMA RewriteStep ==
    ASSUME TransferInv, NEW c \in Contents, Rewrite(c)
    PROVE  TransferInv'
  BY WholeContents DEF TransferInv, TransferTyping, UnderWay, Answered, Rewrite

LEMMA TransferNextInv ==
    ASSUME Transport = "store", TransferInv, [TransferNext]_transferVars
    PROVE  TransferInv'
  <1>1. CASE UNCHANGED transferVars
    BY <1>1 DEF transferVars, TransferInv, TransferTyping, UnderWay, Answered
  <1>2. ASSUME NEW m \in Movers, MoverStep(m)
        PROVE  TransferInv'
    <2>1. TransferTyping' /\ UnderWay(m)' /\ Answered(m)'
      BY <1>2, MoverStepInv DEF TransferInv
    <2>2. ASSUME NEW o \in Movers, o # m
          PROVE  UnderWay(o)' /\ Answered(o)'
      BY <1>2, <2>2, MoversApart DEF TransferInv, UnderWay, Answered
    <2> QED BY <2>1, <2>2 DEF TransferInv
  <1>3. ASSUME NEW c \in Contents, Rewrite(c)
        PROVE  TransferInv'
    BY <1>3, RewriteStep
  <1> QED BY <1>1, <1>2, <1>3 DEF TransferNext, MoverStep

\* TransfersSound: over a store a half-written file is never in the place of a file, the digest
\* that is returned is that of what was delivered, a mismatch writes nothing and no temporary
\* file is left, for any number of processes (artifacts.py, put and get).
THEOREM TransfersAlwaysSound ==
    ASSUME Transport = "store"
    PROVE  TransferSpec => []TransfersSound
  <1>1. TransferInv => TransfersSound
    <2> SUFFICES ASSUME TransferInv PROVE TransfersSound
      OBVIOUS
    <2> USE DEF TransferInv, TransferTyping, File, WholeFile
    <2>1. TransferTypeOK
      BY DEF TransferTypeOK
    <2>2. NeverHalf
      BY DEF NeverHalf
    <2>3. DigestIsDelivered /\ MismatchWritesNothing /\ NoLitter
      BY DEF DigestIsDelivered, MismatchWritesNothing, NoLitter, Answered
    <2> QED BY <2>1, <2>2, <2>3 DEF TransfersSound
  <1>2. TransferInv /\ [TransferNext]_transferVars => TransferInv'
    BY TransferNextInv
  <1> QED BY <1>1, <1>2, TransferInitInv, PTL DEF TransferSpec

--------------------------------------------------------------------------------
(* Injections: the build that is started.                                       *)

InjectionSpec == InjectionInit /\ [][InjectionNext]_injectionVars

Commands == {"truncate", "append_1", "append_2", "copy", "decode", "chmod", "start", "chmod_and_start"}

InjectionTyping ==
    /\ how \in {"docker", "ssh", "controller"}
    /\ attempt \in 0 .. Tries /\ step \in 0 .. Len(Script(how))
    /\ server \in Foreign .. Tries
    /\ rising \subseteq 1 .. attempt
    /\ late \subseteq [of : 1 .. attempt, command : Commands]
    /\ outcome \in [1 .. Tries -> {"none", "ok", "raised"}]
    /\ \A n \in 1 .. Tries : n > attempt => outcome[n] = "none"
    /\ binary \in [parts : Seq([of : 1 .. Tries, part : {1, 2}]), executable : BOOLEAN]
    /\ upload \in Seq([of : 1 .. Tries, part : {1, 2}])

\* How far this attempt's build has come by the commands already given, while no command of an
\* earlier attempt has run late: the two parts are in the upload before it is decoded, and in
\* the binary from the copy or the decoding on.
BuildSoFar ==
    ~ran =>
        /\ how \in {"docker", "ssh"} /\ step >= 1 => binary.parts = Whole(attempt)
        /\ how = "controller" =>
             /\ step = 1 => upload = << >>
             /\ step = 2 => upload = <<Whole(attempt)[1]>>
             /\ step = 3 => upload = Whole(attempt)
             /\ step >= 4 => binary.parts = Whole(attempt)

InjectionInv == InjectionTyping /\ BuildSoFar

LEMMA Scripts ==
    /\ Len(Script("docker")) = 3 /\ Len(Script("ssh")) = 2 /\ Len(Script("controller")) = 6
    /\ Script("docker")[1] = "copy" /\ Script("docker")[2] = "chmod" /\ Script("docker")[3] = "start"
    /\ Script("ssh")[1] = "copy" /\ Script("ssh")[2] = "chmod_and_start"
    /\ Script("controller")[1] = "truncate" /\ Script("controller")[2] = "append_1"
    /\ Script("controller")[3] = "append_2" /\ Script("controller")[4] = "decode"
    /\ Script("controller")[5] = "chmod" /\ Script("controller")[6] = "start"
  BY DEF Script

\* The command that is given next is the one its place in the script says.
LEMMA NextCommand ==
    ASSUME InjectionTyping, Given
    PROVE  /\ Command \in Commands /\ step + 1 <= Len(Script(how))
           /\ how = "docker" => (step = 0 /\ Command = "copy") \/ (step = 1 /\ Command = "chmod")
                                  \/ (step = 2 /\ Command = "start")
           /\ how = "ssh" => (step = 0 /\ Command = "copy") \/ (step = 1 /\ Command = "chmod_and_start")
           /\ how = "controller" =>
                \/ (step = 0 /\ Command = "truncate") \/ (step = 1 /\ Command = "append_1")
                \/ (step = 2 /\ Command = "append_2") \/ (step = 3 /\ Command = "decode")
                \/ (step = 4 /\ Command = "chmod") \/ (step = 5 /\ Command = "start")
  <1>0. /\ step \in 0 .. Len(Script(how)) /\ step < Len(Script(how))
        /\ how \in {"docker", "ssh", "controller"} /\ Command = Script(how)[step + 1]
    BY DEF InjectionTyping, Given, Command
  <1> USE DEF Commands
  <1>1. CASE how = "docker"
    <2>1. /\ Len(Script(how)) = 3 /\ Command = Script("docker")[step + 1]
      BY <1>0, <1>1, Scripts
    <2>2. step \in 0 .. 2
      BY <1>0, <2>1
    <2> QED BY <1>1, <2>1, <2>2, Scripts
  <1>2. CASE how = "ssh"
    <2>1. /\ Len(Script(how)) = 2 /\ Command = Script("ssh")[step + 1]
      BY <1>0, <1>2, Scripts
    <2>2. step \in 0 .. 1
      BY <1>0, <2>1
    <2> QED BY <1>2, <2>1, <2>2, Scripts
  <1>3. CASE how = "controller"
    <2>1. /\ Len(Script(how)) = 6 /\ Command = Script("controller")[step + 1]
      BY <1>0, <1>3, Scripts
    <2>2. step \in 0 .. 5
      BY <1>0, <2>1
    <2> QED BY <1>3, <2>1, <2>2, Scripts
  <1> QED BY <1>0, <1>1, <1>2, <1>3

LEMMA InjectionInitInv == InjectionInit => InjectionInv
  <1> SUFFICES ASSUME InjectionInit PROVE InjectionInv
    OBVIOUS
  <1> USE InjectionsAssumption DEF InjectionInit
  <1>1. 0 \in 0 .. Len(Script(how))
    BY Scripts
  <1>2. server \in Foreign .. Tries
    BY DEF Foreign, Nobody
  <1>3. << >> \in Seq([of : 1 .. Tries, part : {1, 2}])
    OBVIOUS
  <1>4. InjectionTyping
    BY <1>1, <1>2, <1>3 DEF InjectionTyping
  <1>5. BuildSoFar
    BY DEF BuildSoFar
  <1> QED BY <1>4, <1>5 DEF InjectionInv

\* What a command leaves in the guest is typed, and starts no attempt but its own.
LEMMA DoesTyped ==
    ASSUME InjectionTyping, NEW n \in 1 .. attempt, NEW c \in Commands, Does(n, c)
    PROVE  /\ upload' \in Seq([of : 1 .. Tries, part : {1, 2}])
           /\ binary' \in [parts : Seq([of : 1 .. Tries, part : {1, 2}]), executable : BOOLEAN]
           /\ rising' \subseteq 1 .. attempt
  <1> DEFINE Part == [of : 1 .. Tries, part : {1, 2}]
  <1>1. n \in 1 .. Tries
    BY InjectionsAssumption DEF InjectionTyping
  <1>2. /\ Whole(n)[1] \in Part /\ Whole(n)[2] \in Part /\ Whole(n) \in Seq(Part)
    <2>1. [of |-> n, part |-> 1] \in Part /\ [of |-> n, part |-> 2] \in Part
      BY <1>1
    <2> HIDE DEF Part
    <2> QED BY <2>1 DEF Whole
  <1>3. upload \in Seq(Part) /\ binary \in [parts : Seq(Part), executable : BOOLEAN]
    BY DEF InjectionTyping
  <1>4. rising' \subseteq 1 .. attempt
    BY DEF InjectionTyping, Does
  <1> HIDE DEF Part
  <1>5. upload' \in Seq(Part)
    BY <1>2, <1>3 DEF Does
  <1>6. binary' \in [parts : Seq(Part), executable : BOOLEAN]
    BY <1>2, <1>3 DEF Does
  <1> QED BY <1>4, <1>5, <1>6 DEF Part

\* The command of the running attempt brings its build one step further.
LEMMA BuildGoesOn ==
    ASSUME InjectionInv, Running, Given, step' = step + 1, Does(attempt, Command),
           UNCHANGED <<how, attempt, ran>>
    PROVE  BuildSoFar'
  <1>1. /\ InjectionTyping /\ BuildSoFar
    BY DEF InjectionInv
  <1>2. /\ binary \in [parts : Seq([of : 1 .. Tries, part : {1, 2}]), executable : BOOLEAN]
        /\ how \in {"docker", "ssh", "controller"}
    BY <1>1 DEF InjectionTyping
  <1>3. Append(<< >>, Whole(attempt)[1]) = <<Whole(attempt)[1]>>
    OBVIOUS
  <1>4. Append(<<Whole(attempt)[1]>>, Whole(attempt)[2]) = Whole(attempt)
    <2>1. ASSUME NEW a, NEW b PROVE Append(<<a>>, b) = <<a, b>>
      <3>1. <<a>> \in Seq({a, b}) /\ <<a, b>> \in Seq({a, b})
        OBVIOUS
      <3>2. Append(<<a>>, b) \in Seq({a, b}) /\ Len(Append(<<a>>, b)) = 2
        BY <3>1
      <3>3. \A i \in 1 .. 2 : Append(<<a>>, b)[i] = <<a, b>>[i]
        BY <3>1
      <3> QED BY <3>1, <3>2, <3>3, SeqEqual
    <2>2. \A a, b : <<a, b>>[1] = a /\ <<a, b>>[2] = b
      OBVIOUS
    <2>3. PICK a, b : a = [of |-> attempt, part |-> 1] /\ b = [of |-> attempt, part |-> 2]
      OBVIOUS
    <2>4. Whole(attempt) = <<a, b>>
      BY <2>3 DEF Whole
    <2> QED BY <2>1, <2>2, <2>4
  <1>5. CASE how \in {"docker", "ssh"} /\ step = 0
    <2>1. Command = "copy"
      BY <1>1, <1>5, NextCommand
    <2>2. binary'.parts = Whole(attempt)
      BY <1>2, <2>1 DEF Does
    <2>3. how' \in {"docker", "ssh"} /\ step' = 1 /\ attempt' = attempt
      BY <1>5
    <2> QED BY <2>2, <2>3 DEF BuildSoFar, Whole
  <1>6. CASE how \in {"docker", "ssh"} /\ step # 0
    <2>1. Command \in {"chmod", "start", "chmod_and_start"} /\ step >= 1
      BY <1>1, <1>6, NextCommand
    <2>2. binary'.parts = binary.parts
      BY <1>2, <2>1 DEF Does
    <2> QED BY <1>1, <1>6, <2>1, <2>2 DEF BuildSoFar
  <1>7. CASE how = "controller"
    <2>1. CASE step = 0
      BY <1>1, <1>7, <2>1, NextCommand DEF BuildSoFar, Does
    <2>2. CASE step = 1
      BY <1>1, <1>3, <1>7, <2>2, NextCommand DEF BuildSoFar, Does
    <2>3. CASE step = 2
      BY <1>1, <1>4, <1>7, <2>3, NextCommand DEF BuildSoFar, Does
    <2>4. CASE step = 3
      BY <1>1, <1>2, <1>7, <2>4, NextCommand DEF BuildSoFar, Does
    <2>5. CASE step = 4 \/ step = 5
      BY <1>1, <1>2, <1>7, <2>5, NextCommand DEF BuildSoFar, Does
    <2> QED BY <1>1, <1>7, <2>1, <2>2, <2>3, <2>4, <2>5, NextCommand
  <1> QED BY <1>2, <1>5, <1>6, <1>7

LEMMA OrderInv == ASSUME InjectionInv, Order PROVE InjectionInv'
  <1>1. /\ InjectionTyping /\ BuildSoFar /\ Running /\ Given
        /\ UNCHANGED <<how, attempt, ran, server>>
    BY DEF InjectionInv, Order
  <1>2. attempt \in 1 .. attempt /\ attempt \in 1 .. Tries
    BY <1>1, InjectionsAssumption DEF InjectionTyping, Running
  <1>3. Command \in Commands /\ step + 1 <= Len(Script(how))
    BY <1>1, NextCommand
  <1>4. CASE step' = step + 1 /\ Does(attempt, Command) /\ UNCHANGED <<late, outcome>>
    <2>1. /\ upload' \in Seq([of : 1 .. Tries, part : {1, 2}])
          /\ binary' \in [parts : Seq([of : 1 .. Tries, part : {1, 2}]), executable : BOOLEAN]
          /\ rising' \subseteq 1 .. attempt
      BY <1>1, <1>2, <1>3, <1>4, DoesTyped
    <2>2. step' \in 0 .. Len(Script(how))
      BY <1>1, <1>3, <1>4, Scripts DEF InjectionTyping
    <2>3. InjectionTyping'
      BY <1>1, <1>4, <2>1, <2>2 DEF InjectionTyping
    <2>4. BuildSoFar'
      BY <1>1, <1>4, BuildGoesOn
    <2> QED BY <2>3, <2>4 DEF InjectionInv
  <1>5. CASE Over("raised") /\ UNCHANGED <<step, upload, binary, late, rising>>
    BY <1>1, <1>2, <1>5 DEF InjectionInv, InjectionTyping, BuildSoFar, Over
  <1>6. CASE /\ Over("raised") /\ late' = late \cup {[of |-> attempt, command |-> Command]}
             /\ UNCHANGED <<step, upload, binary, rising>>
    <2>1. late' \subseteq [of : 1 .. attempt, command : Commands]
      BY <1>1, <1>2, <1>3, <1>6 DEF InjectionTyping
    <2>2. InjectionTyping'
      BY <1>1, <1>2, <1>6, <2>1 DEF InjectionTyping, Over
    <2>3. BuildSoFar'
      BY <1>1, <1>6 DEF BuildSoFar
    <2> QED BY <2>2, <2>3 DEF InjectionInv
  <1> QED BY <1>4, <1>5, <1>6 DEF Order

\* A command that runs late may spoil the build, which `ran' admits.
LEMMA RunLateInv == ASSUME InjectionInv, NEW l \in late, RunLate(l) PROVE InjectionInv'
  <1>1. /\ InjectionTyping /\ Does(l.of, l.command) /\ late' = late \ {l} /\ ran' = TRUE
        /\ UNCHANGED <<how, attempt, step, server, outcome>>
    BY DEF InjectionInv, RunLate
  <1>2. l.of \in 1 .. attempt /\ l.command \in Commands
    BY <1>1 DEF InjectionTyping
  <1>3. /\ upload' \in Seq([of : 1 .. Tries, part : {1, 2}])
        /\ binary' \in [parts : Seq([of : 1 .. Tries, part : {1, 2}]), executable : BOOLEAN]
        /\ rising' \subseteq 1 .. attempt
    BY <1>1, <1>2, DoesTyped
  <1> QED BY <1>1, <1>3 DEF InjectionInv, InjectionTyping, BuildSoFar

LEMMA InjectionNextInv == ASSUME InjectionInv, [InjectionNext]_injectionVars PROVE InjectionInv'
  <1> USE DEF InjectionInv, InjectionTyping
  <1>1. CASE UNCHANGED injectionVars
    BY <1>1 DEF injectionVars, BuildSoFar
  <1>2. CASE Inject
    <2>1. /\ attempt' = attempt + 1 /\ attempt < Tries /\ step' = 0
          /\ UNCHANGED <<how, upload, binary, late, ran, rising, server, outcome>>
      BY <1>2 DEF Inject
    <2>2. attempt' \in 0 .. Tries /\ attempt' > attempt /\ 1 .. attempt \subseteq 1 .. attempt'
      BY <2>1, InjectionsAssumption
    <2>3. step' \in 0 .. Len(Script(how))
      BY <2>1, Scripts
    <2>4. BuildSoFar'
      BY <2>1 DEF BuildSoFar
    <2>5. late' \subseteq [of : 1 .. attempt', command : Commands]
      BY <2>1, <2>2
    <2>6. \A n \in 1 .. Tries : n > attempt' => outcome'[n] = "none"
      BY <2>1, <2>2
    <2> QED BY <2>1, <2>2, <2>3, <2>4, <2>5, <2>6
  <1>3. CASE Order
    BY <1>3, OrderInv
  <1>4. CASE Poll
    <2>1. /\ attempt \in 1 .. Tries
          /\ UNCHANGED <<how, attempt, step, upload, binary, late, ran, rising, server>>
          /\ \E o \in {"ok", "raised"} : outcome' = [outcome EXCEPT ![attempt] = o]
      BY <1>4, InjectionsAssumption DEF Poll, Over, Running
    <2>2. outcome' \in [1 .. Tries -> {"none", "ok", "raised"}]
      BY <2>1
    <2>3. \A n \in 1 .. Tries : n > attempt => outcome'[n] = "none"
      BY <2>1
    <2> QED BY <2>1, <2>2, <2>3 DEF BuildSoFar
  <1>5. CASE ServerDies
    BY <1>5, InjectionsAssumption DEF ServerDies, BuildSoFar, Nobody, Foreign
  <1>6. ASSUME NEW n \in rising, Bind(n)
        PROVE  InjectionInv'
    BY <1>6, InjectionsAssumption DEF Bind, BuildSoFar, Nobody, Foreign
  <1>7. ASSUME NEW l \in late, RunLate(l)
        PROVE  InjectionInv'
    BY <1>7, RunLateInv
  <1> QED BY <1>1, <1>2, <1>3, <1>4, <1>5, <1>6, <1>7 DEF InjectionNext

\* InjectionsSound: the file that is made executable and started is the whole build of the
\* running attempt, whatever an earlier attempt left half done, unless a command that timed out
\* ran after all; for any number of attempts (inject.py, inject_shinkend and its injectors).
THEOREM InjectionsAlwaysSound == InjectionSpec => []InjectionsSound
  <1>1. InjectionInv => InjectionsSound
    <2> SUFFICES ASSUME InjectionInv PROVE InjectionsSound
      OBVIOUS
    <2>1. InjectionTyping /\ BuildSoFar
      BY DEF InjectionInv
    <2>2. InjectionTypeOK
      BY <2>1 DEF InjectionTyping, InjectionTypeOK
    <2>3. UploadIsFresh
      <3> SUFFICES ASSUME Running, Given, Command \in {"chmod", "chmod_and_start", "start"}, ~ran
                   PROVE  binary.parts = Whole(attempt)
        BY DEF UploadIsFresh
      <3>1. how = "controller" => step >= 4
        BY <2>1, NextCommand
      <3>2. how \in {"docker", "ssh"} => step >= 1
        BY <2>1, NextCommand
      <3> QED BY <2>1, <3>1, <3>2 DEF BuildSoFar, InjectionTyping
    <2> QED BY <2>2, <2>3 DEF InjectionsSound
  <1>2. InjectionInv /\ [InjectionNext]_injectionVars => InjectionInv'
    BY InjectionNextInv
  <1> QED BY <1>1, <1>2, InjectionInitInv, PTL DEF InjectionSpec

--------------------------------------------------------------------------------
(* SweDeployments: a deployment and its shell sessions.                         *)

Shells == [pc : {"new", "begun", "sourced", "saved", "over"}, name : SweNames,
           kind : {"create", "run"}, saw : SUBSET SweCmds, rc : {0, 1}]

SweTyping ==
    /\ attach \in BOOLEAN
    /\ dep \in [pc : {"idle", "create", "connect", "bootstrap", "started", "undo"}, tries : Nat]
    /\ handle \in (IF attach THEN {0} ELSE SweBoxes) \cup {99}
    /\ reg \subseteq SweNames
    /\ cmd \in [SweCmds -> Shells]
    /\ file \in [Swe!Files -> SUBSET SweCmds]
    /\ belief \in [SweNames -> SUBSET SUBSET SweCmds]
    /\ boxes \in [SweBoxes \cup {0} -> {"free", "up", "gone"}]

\* A deployment that makes its boxes has at most one that is up, but for those docker keeps.
OneBox ==
    /\ boxes[0] = "up"
    /\ dep.pc \in {"idle", "create"} => handle = 99
    /\ \A b \in SweBoxes : boxes[b] = "up" => b \in kept \cup {handle}

InShell(c) == cmd[c].pc \in {"begun", "sourced", "saved"}

\* Nothing is typed into a deployment that is not up.
NoShells == dep.pc \in {"idle", "create", "connect"} => reg = {} /\ \A c \in SweCmds : ~InShell(c)

\* A session has one command at a time, and a file of its own.
OneCommand == \A c, d \in SweCmds : InShell(c) /\ InShell(d) /\ cmd[c].name = cmd[d].name => c = d

\* What is in a session's file was written by commands of that session that are done.
FileIsOwn ==
    \A n \in SweNames : \A d \in file[OwnPaths[n]] :
        cmd[d].name = n /\ cmd[d].pc \in {"saved", "over"}

\* What a command has read is the file, and what it has written is in it.
ShellOK(c) ==
    LET n == cmd[c].name IN
    /\ cmd[c].pc \in {"new", "begun"} => cmd[c].saw = {}
    /\ cmd[c].pc = "sourced" => cmd[c].saw = file[OwnPaths[n]] \cup {c}
    /\ cmd[c].pc = "saved" => file[OwnPaths[n]] = cmd[c].saw
    /\ InShell(c) /\ cmd[c].kind = "run" =>
         /\ n \in reg
         /\ cmd[c].pc # "begun" => cmd[c].saw \ {c} \in belief[n]

\* What is believed of a session holds of its file, between its commands and until one writes.
Believed ==
    \A n \in reg : file[OwnPaths[n]] \in belief[n] \/ \E c \in SweCmds : cmd[c].pc = "saved" /\ cmd[c].name = n

SweInv ==
    /\ SweTyping /\ OneBox /\ NoShells /\ OneCommand /\ FileIsOwn /\ Believed
    /\ \A c \in SweCmds : ShellOK(c)

\* Every session has a file, and no two have the same.
LEMMA PathsApart ==
    /\ \A n \in SweNames : OwnPaths[n] \in Swe!Files
    /\ \A m, n \in SweNames : OwnPaths[m] = OwnPaths[n] => m = n
  BY HoldersAssumption DEF Swe!Files

\* Before the first start there is no box, and no session.
LEMMA SweInitInv == Swe!SweInit => SweInv
  <1> SUFFICES ASSUME Swe!SweInit PROVE SweInv
    OBVIOUS
  <1>1. SweTyping
    BY HoldersAssumption DEF Swe!SweInit, SweTyping, Shells, Swe!NoBox, Swe!Attached, Swe!NoCmd,
       Swe!Files
  <1>2. /\ OneBox /\ NoShells /\ OneCommand /\ FileIsOwn /\ Believed
        /\ \A c \in SweCmds : ShellOK(c)
    BY HoldersAssumption, PathsApart DEF Swe!SweInit, OneBox, NoShells, OneCommand, FileIsOwn,
       Believed, ShellOK, InShell,
       Swe!NoBox, Swe!Attached, Swe!NoCmd
  <1> QED BY <1>1, <1>2 DEF SweInv

\* A shell whose field is set is a shell.
LEMMA ShellSet ==
    ASSUME NEW r \in Shells
    PROVE  /\ \A pc \in {"new", "begun", "sourced", "saved", "over"} : [r EXCEPT !.pc = pc] \in Shells
           /\ \A saw \in SUBSET SweCmds : [r EXCEPT !.saw = saw] \in Shells
           /\ \A rc \in {0, 1} : [r EXCEPT !.rc = rc] \in Shells
  BY DEF Shells

\* So is one that has come to its end, by writing its state or by an exit.
LEMMA ShellDone ==
    ASSUME cmd \in [SweCmds -> Shells], NEW c \in SweCmds, NEW rc \in {0, 1}
    PROVE  /\ [cmd[c] EXCEPT !.pc = "saved", !.rc = rc] \in Shells =>
                [cmd EXCEPT ![c].pc = "saved", ![c].rc = rc] \in [SweCmds -> Shells]
           /\ [cmd[c] EXCEPT !.pc = "saved", !.rc = rc, !.saw = cmd[c].saw \ {c}] \in Shells =>
                [cmd EXCEPT ![c].pc = "saved", ![c].rc = rc, ![c].saw = cmd[c].saw \ {c}]
                    \in [SweCmds -> Shells]
  OBVIOUS

\* What a step of one command leaves as it was for another.
Bystander(c, d) ==
    /\ cmd'[d] = cmd[d]
    /\ InShell(d) =>
         LET n == cmd[d].name IN
         /\ file'[OwnPaths[n]] = file[OwnPaths[n]] /\ belief'[n] = belief[n]
         /\ n \in reg => n \in reg'

\* So it goes on being in order.
LEMMA BystanderOK ==
    ASSUME NEW c \in SweCmds, NEW d \in SweCmds, ShellOK(d), Bystander(c, d)
    PROVE  ShellOK(d)'
  BY DEF ShellOK, Bystander, InShell

\* A command begins in a session that has no other.
LEMMA BeginInv ==
    ASSUME SweInv, NEW c \in SweCmds, NEW n \in SweNames, NEW verb \in {"create", "run"}, Swe!Begin(c, n, verb)
    PROVE  SweInv'
  <1> USE PathsApart, HoldersAssumption DEF SweTyping, Swe!Begin, Swe!Busy, Swe!NoCmd, Swe!deployment
  <1>0. /\ SweTyping /\ OneBox /\ NoShells /\ OneCommand /\ FileIsOwn /\ Believed
        /\ \A d \in SweCmds : ShellOK(d)
    BY DEF SweInv
  <1>1. cmd' \in [SweCmds -> Shells]
    <2>1. [Swe!NoCmd EXCEPT !.pc = "begun", !.name = n, !.kind = verb] \in Shells
      BY DEF Shells
    <2> QED BY <1>0, <2>1
  <1>2. SweTyping'
    BY <1>0, <1>1 DEF Shells
  <1>3. OneBox'
    BY <1>0 DEF OneBox
  <1>4. NoShells'
    BY <1>0 DEF NoShells, InShell, Shells
  <1>5. OneCommand'
    BY <1>0 DEF OneCommand, InShell, Shells
  <1>6. FileIsOwn'
    BY <1>0 DEF FileIsOwn, ShellOK, Shells
  <1>7. Believed'
    BY <1>0 DEF Believed, ShellOK, Shells, OneCommand, InShell
  <1>8. ASSUME NEW d \in SweCmds PROVE ShellOK(d)'
    <2>1. CASE d = c
      BY <1>0, <2>1 DEF ShellOK, InShell, FileIsOwn, Believed, OneCommand, Shells
    <2>2. CASE d # c
      <3>1. Bystander(c, d)
        BY <1>0, <2>2 DEF Bystander, OneCommand, InShell, Shells
      <3> QED BY <1>0, <3>1, BystanderOK
    <2> QED BY <2>1, <2>2
  <1> QED BY <1>2, <1>3, <1>4, <1>5, <1>6, <1>7, <1>8 DEF SweInv

\* It reads the file, which holds what is believed of the session.
LEMMA SourceInv ==
    ASSUME SweInv, NEW c \in SweCmds, Swe!Source(c)
    PROVE  SweInv'
  <1> USE PathsApart, HoldersAssumption DEF SweTyping, Swe!Source, Swe!deployment
  <1>0. /\ SweTyping /\ OneBox /\ NoShells /\ OneCommand /\ FileIsOwn /\ Believed
        /\ \A d \in SweCmds : ShellOK(d)
    BY DEF SweInv
  <1>1. cmd' \in [SweCmds -> Shells]
    <2>1. cmd[c] \in Shells /\ file[OwnPaths[cmd[c].name]] \cup {c} \in SUBSET SweCmds
      BY <1>0 DEF Shells
    <2>2. cmd[c].pc = "begun"
      BY <1>0 DEF Shells
    <2>3. [cmd[c] EXCEPT !.pc = "sourced"] \in Shells
      BY <2>1, ShellSet
    <2>4. [cmd[c] EXCEPT !.pc = "sourced", !.saw = file[OwnPaths[cmd[c].name]] \cup {c}] \in Shells
      BY <2>1, <2>3, ShellSet
    <2> QED BY <1>0, <2>2, <2>4
  <1>2. SweTyping'
    BY <1>0, <1>1 DEF Shells
  <1>3. OneBox'
    BY <1>0 DEF OneBox
  <1>4. NoShells'
    BY <1>0 DEF NoShells, InShell, Shells
  <1>5. OneCommand'
    BY <1>0 DEF OneCommand, InShell, Shells
  <1>6. FileIsOwn'
    BY <1>0 DEF FileIsOwn, ShellOK, Shells
  <1>7. Believed'
    BY <1>0 DEF Believed, ShellOK, Shells, OneCommand, InShell
  <1>8. ASSUME NEW d \in SweCmds PROVE ShellOK(d)'
    <2>1. CASE d = c
      BY <1>0, <2>1 DEF ShellOK, InShell, FileIsOwn, Believed, OneCommand, Shells
    <2>2. CASE d # c
      <3>1. Bystander(c, d)
        BY <1>0, <2>2 DEF Bystander, OneCommand, InShell, Shells
      <3> QED BY <1>0, <3>1, BystanderOK
    <2> QED BY <2>1, <2>2
  <1> QED BY <1>2, <1>3, <1>4, <1>5, <1>6, <1>7, <1>8 DEF SweInv

\* It writes what it has read and done into the file of its session, and no other.
LEMMA SaveInv ==
    ASSUME SweInv, NEW c \in SweCmds, Swe!Save(c)
    PROVE  SweInv'
  <1> USE PathsApart, HoldersAssumption DEF SweTyping, Swe!Save, Swe!Writes, Swe!deployment
  <1>0. /\ SweTyping /\ OneBox /\ NoShells /\ OneCommand /\ FileIsOwn /\ Believed
        /\ \A d \in SweCmds : ShellOK(d)
    BY DEF SweInv
  <1>1. cmd' \in [SweCmds -> Shells]
    <2>1. cmd[c] \in Shells /\ cmd[c].pc = "sourced"
      BY <1>0 DEF Shells
    <2>2. [cmd[c] EXCEPT !.pc = "saved"] \in Shells
      BY <2>1, ShellSet
    <2>3. \A rc \in {0, 1} : [cmd[c] EXCEPT !.pc = "saved", !.rc = rc] \in Shells
      BY <2>2, ShellSet
    <2>4. PICK rc \in {0, 1} : cmd' = [cmd EXCEPT ![c].pc = "saved", ![c].rc = rc]
      BY <2>1 DEF Swe!Save
    <2> QED BY <1>0, <2>3, <2>4, ShellDone
  <1>2. SweTyping'
    BY <1>0, <1>1 DEF Shells
  <1>3. OneBox'
    BY <1>0 DEF OneBox
  <1>4. NoShells'
    BY <1>0 DEF NoShells, InShell, Shells
  <1>5. OneCommand'
    BY <1>0 DEF OneCommand, InShell, Shells
  <1>6. FileIsOwn'
    <2> SUFFICES ASSUME NEW n \in SweNames, NEW d \in file'[OwnPaths[n]]
                 PROVE  cmd'[d].name = n /\ cmd'[d].pc \in {"saved", "over"}
      BY DEF FileIsOwn
    <2>1. CASE n = cmd[c].name
      <3>0. cmd[c].pc = "sourced" /\ file' = [file EXCEPT ![OwnPaths[n]] = cmd[c].saw]
        BY <1>0, <2>1 DEF Shells
      <3>1. cmd[c].saw = file[OwnPaths[n]] \cup {c} /\ file'[OwnPaths[n]] = cmd[c].saw
        BY <1>0, <2>1, <3>0 DEF ShellOK
      <3>2. CASE d = c
        BY <1>0, <2>1, <3>2 DEF Shells
      <3>3. CASE d # c
        BY <1>0, <2>1, <3>1, <3>3 DEF FileIsOwn, Shells
      <3> QED BY <3>2, <3>3
    <2>2. CASE n # cmd[c].name
      <3>1. d \in file[OwnPaths[n]] /\ d # c
        BY <1>0, <2>2 DEF FileIsOwn, Shells
      <3> QED BY <1>0, <3>1 DEF FileIsOwn, Shells
    <2> QED BY <2>1, <2>2
  <1>7. Believed'
    BY <1>0 DEF Believed, ShellOK, Shells, OneCommand, InShell
  <1>8. ASSUME NEW d \in SweCmds PROVE ShellOK(d)'
    <2>1. CASE d = c
      BY <1>0, <2>1 DEF ShellOK, InShell, FileIsOwn, Believed, OneCommand, Shells
    <2>2. CASE d # c
      <3>1. Bystander(c, d)
        BY <1>0, <2>2 DEF Bystander, OneCommand, InShell, Shells
      <3> QED BY <1>0, <3>1, BystanderOK
    <2> QED BY <2>1, <2>2
  <1> QED BY <1>2, <1>3, <1>4, <1>5, <1>6, <1>7, <1>8 DEF SweInv

\* An exit leaves the file as it was, and so does what is believed of it.
LEMMA ExitInv ==
    ASSUME SweInv, NEW c \in SweCmds, Swe!Exit(c)
    PROVE  SweInv'
  <1> USE PathsApart, HoldersAssumption DEF SweTyping, Swe!Exit, Swe!deployment
  <1>0. /\ SweTyping /\ OneBox /\ NoShells /\ OneCommand /\ FileIsOwn /\ Believed
        /\ \A d \in SweCmds : ShellOK(d)
    BY DEF SweInv
  <1>1. cmd' \in [SweCmds -> Shells]
    <2>1. cmd[c] \in Shells /\ cmd[c].saw \ {c} \in SUBSET SweCmds
      BY <1>0 DEF Shells
    <2>2. [cmd[c] EXCEPT !.pc = "saved"] \in Shells
      BY <2>1, ShellSet
    <2>3. \A rc \in {0, 1} : [cmd[c] EXCEPT !.pc = "saved", !.rc = rc] \in Shells
      BY <2>2, ShellSet
    <2>4. \A rc \in {0, 1} :
             [cmd[c] EXCEPT !.pc = "saved", !.rc = rc, !.saw = cmd[c].saw \ {c}] \in Shells
      BY <2>1, <2>3, ShellSet
    <2>5. PICK rc \in {0, 1} :
             cmd' = [cmd EXCEPT ![c].pc = "saved", ![c].rc = rc, ![c].saw = cmd[c].saw \ {c}]
      BY DEF Swe!Exit
    <2> QED BY <1>0, <2>4, <2>5, ShellDone
  <1>2. SweTyping'
    BY <1>0, <1>1 DEF Shells
  <1>3. OneBox'
    BY <1>0 DEF OneBox
  <1>4. NoShells'
    BY <1>0 DEF NoShells, InShell, Shells
  <1>5. OneCommand'
    BY <1>0 DEF OneCommand, InShell, Shells
  <1>6. FileIsOwn'
    BY <1>0 DEF FileIsOwn, ShellOK, Shells
  <1>7. Believed'
    BY <1>0 DEF Believed, ShellOK, Shells, OneCommand, InShell
  <1>8. ASSUME NEW d \in SweCmds PROVE ShellOK(d)'
    <2>1. CASE d = c
      <3>1. /\ cmd'[c].saw = cmd[c].saw \ {c} /\ cmd'[c].pc = "saved"
            /\ cmd'[c].kind = cmd[c].kind /\ cmd'[c].name = cmd[c].name
        BY <1>0 DEF Shells
      <3>2. c \notin file[OwnPaths[cmd[c].name]]
        BY <1>0 DEF FileIsOwn, Shells
      <3>3. cmd[c].saw = file[OwnPaths[cmd[c].name]] \cup {c}
        BY <1>0 DEF ShellOK
      <3>4. cmd[c].saw \ {c} = file[OwnPaths[cmd[c].name]]
        BY <3>2, <3>3
      <3>5. (cmd[c].saw \ {c}) \ {c} = cmd[c].saw \ {c}
        OBVIOUS
      <3> HIDE DEF SweTyping
      <3>6. UNCHANGED <<file, belief, reg>>
        BY <1>0 DEF Swe!Exit
      <3> QED BY <1>0, <2>1, <3>1, <3>4, <3>5, <3>6 DEF ShellOK, InShell
    <2>2. CASE d # c
      <3>1. Bystander(c, d)
        BY <1>0, <2>2 DEF Bystander, OneCommand, InShell, Shells
      <3> QED BY <1>0, <3>1, BystanderOK
    <2> QED BY <2>1, <2>2
  <1> QED BY <1>2, <1>3, <1>4, <1>5, <1>6, <1>7, <1>8 DEF SweInv

\* The client believes what the command left.
LEMMA ReturnInv ==
    ASSUME SweInv, NEW c \in SweCmds, Swe!Return(c)
    PROVE  SweInv'
  <1> USE PathsApart, HoldersAssumption DEF SweTyping, Swe!Return, Swe!deployment
  <1>0. /\ SweTyping /\ OneBox /\ NoShells /\ OneCommand /\ FileIsOwn /\ Believed
        /\ \A d \in SweCmds : ShellOK(d)
    BY DEF SweInv
  <1>1. cmd' \in [SweCmds -> Shells]
    BY <1>0 DEF Shells
  <1>2. SweTyping'
    BY <1>0, <1>1 DEF Shells
  <1>3. OneBox'
    BY <1>0 DEF OneBox
  <1>4. NoShells'
    BY <1>0 DEF NoShells, InShell, Shells
  <1>5. OneCommand'
    BY <1>0 DEF OneCommand, InShell, Shells
  <1>6. FileIsOwn'
    BY <1>0 DEF FileIsOwn, ShellOK, Shells
  <1>7. Believed'
    <2> SUFFICES ASSUME NEW n \in reg'
                 PROVE  \/ file'[OwnPaths[n]] \in belief'[n]
                        \/ \E d \in SweCmds : cmd'[d].pc = "saved" /\ cmd'[d].name = n
      BY DEF Believed
    <2>1. CASE n = cmd[c].name
      <3>1. file[OwnPaths[n]] = cmd[c].saw /\ belief'[n] = {cmd[c].saw}
        BY <1>0, <2>1 DEF ShellOK, Shells
      <3> QED BY <3>1
    <2>2. CASE n # cmd[c].name
      <3>1. n \in reg /\ file'[OwnPaths[n]] = file[OwnPaths[n]] /\ belief'[n] = belief[n]
        BY <1>0, <2>2 DEF Shells
      <3>2. \A d \in SweCmds : cmd[d].name = n => cmd'[d] = cmd[d]
        BY <1>0, <2>2
      <3>3. \/ file[OwnPaths[n]] \in belief[n]
            \/ \E d \in SweCmds : cmd[d].pc = "saved" /\ cmd[d].name = n
        BY <1>0, <3>1 DEF Believed
      <3> QED BY <3>1, <3>2, <3>3
    <2> QED BY <2>1, <2>2
  <1>8. ASSUME NEW d \in SweCmds PROVE ShellOK(d)'
    <2>1. CASE d = c
      BY <1>0, <2>1 DEF ShellOK, InShell, FileIsOwn, Believed, OneCommand, Shells
    <2>2. CASE d # c
      <3>1. Bystander(c, d)
        BY <1>0, <2>2 DEF Bystander, OneCommand, InShell, Shells
      <3> QED BY <1>0, <3>1, BystanderOK
    <2> QED BY <2>1, <2>2
  <1> QED BY <1>2, <1>3, <1>4, <1>5, <1>6, <1>7, <1>8 DEF SweInv

\* A command that is killed leaves the old file, an empty one or the one it wrote.
LEMMA TimeOutInv ==
    ASSUME SweInv, NEW c \in SweCmds, Swe!TimeOut(c)
    PROVE  SweInv'
  <1> USE PathsApart, HoldersAssumption DEF SweTyping, Swe!TimeOut, Swe!Fault, Swe!deployment
  <1>0. /\ SweTyping /\ OneBox /\ NoShells /\ OneCommand /\ FileIsOwn /\ Believed
        /\ \A d \in SweCmds : ShellOK(d)
    BY DEF SweInv
  <1>1. cmd' \in [SweCmds -> Shells]
    BY <1>0 DEF Shells
  <1>2. SweTyping'
    BY <1>0, <1>1 DEF Shells
  <1>3. OneBox'
    BY <1>0 DEF OneBox
  <1>4. NoShells'
    BY <1>0 DEF NoShells, InShell, Shells
  <1>5. OneCommand'
    BY <1>0 DEF OneCommand, InShell, Shells
  <1>6. FileIsOwn'
    BY <1>0 DEF FileIsOwn, ShellOK, Shells
  <1>7. Believed'
    <2> SUFFICES ASSUME NEW n \in reg'
                 PROVE  \/ file'[OwnPaths[n]] \in belief'[n]
                        \/ \E d \in SweCmds : cmd'[d].pc = "saved" /\ cmd'[d].name = n
      BY DEF Believed
    <2>1. CASE n = cmd[c].name
      <3>1. file'[OwnPaths[n]] \in belief'[n]
        <4>1. belief'[n] = belief[n] \cup {{}, cmd[c].saw}
          BY <1>0, <2>1 DEF Shells
        <4>2. file'[OwnPaths[n]] \in {file[OwnPaths[n]], {}}
          BY <1>0, <2>1 DEF Shells
        <4>3. CASE cmd[c].pc = "saved"
          BY <1>0, <2>1, <4>1, <4>2, <4>3 DEF ShellOK
        <4>4. CASE cmd[c].pc # "saved"
          <5>1. file[OwnPaths[n]] \in belief[n]
            BY <1>0, <2>1, <4>4 DEF Believed, OneCommand, InShell
          <5> QED BY <4>1, <4>2, <5>1
        <4> QED BY <4>3, <4>4
      <3> QED BY <3>1
    <2>2. CASE n # cmd[c].name
      <3>1. n \in reg /\ file'[OwnPaths[n]] = file[OwnPaths[n]] /\ belief'[n] = belief[n]
        BY <1>0, <2>2 DEF Shells
      <3>2. \A d \in SweCmds : cmd[d].name = n => cmd'[d] = cmd[d]
        BY <1>0, <2>2
      <3>3. \/ file[OwnPaths[n]] \in belief[n]
            \/ \E d \in SweCmds : cmd[d].pc = "saved" /\ cmd[d].name = n
        BY <1>0, <3>1 DEF Believed
      <3> QED BY <3>1, <3>2, <3>3
    <2> QED BY <2>1, <2>2
  <1>8. ASSUME NEW d \in SweCmds PROVE ShellOK(d)'
    <2>1. CASE d = c
      BY <1>0, <2>1 DEF ShellOK, InShell, FileIsOwn, Believed, OneCommand, Shells
    <2>2. CASE d # c
      <3>1. Bystander(c, d)
        BY <1>0, <2>2 DEF Bystander, OneCommand, InShell, Shells
      <3> QED BY <1>0, <3>1, BystanderOK
    <2> QED BY <2>1, <2>2
  <1> QED BY <1>2, <1>3, <1>4, <1>5, <1>6, <1>7, <1>8 DEF SweInv

\* A session that is closed has no command, and no claim on its file.
LEMMA CloseSessionInv ==
    ASSUME SweInv, NEW n \in SweNames, Swe!CloseSession(n)
    PROVE  SweInv'
  <1> USE PathsApart DEF SweTyping, Swe!CloseSession, Swe!deployment
  <1>0. /\ SweTyping /\ OneBox /\ NoShells /\ OneCommand /\ FileIsOwn /\ Believed
        /\ \A d \in SweCmds : ShellOK(d)
    BY DEF SweInv
  <1>1. SweTyping' /\ OneBox' /\ NoShells' /\ OneCommand'
    BY <1>0 DEF OneBox, NoShells, OneCommand, InShell
  <1>2. FileIsOwn'
    BY <1>0 DEF FileIsOwn
  <1>3. Believed'
    BY <1>0 DEF Believed
  <1>4. \A d \in SweCmds : ShellOK(d)'
    BY <1>0 DEF ShellOK, InShell, Swe!Busy, Shells
  <1> QED BY <1>1, <1>2, <1>3, <1>4 DEF SweInv

\* What starts and stops the deployment leaves its sessions as they are, but for the file of a
\* fresh box and for the end of everything.
LEMMA DeploymentInv ==
    ASSUME SweInv,
           Swe!Start \/ Swe!Create \/ Swe!Bootstrapped \/ Swe!Stop
    PROVE  SweInv'
  <1> USE HoldersAssumption DEF SweTyping, Swe!sessions, Swe!Goto, Swe!Fault, Swe!NoBox, Swe!Attached
  <1>0. /\ SweTyping /\ OneBox /\ NoShells /\ OneCommand /\ FileIsOwn /\ Believed
        /\ \A d \in SweCmds : ShellOK(d)
    BY DEF SweInv
  <1>1. UNCHANGED <<reg, cmd, file, belief>>
    BY DEF Swe!Start, Swe!Create, Swe!Bootstrapped, Swe!Stop
  <1>2. OneCommand' /\ FileIsOwn' /\ Believed' /\ \A d \in SweCmds : ShellOK(d)'
    <2>1. OneCommand' /\ FileIsOwn'
      BY <1>0, <1>1 DEF OneCommand, FileIsOwn, InShell
    <2>2. Believed'
      BY <1>0, <1>1 DEF Believed
    <2>3. ASSUME NEW d \in SweCmds PROVE ShellOK(d)'
      BY <1>0, <1>1 DEF ShellOK, InShell
    <2> QED BY <2>1, <2>2, <2>3
  <1>3. SweTyping' /\ OneBox' /\ NoShells'
    <2>1. CASE Swe!Start
      BY <1>0, <1>1, <2>1 DEF Swe!Start, OneBox, NoShells, InShell
    <2>2. CASE Swe!Create
      BY <1>0, <1>1, <2>2 DEF Swe!Create, OneBox, NoShells, InShell
    <2>3. CASE Swe!Bootstrapped
      BY <1>0, <1>1, <2>3 DEF Swe!Bootstrapped, OneBox, NoShells, InShell
    <2>4. CASE Swe!Stop
      BY <1>0, <1>1, <2>4 DEF Swe!Stop, OneBox, NoShells, InShell
    <2> QED BY <2>1, <2>2, <2>3, <2>4
  <1> QED BY <1>2, <1>3 DEF SweInv

\* The file system of a fresh box is empty; that of an attached one is as it was left.
LEMMA ConnectInv ==
    ASSUME SweInv, Swe!Connect
    PROVE  SweInv'
  <1> USE HoldersAssumption DEF SweTyping, Swe!Connect, Swe!Goto, Swe!Fault, Swe!NoBox, Swe!Attached
  <1>0. /\ SweTyping /\ OneBox /\ NoShells /\ OneCommand /\ FileIsOwn /\ Believed
        /\ \A d \in SweCmds : ShellOK(d)
    BY DEF SweInv
  <1>1. SweTyping' /\ OneBox' /\ NoShells' /\ OneCommand' /\ Believed'
    BY <1>0 DEF OneBox, NoShells, OneCommand, Believed, InShell
  <1>2. FileIsOwn'
    BY <1>0, PathsApart DEF FileIsOwn
  <1>3. \A d \in SweCmds : ShellOK(d)'
    BY <1>0 DEF ShellOK, NoShells, InShell
  <1> QED BY <1>1, <1>2, <1>3 DEF SweInv

\* stop() and a failed attempt end every session, and destroy no box but the deployment's own.
LEMMA UndoInv ==
    ASSUME SweInv, Swe!Undo
    PROVE  SweInv'
  <1> USE HoldersAssumption DEF SweTyping, Swe!Undo, Swe!Fault, Swe!NoBox, Swe!Destroys
  <1>0. /\ SweTyping /\ OneBox /\ NoShells /\ OneCommand /\ FileIsOwn /\ Believed
        /\ \A d \in SweCmds : ShellOK(d)
    BY DEF SweInv
  <1>1. /\ cmd' \in [SweCmds -> Shells]
        /\ \A c \in SweCmds :
             /\ cmd'[c].name = cmd[c].name /\ cmd'[c].saw = cmd[c].saw
             /\ cmd'[c].pc = IF cmd[c].pc = "new" THEN "new" ELSE "over"
    <2>1. \A c \in SweCmds :
             cmd'[c] = IF cmd[c].pc = "new" THEN cmd[c] ELSE [cmd[c] EXCEPT !.pc = "over"]
      OBVIOUS
    <2>2. ASSUME NEW c \in SweCmds
          PROVE  /\ cmd'[c] \in Shells
                 /\ cmd'[c].name = cmd[c].name /\ cmd'[c].saw = cmd[c].saw
                 /\ cmd'[c].pc = IF cmd[c].pc = "new" THEN "new" ELSE "over"
      <3>1. cmd[c] \in Shells
        BY <1>0
      <3> QED BY <2>1, <3>1 DEF Shells
    <2> QED BY <2>2
  <1>2. \A n \in SweNames : file'[OwnPaths[n]] \in {{}, file[OwnPaths[n]]}
    BY <1>0, PathsApart
  <1>3. SweTyping'
    BY <1>0, <1>1
  <1>4. OneBox'
    BY <1>0 DEF OneBox
  <1>5. NoShells' /\ OneCommand' /\ Believed'
    BY <1>1 DEF NoShells, OneCommand, Believed, InShell
  <1>6. FileIsOwn'
    BY <1>0, <1>1, <1>2, PathsApart DEF FileIsOwn
  <1>7. ASSUME NEW d \in SweCmds PROVE ShellOK(d)'
    <2>1. ShellOK(d) /\ cmd'[d].saw = cmd[d].saw /\ cmd'[d].pc \in {"new", "over"}
      BY <1>0, <1>1
    <2>2. cmd'[d].pc = "new" => cmd[d].pc = "new"
      BY <1>1
    <2> QED BY <2>1, <2>2 DEF ShellOK, InShell
  <1> QED BY <1>3, <1>4, <1>5, <1>6, <1>7 DEF SweInv

\* Whatever the client and the deployment do, the sessions stay in order.
LEMMA SweNextInv == SweInv /\ [Swe!SweNext]_sweVars => SweInv'
  <1> SUFFICES ASSUME SweInv, [Swe!SweNext]_sweVars PROVE SweInv'
    OBVIOUS
  <1>1. CASE UNCHANGED sweVars
    <2>1. SweTyping' /\ OneBox' /\ NoShells' /\ OneCommand'
      BY <1>1 DEF sweVars, SweInv, SweTyping, OneBox, NoShells, OneCommand, InShell
    <2>2. FileIsOwn' /\ Believed'
      BY <1>1 DEF sweVars, SweInv, FileIsOwn, Believed
    <2>3. ASSUME NEW c \in SweCmds PROVE ShellOK(c)'
      BY <1>1 DEF sweVars, SweInv, ShellOK, InShell
    <2> QED BY <2>1, <2>2, <2>3 DEF SweInv
  <1>2. CASE \E c \in SweCmds, n \in SweNames : Swe!Begin(c, n, "create") \/ Swe!Begin(c, n, "run")
    BY <1>2, BeginInv
  <1>3. CASE \E c \in SweCmds : Swe!Source(c) \/ Swe!Save(c) \/ Swe!Exit(c) \/ Swe!Return(c) \/ Swe!TimeOut(c)
    BY <1>3, SourceInv, SaveInv, ExitInv, ReturnInv, TimeOutInv
  <1>4. CASE \E n \in SweNames : Swe!CloseSession(n)
    BY <1>4, CloseSessionInv
  <1>5. CASE Swe!Start \/ Swe!Create \/ Swe!Bootstrapped \/ Swe!Stop
    BY <1>5, DeploymentInv
  <1> QED BY <1>1, <1>2, <1>3, <1>4, <1>5, ConnectInv, UndoInv DEF Swe!SweNext

\* SweSound from its invariant: a command of a session finds what the one before it left, and
\* nothing of another session; a deployment has one box at most.
LEMMA SweInvSound == SweInv => Swe!SweSound
  <1> SUFFICES ASSUME SweInv PROVE Swe!SweSound
    OBVIOUS
  <1>1. Swe!SessionPersists
    <2> SUFFICES ASSUME NEW c \in SweCmds, cmd[c].pc \in {"sourced", "saved"}
                 PROVE  /\ cmd[c].kind = "run" => cmd[c].saw \ {c} \in belief[cmd[c].name]
                        /\ \A d \in cmd[c].saw : cmd[d].name = cmd[c].name
      BY DEF Swe!SessionPersists
    <2>1. ShellOK(c) /\ FileIsOwn /\ cmd[c].name \in SweNames
      BY DEF SweInv, SweTyping, Shells
    <2>2. cmd[c].saw \subseteq file[OwnPaths[cmd[c].name]] \cup {c}
      BY <2>1 DEF ShellOK
    <2> QED BY <2>1, <2>2 DEF ShellOK, FileIsOwn, InShell
  <1>2. Swe!DeploymentKeepsOne
    BY DEF SweInv, OneBox, Swe!DeploymentKeepsOne, Swe!Attached
  <1> QED BY <1>1, <1>2 DEF Swe!SweSound

--------------------------------------------------------------------------------
(* Rollouts: the runtime of a rollout session.                                  *)

RollTyping ==
    /\ held \in BOOLEAN /\ destroyed \in BOOLEAN /\ aci \in BOOLEAN /\ refused \in BOOLEAN
    /\ active \in {"none", "start", "command"}
    /\ starting \in {"new", "provision", "prepare", "undo", "ok", "raised"}
    /\ command \in {"idle", "push", "session", "probe", "guest", "host", "copy"}
    /\ stopping \in [Roll!Callers -> {"new", "kill", "wait", "close", "destroy", "end", "raised"}]
    /\ container \in {"none", "live", "gone"}
    /\ sessions \subseteq {"cached", "fresh"}

\* The host's process is that of the step that awaits it.
OneProcess ==
    /\ running \subseteq {active} \ {"none"}
    /\ active = "start" <=> starting = "prepare"
    /\ active = "command" <=> command \in {"push", "host", "copy"}
    /\ command # "idle" => starting = "ok"

\* A stop that has gone on has marked the runtime, and then it is at work, or what it left of
\* the box is known.
StopOK ==
    /\ \A s \in Roll!Callers : stopping[s] \in {"close", "destroy", "end", "raised"} => destroyed
    /\ starting = "new" => ~destroyed
    /\ held <=> container # "none"
    /\ starting \in {"new", "provision"} => ~held
    /\ starting \in {"prepare", "undo", "ok"} => held
    /\ starting = "raised" /\ held => destroyed
    /\ \/ ~destroyed \/ container = "gone" \/ refused \/ "box" \in overtaken
       \/ starting = "raised" /\ ~held
       \/ \E s \in Roll!Callers : stopping[s] \in {"close", "destroy"}

\* A session that a stop leaves open was connected behind its back.
SessionOK ==
    /\ "cached" \in sessions <=> aci
    /\ "fresh" \in sessions <=> command = "probe"
    /\ command = "probe" => ~aci /\ (destroyed => "session" \in overtaken)
    /\ destroyed /\ sessions # {} =>
         "session" \in overtaken \/ \E s \in Roll!Callers : stopping[s] = "close"

RollInv == RollTyping /\ OneProcess /\ StopOK /\ SessionOK

\* Before the start there is nothing to stop.
LEMMA RollInitInv == Roll!RollInit => RollInv
  BY HoldersAssumption DEF Roll!RollInit, RollInv, RollTyping, OneProcess, StopOK, SessionOK,
     Roll!Callers

\* Every await of start, exec, cancel and stop keeps what the others rely on.
LEMMA RollNextInv ==
    ASSUME RollInv, [Roll!RollNext]_rollVars
    PROVE  RollInv'
  <1> USE DEF RollInv, RollTyping, OneProcess, StopOK, SessionOK, Roll!Spawn, Roll!Reaped
  <1>1. CASE UNCHANGED rollVars
    BY <1>1 DEF rollVars
  <1>2. CASE Roll!Start
    BY <1>2 DEF Roll!Start
  <1>3. CASE Roll!Provision
    <2>1. RollTyping'
      BY <1>3 DEF Roll!Provision
    <2>2. OneProcess'
      BY <1>3 DEF Roll!Provision
    <2>3. StopOK'
      BY <1>3 DEF Roll!Provision
    <2>4. SessionOK'
      BY <1>3 DEF Roll!Provision
    <2> QED BY <2>1, <2>2, <2>3, <2>4
  <1>4. CASE Roll!Prepared
    BY <1>4 DEF Roll!AfterPrepare, Roll!Prepared
  <1>5. CASE Roll!Failed
    BY <1>5 DEF Roll!Callers, Roll!Failed
  <1>6. CASE Roll!Exec
    BY <1>6 DEF Roll!Exec
  <1>7. CASE Roll!Transfer
    BY <1>7 DEF Roll!Transfer
  <1>8. CASE Roll!Copied
    BY <1>8 DEF Roll!Copied
  <1>9. CASE Roll!Pushed
    BY <1>9 DEF Roll!Pushed
  <1>10. CASE Roll!Session
    BY <1>10 DEF Roll!Session
  <1>11. CASE Roll!Probe
    <2>1. RollTyping'
      BY <1>11 DEF Roll!Probe
    <2>2. OneProcess'
      BY <1>11 DEF Roll!Probe
    <2>3. StopOK'
      BY <1>11 DEF Roll!Probe
    <2>4. SessionOK'
      BY <1>11 DEF Roll!Probe
    <2> QED BY <2>1, <2>2, <2>3, <2>4
  <1>12. CASE Roll!GuestDone
    BY <1>12 DEF Roll!GuestDone
  <1>13. CASE Roll!HostDone
    BY <1>13 DEF Roll!HostDone
  <1>14. ASSUME NEW s \in Roll!Callers, Roll!Cancel(s)
        PROVE  RollInv'
    BY <1>14 DEF Roll!MayStop, Roll!Cancel
  <1>15. ASSUME NEW s \in Roll!Callers, Roll!Stop(s)
        PROVE  RollInv'
    BY <1>15 DEF Roll!MayStop, Roll!Stop
  <1>16. ASSUME NEW s \in Roll!Callers, Roll!Closed(s)
        PROVE  RollInv'
    BY <1>16 DEF Roll!Closed
  <1>17. ASSUME NEW s \in Roll!Callers, Roll!Destroyed(s)
        PROVE  RollInv'
    <2>1. RollTyping'
      BY <1>17 DEF Roll!Destroyed
    <2>2. OneProcess'
      BY <1>17 DEF Roll!Destroyed
    <2>3. StopOK'
      BY <1>17 DEF Roll!Destroyed
    <2>4. SessionOK'
      BY <1>17 DEF Roll!Destroyed
    <2> QED BY <2>1, <2>2, <2>3, <2>4
  <1> QED BY <1>1, <1>2, <1>3, <1>4, <1>5, <1>6, <1>7, <1>8, <1>9, <1>10, <1>11, <1>12, <1>13,
     <1>14, <1>15, <1>16, <1>17 DEF Roll!RollNext

\* RolloutsSound from its invariant: the process that runs is the one a cancel finds, and a box
\* or a session outlives the one stop that does the work only in the two windows named.
LEMMA RollInvSound == RollInv => Roll!RolloutsSound
  <1> SUFFICES ASSUME RollInv PROVE Roll!RolloutsSound
    OBVIOUS
  <1>1. Roll!CommandIsFound
    BY DEF RollInv, OneProcess, Roll!CommandIsFound
  <1>2. Roll!NoQuietLeak
    BY DEF RollInv, RollTyping, StopOK, Roll!NoQuietLeak, Roll!Quiet
  <1>3. Roll!SessionsAreKept
    BY DEF RollInv, RollTyping, SessionOK, Roll!SessionsAreKept, Roll!Quiet
  <1> QED BY <1>1, <1>2, <1>3 DEF Roll!RolloutsSound

--------------------------------------------------------------------------------
(* Lifecycles: a sandbox, from its making to its end.                           *)

Outcomes == {"none", "returned", "make", "interrupt", "connect", "body", "destroy"}

Stages == {"idle", "snapping", "making", "dialing", "greeting", "disowning", "held", "closing",
           "destroying", "over"}

LifeTyping ==
    /\ kind \in [Jobs -> {"session", "spawn", "restore"}]
    /\ at \in [Jobs -> Stages]
    /\ lodged \in [Jobs -> {"none", "up", "gone"}]
    /\ images \subseteq Jobs /\ ids \subseteq Jobs /\ detached \subseteq Jobs /\ probeWs \subseteq Jobs
    /\ ws \in [Jobs -> {"none", "open", "closed"}]
    /\ bg \in [Jobs -> {"none", "running", "stopped"}]
    /\ ended \in [Jobs -> BOOLEAN]
    /\ call \in [Jobs -> {"none", "close", "destroy"}]
    /\ heard \in [Jobs -> Outcomes] /\ first \in [Jobs -> Outcomes]
    /\ probe \in [Jobs -> {"none", "dialing", "asking"}]
    /\ verdict \in [Jobs -> {"none", "died"}]

\* Before there is a handle there is nothing to give back, and nothing has been raised.
NotMade(j) ==
    at[j] \in {"idle", "snapping", "making"} =>
        lodged[j] = "none" /\ ws[j] = "none" /\ bg[j] = "none" /\ first[j] = "none"

Struck(j, w) == <<j, w>> \in struck

\* A thread that goes on by itself makes what nobody waits for.
Abandoned(j) ==
    /\ at[j] = "snapping" => kind[j] = "restore"
    /\ j \in detached =>
         /\ at[j] = "over" /\ lodged[j] = "none"
         /\ kind[j] = "spawn" => Struck(j, "making")
         /\ kind[j] = "restore" => Struck(j, "snapping")
    /\ j \in images => j \in ids \/ Struck(j, "snapping")
    /\ at[j] = "over" /\ lodged[j] = "up" => j \in denied \/ (kind[j] = "spawn" /\ Struck(j, "making"))

\* A session is open from its welcome to its close.
OpenOK(j) ==
    /\ ended[j] => at[j] \in {"held", "closing", "destroying", "over"}
    /\ at[j] \in {"closing", "destroying"} => ended[j]
    /\ at[j] = "dialing" => bg[j] = "running" /\ ws[j] = "none"
    /\ at[j] = "greeting" \/ (at[j] = "held" /\ ~ended[j]) => bg[j] = "running" /\ ws[j] = "open"
    /\ at[j] \in {"disowning", "destroying", "over"} \/ (at[j] = "held" /\ ended[j]) =>
         \/ bg[j] # "running" /\ ws[j] # "open"
         \/ Struck(j, "connecting") \/ Struck(j, "closing")

\* What is told is what was raised first; what is seen is so.
ToldOK(j) ==
    /\ at[j] = "disowning" => first[j] # "none"
    /\ at[j] = "over" => heard[j] = IF first[j] = "none" THEN "returned" ELSE first[j]
    /\ j \in probeWs => probe[j] = "asking"
    /\ verdict[j] = "died" => lodged[j] = "gone"

JobOK(j) == NotMade(j) /\ Abandoned(j) /\ OpenOK(j) /\ ToldOK(j)

LifeInv == LifeTyping /\ \A j \in Jobs : JobOK(j)

\* A step of one job leaves what is known of another as it was.
SameJob(k) ==
    /\ kind'[k] = kind[k] /\ at'[k] = at[k] /\ lodged'[k] = lodged[k]
    /\ ws'[k] = ws[k] /\ bg'[k] = bg[k] /\ ended'[k] = ended[k]
    /\ heard'[k] = heard[k] /\ first'[k] = first[k]
    /\ probe'[k] = probe[k] /\ verdict'[k] = verdict[k]
    /\ k \in images' <=> k \in images
    /\ k \in ids' <=> k \in ids
    /\ k \in detached' <=> k \in detached
    /\ k \in denied' <=> k \in denied
    /\ k \in probeWs' <=> k \in probeWs
    /\ \A w \in {"making", "snapping", "connecting", "closing"} : <<k, w>> \in struck' <=> <<k, w>> \in struck

\* Sandbox.close goes on to the close of the session, or past it.
LEMMA Closes ==
    ASSUME LifeTyping, NEW j \in Jobs, Life!CloseOrPass(j)
    PROVE  at' \in [Jobs -> Stages] /\ ended' \in [Jobs -> BOOLEAN]
  <1> USE DEF LifeTyping, Stages, Life!CloseOrPass, Life!Go, Life!Becomes
  <1>1. at' \in [Jobs -> Stages]
    OBVIOUS
  <1>2. ended' = ended \/ ended' = [ended EXCEPT ![j] = TRUE]
    OBVIOUS
  <1> QED BY <1>1, <1>2

\* Types are kept.
LEMMA LifeTyped ==
    ASSUME LifeTyping, NEW j \in Jobs, Life!LifeStep(j)
    PROVE  LifeTyping'
  <1> USE DEF LifeTyping, Outcomes, Stages, Life!Go, Life!Becomes, Life!Raised, Life!Tell, Life!Others
  <1>1. CASE Life!Checkpoint(j)
    BY <1>1 DEF Life!Checkpoint
  <1>2. CASE Life!Checkpointed(j)
    BY <1>2 DEF Life!Checkpointed
  <1>3. CASE Life!Delete(j)
    BY <1>3 DEF Life!Delete
  <1>4. CASE Life!Begin(j)
    BY <1>4 DEF Life!Begin
  <1>5. CASE Life!Made(j)
    BY <1>5 DEF Life!Made
  <1>6. CASE Life!MakeFails(j)
    BY <1>6 DEF Life!MakeFails
  <1>7. CASE Life!MakeStruck(j)
    BY <1>7 DEF Life!InThread, Life!MakeStruck
  <1>8. CASE Life!ThreadEnds(j)
    BY <1>8 DEF Life!ThreadEnds
  <1>9. CASE Life!Dialed(j)
    BY <1>9 DEF Life!Dialed
  <1>10. CASE Life!Welcomed(j)
    BY <1>10 DEF Life!Welcomed
  <1>11. CASE Life!ConnectFails(j)
    BY <1>11 DEF Life!ConnectFails
  <1>12. CASE Life!ConnectStruck(j)
    BY <1>12 DEF Life!ConnectStruck
  <1>13. CASE Life!Disowned(j)
    BY <1>13 DEF Life!Disowned
  <1>14. CASE Life!EndBody(j)
    <2>1. at' \in [Jobs -> Stages] /\ ended' \in [Jobs -> BOOLEAN]
      BY <1>14, Closes DEF Life!EndBody
    <2>2. first' \in [Jobs -> Outcomes] /\ call' \in [Jobs -> {"none", "close", "destroy"}]
      BY <1>14 DEF Life!EndBody
    <2> QED BY <1>14, <2>1, <2>2 DEF Life!EndBody
  <1>15. CASE Life!Close(j)
    <2>1. at' \in [Jobs -> Stages] /\ ended' \in [Jobs -> BOOLEAN]
      BY <1>15, Closes DEF Life!Close
    <2>2. first' \in [Jobs -> Outcomes] /\ call' \in [Jobs -> {"none", "close", "destroy"}]
      BY <1>15 DEF Life!Close
    <2> QED BY <1>15, <2>1, <2>2 DEF Life!Close
  <1>16. CASE Life!Destroy(j)
    <2>1. at' \in [Jobs -> Stages] /\ ended' \in [Jobs -> BOOLEAN]
      BY <1>16, Closes DEF Life!Destroy
    <2>2. first' \in [Jobs -> Outcomes] /\ call' \in [Jobs -> {"none", "close", "destroy"}]
      BY <1>16 DEF Life!Destroy
    <2> QED BY <1>16, <2>1, <2>2 DEF Life!Destroy
  <1>17. CASE Life!Closed(j)
    BY <1>17 DEF Life!Closed
  <1>18. CASE Life!CloseStruck(j)
    BY <1>18 DEF Life!CloseStruck
  <1>19. CASE Life!Destroyed(j)
    BY <1>19 DEF Life!Destroyed
  <1>20. CASE Life!DestroyFails(j)
    BY <1>20 DEF Life!DestroyFails
  <1>21. CASE Life!BoxDies(j)
    BY <1>21 DEF Life!BoxDies
  <1>22. CASE Life!Health(j)
    BY <1>22 DEF Life!Look, Life!LookConnects, Life!LookUnanswered, Life!LookEnds, Life!Health
  <1>23. CASE Life!CheckAlive(j)
    BY <1>23 DEF Life!Inspected, Life!CheckAlive
  <1> QED BY <1>1, <1>2, <1>3, <1>4, <1>5, <1>6, <1>7, <1>8, <1>9, <1>10, <1>11, <1>12, <1>13,
     <1>14, <1>15, <1>16, <1>17, <1>18, <1>19, <1>20, <1>21, <1>22, <1>23 DEF Life!LifeStep

\* A step of one job is none of another's.
LEMMA JobsApart ==
    ASSUME LifeTyping, NEW j \in Jobs, Life!LifeStep(j), NEW k \in Jobs, k # j, JobOK(k)
    PROVE  JobOK(k)'
  <1> USE DEF LifeTyping, SameJob, Life!Go, Life!Becomes, Life!Raised, Life!Tell, Life!Others
  <1> SUFFICES SameJob(k)
    BY DEF JobOK, NotMade, Abandoned, OpenOK, ToldOK, Struck
  <1>1. CASE Life!Checkpoint(j)
    BY <1>1 DEF Life!Checkpoint
  <1>2. CASE Life!Checkpointed(j)
    BY <1>2 DEF Life!Checkpointed
  <1>3. CASE Life!Delete(j)
    BY <1>3 DEF Life!Delete
  <1>4. CASE Life!Begin(j)
    BY <1>4 DEF Life!Begin
  <1>5. CASE Life!Made(j)
    BY <1>5 DEF Life!Made
  <1>6. CASE Life!MakeFails(j)
    BY <1>6 DEF Life!MakeFails
  <1>7. CASE Life!MakeStruck(j)
    BY <1>7 DEF Life!InThread, Life!MakeStruck
  <1>8. CASE Life!ThreadEnds(j)
    BY <1>8 DEF Life!ThreadEnds
  <1>9. CASE Life!Dialed(j)
    BY <1>9 DEF Life!Dialed
  <1>10. CASE Life!Welcomed(j)
    BY <1>10 DEF Life!Welcomed
  <1>11. CASE Life!ConnectFails(j)
    BY <1>11 DEF Life!ConnectFails
  <1>12. CASE Life!ConnectStruck(j)
    BY <1>12 DEF Life!ConnectStruck
  <1>13. CASE Life!Disowned(j)
    BY <1>13 DEF Life!Disowned
  <1>14. CASE Life!EndBody(j)
    BY <1>14 DEF Life!CloseOrPass, Life!EndBody
  <1>15. CASE Life!Close(j)
    BY <1>15 DEF Life!CloseOrPass, Life!Close
  <1>16. CASE Life!Destroy(j)
    BY <1>16 DEF Life!CloseOrPass, Life!Destroy
  <1>17. CASE Life!Closed(j)
    BY <1>17 DEF Life!Closed
  <1>18. CASE Life!CloseStruck(j)
    BY <1>18 DEF Life!CloseStruck
  <1>19. CASE Life!Destroyed(j)
    BY <1>19 DEF Life!Destroyed
  <1>20. CASE Life!DestroyFails(j)
    BY <1>20 DEF Life!DestroyFails
  <1>21. CASE Life!BoxDies(j)
    BY <1>21 DEF Life!BoxDies
  <1>22. CASE Life!Health(j)
    BY <1>22 DEF Life!Look, Life!LookConnects, Life!LookUnanswered, Life!LookEnds, Life!Health
  <1>23. CASE Life!CheckAlive(j)
    BY <1>23 DEF Life!Inspected, Life!CheckAlive
  <1> QED BY <1>1, <1>2, <1>3, <1>4, <1>5, <1>6, <1>7, <1>8, <1>9, <1>10, <1>11, <1>12, <1>13,
     <1>14, <1>15, <1>16, <1>17, <1>18, <1>19, <1>20, <1>21, <1>22, <1>23 DEF Life!LifeStep

\* What is so of a job before its step is so after it.
LEMMA JobStepInv ==
    ASSUME LifeTyping, NEW j \in Jobs, JobOK(j), Life!LifeStep(j)
    PROVE  JobOK(j)'
  <1> USE DEF LifeTyping, JobOK, NotMade, Abandoned, OpenOK, ToldOK, Struck, Life!Go, Life!Becomes,
     Life!Raised, Life!Tell, Life!Others
  <1>1. CASE Life!Checkpoint(j)
    BY <1>1 DEF Life!Checkpoint
  <1>2. CASE Life!Checkpointed(j)
    BY <1>2 DEF Life!Checkpointed
  <1>3. CASE Life!Delete(j)
    BY <1>3 DEF Life!Delete
  <1>4. CASE Life!Begin(j)
    BY <1>4 DEF Life!Begin
  <1>5. CASE Life!Made(j)
    BY <1>5 DEF Life!Made
  <1>6. CASE Life!MakeFails(j)
    BY <1>6 DEF Life!MakeFails
  <1>7. CASE Life!MakeStruck(j)
    BY <1>7 DEF Life!InThread, Life!MakeStruck
  <1>8. CASE Life!ThreadEnds(j)
    BY <1>8 DEF Life!ThreadEnds
  <1>9. CASE Life!Dialed(j)
    BY <1>9 DEF Life!Dialed
  <1>10. CASE Life!Welcomed(j)
    BY <1>10 DEF Life!Welcomed
  <1>11. CASE Life!ConnectFails(j)
    BY <1>11 DEF Life!ConnectFails
  <1>12. CASE Life!ConnectStruck(j)
    BY <1>12 DEF Life!ConnectStruck
  <1>13. CASE Life!Disowned(j)
    BY <1>13 DEF Life!Disowned
  <1>14. CASE Life!EndBody(j)
    BY <1>14 DEF Life!CloseOrPass, Life!EndBody
  <1>15. CASE Life!Close(j)
    BY <1>15 DEF Life!CloseOrPass, Life!Close
  <1>16. CASE Life!Destroy(j)
    BY <1>16 DEF Life!CloseOrPass, Life!Destroy
  <1>17. CASE Life!Closed(j)
    <2>1. CASE call[j] = "close"
      BY <1>17, <2>1 DEF Life!Closed
    <2>2. CASE ~(call[j] = "close")
      BY <1>17, <2>2 DEF Life!Closed
    <2> QED BY <2>1, <2>2
  <1>18. CASE Life!CloseStruck(j)
    <2>1. CASE kind[j] = "session" /\ call[j] = "destroy"
      BY <1>18, <2>1 DEF Life!CloseStruck
    <2>2. CASE ~(kind[j] = "session" /\ call[j] = "destroy")
      BY <1>18, <2>2 DEF Life!CloseStruck
    <2> QED BY <2>1, <2>2
  <1>19. CASE Life!Destroyed(j)
    BY <1>19 DEF Life!Destroyed
  <1>20. CASE Life!DestroyFails(j)
    <2>1. CASE kind[j] = "session"
      BY <1>20, <2>1 DEF Life!DestroyFails
    <2>2. CASE ~(kind[j] = "session")
      BY <1>20, <2>2 DEF Life!DestroyFails
    <2> QED BY <2>1, <2>2
  <1>21. CASE Life!BoxDies(j)
    BY <1>21 DEF Life!BoxDies
  <1>22. CASE Life!Health(j)
    BY <1>22 DEF Life!Look, Life!LookConnects, Life!LookUnanswered, Life!LookEnds, Life!Health
  <1>23. CASE Life!CheckAlive(j)
    BY <1>23 DEF Life!Inspected, Life!CheckAlive
  <1> QED BY <1>1, <1>2, <1>3, <1>4, <1>5, <1>6, <1>7, <1>8, <1>9, <1>10, <1>11, <1>12, <1>13,
     <1>14, <1>15, <1>16, <1>17, <1>18, <1>19, <1>20, <1>21, <1>22, <1>23 DEF Life!LifeStep

\* Nothing has been asked for.
LEMMA LifeInitInv == Life!LifeInit => LifeInv
  BY DEF Life!LifeInit, LifeInv, LifeTyping, Stages, Outcomes, JobOK, NotMade, Abandoned, OpenOK, ToldOK

\* One job steps, and every job stays in order.
LEMMA LifeNextInv == LifeInv /\ [Life!LifeNext]_lifeVars => LifeInv'
  <1> SUFFICES ASSUME LifeInv, [Life!LifeNext]_lifeVars PROVE LifeInv'
    OBVIOUS
  <1>1. CASE UNCHANGED lifeVars
    <2>1. LifeTyping'
      BY <1>1 DEF LifeInv, LifeTyping, lifeVars
    <2>2. \A j \in Jobs : JobOK(j)'
      BY <1>1 DEF LifeInv, JobOK, NotMade, Abandoned, OpenOK, ToldOK, Struck, lifeVars
    <2> QED BY <2>1, <2>2 DEF LifeInv
  <1>2. ASSUME NEW j \in Jobs, Life!LifeStep(j)
        PROVE  LifeInv'
    <2>1. LifeTyping'
      BY <1>2, LifeTyped DEF LifeInv
    <2>2. ASSUME NEW k \in Jobs PROVE JobOK(k)'
      BY <1>2, JobStepInv, JobsApart DEF LifeInv
    <2> QED BY <2>1, <2>2 DEF LifeInv
  <1> QED BY <1>1, <1>2 DEF Life!LifeNext

\* LifecyclesSound from its invariant: what is left over, open or untold has its reason.
LEMMA LifeInvSound == LifeInv => Life!LifecyclesSound
  <1> SUFFICES ASSUME LifeInv PROVE Life!LifecyclesSound
    OBVIOUS
  <1>1. Life!OverIsGone /\ Life!ImageIsHeld
    BY DEF LifeInv, LifeTyping, JobOK, Abandoned, Struck, Life!OverIsGone, Life!ImageIsHeld, Life!Over
  <1>2. Life!FirstErrorIsTold /\ Life!LookLeavesNothing /\ Life!DeathIsSeen
    BY DEF LifeInv, LifeTyping, JobOK, ToldOK, Life!FirstErrorIsTold, Life!LookLeavesNothing,
       Life!DeathIsSeen
  <1>3. Life!LoopsEnd /\ Life!HeldIsOpen
    BY DEF LifeInv, JobOK, OpenOK, Struck, Life!LoopsEnd, Life!HeldIsOpen
  <1> QED BY <1>1, <1>2, <1>3 DEF Life!LifecyclesSound

--------------------------------------------------------------------------------
(* The composition: its behaviours are behaviours of every part.               *)

LEMMA PartsAreRun ==
    /\ SandboxesInit => ScopeInit /\ TransferInit /\ InjectionInit
    /\ [SandboxesNext]_sandboxVars =>
         /\ [ScopeNext]_scopeVars /\ [TransferNext]_transferVars /\ [InjectionNext]_injectionVars
  BY DEF SandboxesInit, SandboxesNext, sandboxVars, borderVars

\* CarriedSound: what is moved into and out of a sandbox arrives whole and as it is told, and
\* the server that is injected is started from a whole binary, for any number of movers and
\* attempts (artifacts.py, put and get; inject.py, inject_shinkend).
THEOREM CarriedAlwaysSound ==
    ASSUME Transport = "store"
    PROVE  SandboxesSpec => []CarriedSound
  <1>1. SandboxesSpec => TransferSpec /\ InjectionSpec
    BY PartsAreRun, PTL DEF SandboxesSpec, TransferSpec, InjectionSpec
  <1>2. TransferSpec => []TransfersSound
    BY TransfersAlwaysSound
  <1>3. TransfersSound /\ InjectionsSound => CarriedSound
    BY DEF CarriedSound
  <1> QED BY <1>1, <1>2, <1>3, InjectionsAlwaysSound, PTL

\* HoldersSound: an interruption or a failure anywhere between the making and the giving back of
\* a sandbox leaves no more than the code says it may, sessions of a deployment find their own
\* state, and a runtime's stop, cancel and exec, however they overlap, lose nothing but in the
\* two named windows; for any number of commands, boxes, callers, blocks and jobs (base.py,
\* session; client.py, Sandbox; swerex.py; prorl_agent_server.py; agentix.py).
THEOREM HoldersAlwaysSound == SandboxesSpec => []HoldersSound
  <1>1. SandboxesInit => SweInv /\ RollInv /\ LifeInv
    BY SweInitInv, RollInitInv, LifeInitInv DEF SandboxesInit
  <1>2. [SandboxesNext]_sandboxVars =>
           [Swe!SweNext]_sweVars /\ [Roll!RollNext]_rollVars /\ [Life!LifeNext]_lifeVars
    BY DEF SandboxesNext, sandboxVars
  <1>3. SandboxesSpec => [](SweInv /\ RollInv /\ LifeInv)
    <2>1. SweInv /\ RollInv /\ LifeInv /\ [SandboxesNext]_sandboxVars => (SweInv /\ RollInv /\ LifeInv)'
      BY <1>2, SweNextInv, RollNextInv, LifeNextInv
    <2> QED BY <1>1, <2>1, PTL DEF SandboxesSpec
  <1>4. SandboxesSpec => ScopeSpec
    BY PartsAreRun, PTL DEF SandboxesSpec, ScopeSpec
  <1>5. SweInv /\ RollInv /\ LifeInv /\ ScopesSound => HoldersSound
    BY SweInvSound, RollInvSound, LifeInvSound DEF HoldersSound
  <1> QED BY <1>3, <1>4, <1>5, ScopesAlwaysSound, PTL
================================================================================
