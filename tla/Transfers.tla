--------------------------------- MODULE Transfers ---------------------------------
(***************************************************************************)
(* put_file and get_file of the Python SDK (client.py) over its two        *)
(* transports: LocalArtifactStore (artifacts.py), a directory that stands  *)
(* for the sandbox, and DockerGuestTransport (providers/docker.py), which  *)
(* copies with docker cp.                                                  *)
(*                                                                         *)
(* Several processes move one file.  A copy reads and writes half by half, *)
(* and whoever owns a source may rewrite it meanwhile.  A file is the      *)
(* sequence of its halves, << >> when it is not there; its digest is its   *)
(* content.  What path is asked for (_resolve, _validate_guest_path) and   *)
(* the capability gate are functions of the call and left out.             *)
(***************************************************************************)
EXTENDS Integers, Sequences

CONSTANTS
    Movers,     \* processes that move the file
    Transport,  \* "store" or "docker"
    MaxMoves    \* bound: transfers of a mover

ASSUME TransfersAssumption == Transport \in {"store", "docker"} /\ MaxMoves \in Nat

VARIABLES
    there,   \* the file in the sandbox
    local,   \* of a mover: its file on the host
    temp,    \* of a mover: its temporary file
    move,    \* of a mover: the transfer it makes
    moves,   \* how many it has made
    told     \* of a mover: what its last transfer answered, and what it found and left

transferVars == <<there, local, temp, move, moves, told>>

Contents == {<<"x", "x">>, <<"y", "y">>}
Missing == << >>

\* One half more of a copy of `from`.
Copied(part, from) == Append(part, from[Len(part) + 1])

--------------------------------------------------------------------------------
NoMove == [kind |-> "none", pc |-> "rest", expect |-> Missing, digest |-> Missing, found |-> Missing]
Silent == [outcome |-> "none", digest |-> Missing, left |-> Missing, found |-> Missing]

Source(m) == IF move[m].kind = "put" THEN local[m] ELSE there
Target(m) == IF move[m].kind = "put" THEN there ELSE local[m]

\* The file a transfer writes to: a temporary one, or, with docker cp, the target itself.
Written(m) == IF Transport = "store" THEN temp[m] ELSE Target(m)
WriteTo(m, content) ==
    IF Transport = "store" THEN temp' = [temp EXCEPT ![m] = content] /\ UNCHANGED <<there, local>>
    ELSE /\ IF move[m].kind = "put" THEN there' = content /\ UNCHANGED local
            ELSE local' = [local EXCEPT ![m] = content] /\ UNCHANGED there
         /\ UNCHANGED temp

On(m, pc) == move' = [move EXCEPT ![m].pc = pc]

\* put() and get() are called; a get of what is not there raises at once.  put() over docker
\* takes the digest of its source first.
BeginMove(m, kind, expect) ==
    /\ move[m].pc = "rest" /\ moves[m] < MaxMoves
    /\ IF kind = "put" THEN local[m] # Missing /\ expect = Missing ELSE there # Missing
    /\ moves' = [moves EXCEPT ![m] = @ + 1]
    /\ move' = [move EXCEPT ![m] =
         [kind |-> kind, expect |-> expect,
          pc |-> IF Transport = "docker" THEN "clear" ELSE "copy",
          digest |-> IF kind = "put" THEN local[m] ELSE Missing,
          found |-> IF kind = "put" THEN there ELSE local[m]]]
    /\ UNCHANGED <<there, local, temp, told>>

\* docker cp truncates what it writes over.
Clear(m) ==
    /\ move[m].pc = "clear"
    /\ WriteTo(m, Missing) /\ On(m, "copy")
    /\ UNCHANGED <<moves, told>>

\* A half of the source; the source may have gone, or be shorter by now.
Copy(m) ==
    /\ move[m].pc = "copy" /\ Len(Written(m)) < 2 /\ Len(Source(m)) > Len(Written(m))
    /\ WriteTo(m, Copied(Written(m), Source(m)))
    /\ On(m, IF Len(Written(m)) = 1 THEN "hash" ELSE "copy")
    /\ UNCHANGED <<moves, told>>

\* A mutant for TransfersSound: the store takes the digest of the source.
DigestOfSource(m) ==
    IF Transport = "docker" /\ move[m].kind = "put" THEN move[m].digest ELSE Source(m)

\* The digest of what was copied; put() over docker has taken that of the source before.
DigestTaken(m) ==
    IF Transport = "docker" /\ move[m].kind = "put" THEN move[m].digest ELSE Written(m)

Hash(m) ==
    /\ move[m].pc = "hash"
    /\ move' = [move EXCEPT ![m].pc = "verify", ![m].digest = DigestTaken(m)]
    /\ UNCHANGED <<there, local, temp, moves, told>>

Told(m, outcome, left) ==
    /\ told' = [told EXCEPT ![m] = [outcome |-> outcome, digest |-> move[m].digest,
                                      left |-> left, found |-> move[m].found]]
    /\ move' = [move EXCEPT ![m] = NoMove]

\* HashMismatch: the temporary file is removed; over docker, the target is.
Mismatch(m) ==
    /\ move[m].pc = "verify"
    /\ move[m].expect # Missing /\ move[m].digest # move[m].expect
    /\ WriteTo(m, Missing)
    /\ Told(m, "mismatch", IF Transport = "store" THEN Target(m) ELSE Missing)
    /\ UNCHANGED moves

\* os.replace, and the reference is returned.
Place(m) ==
    /\ move[m].pc = "verify"
    /\ move[m].expect = Missing \/ move[m].digest = move[m].expect
    /\ IF Transport = "docker" THEN UNCHANGED <<there, local, temp>>
       ELSE /\ temp' = [temp EXCEPT ![m] = Missing]
            /\ IF move[m].kind = "put" THEN there' = temp[m] /\ UNCHANGED local
               ELSE local' = [local EXCEPT ![m] = temp[m]] /\ UNCHANGED there
    /\ Told(m, "done", Written(m))
    /\ UNCHANGED moves

\* The copy fails: a full disk, a source that has gone, docker cp that fails or times out.
Fail(m) ==
    /\ move[m].pc \in {"clear", "copy", "hash"}
    /\ temp' = [temp EXCEPT ![m] = Missing] /\ UNCHANGED <<there, local>>
    /\ Told(m, "error", Target(m))
    /\ UNCHANGED moves

\* The process is killed: what it had written stays where it is.
KillMover(m) ==
    /\ move[m].pc # "rest"
    /\ move' = [move EXCEPT ![m] = NoMove] /\ told' = [told EXCEPT ![m] = Silent]
    /\ moves' = [moves EXCEPT ![m] = MaxMoves]
    /\ UNCHANGED <<there, local, temp>>

\* The sandbox writes its file, or the host the one it is putting.
Rewrite(c) ==
    /\ \/ there' = c /\ UNCHANGED local
       \/ \E m \in Movers : move[m].kind = "put" /\ local' = [local EXCEPT ![m] = c] /\ UNCHANGED there
    /\ UNCHANGED <<temp, move, moves, told>>

--------------------------------------------------------------------------------
TransferInit ==
    /\ there \in Contents \cup {Missing}
    /\ local \in [Movers -> Contents \cup {Missing}]
    /\ temp = [m \in Movers |-> Missing] /\ move = [m \in Movers |-> NoMove]
    /\ moves = [m \in Movers |-> 0] /\ told = [m \in Movers |-> Silent]

TransferNext ==
    \/ \E m \in Movers :
        \/ \E kind \in {"put", "get"}, e \in Contents \cup {Missing} : BeginMove(m, kind, e)
        \/ Clear(m) \/ Copy(m) \/ Hash(m) \/ Mismatch(m) \/ Place(m) \/ Fail(m) \/ KillMover(m)
    \/ \E c \in Contents : Rewrite(c)

--------------------------------------------------------------------------------
\* TypeOK: of the state.
TransferTypeOK ==
    /\ \A f \in {there} \cup {local[m] : m \in Movers} \cup {temp[m] : m \in Movers} :
        f \in Seq({"x", "y"}) /\ Len(f) <= 2
    /\ \A m \in Movers : moves[m] \in 0 .. MaxMoves

\* NeverHalf: a half-written file is never seen in the place of the file, neither by who
\* reads while a transfer is under way nor after a crash or an error (artifacts.py, put: "a
\* crash or concurrent reader never observes a half-written file").
NeverHalf == Len(there) # 1 /\ \A m \in Movers : Len(local[m]) # 1

\* DigestIsDelivered: the digest that is returned is that of the bytes that were delivered,
\* whatever was done to the source meanwhile (artifacts.py, put: "the returned hash always
\* matches the delivered bytes").
DigestIsDelivered == \A m \in Movers : told[m].outcome = "done" => told[m].digest = told[m].left

\* MismatchWritesNothing: a get that finds another file than was expected leaves the file of
\* the host as it found it (artifacts.py, get: "the file is **not** written to local_path").
MismatchWritesNothing == \A m \in Movers : told[m].outcome = "mismatch" => told[m].left = told[m].found

\* NoLitter: a transfer that has ended, with a result or an error, leaves no temporary file.
NoLitter == \A m \in Movers : move[m].pc = "rest" /\ told[m].outcome # "none" => temp[m] = Missing

TransfersSound == TransferTypeOK /\ NeverHalf /\ DigestIsDelivered /\ MismatchWritesNothing /\ NoLitter
================================================================================
