---------------------------------- MODULE Shots ----------------------------------
(***************************************************************************)
(* Content-negotiated screenshots of the Python SDK (sdk/python/src/       *)
(* shinken/client.py): sessions, possibly of different threads, that share *)
(* one FrameCache, and the screenshot call, which offers the hash of a     *)
(* frame it holds and is answered by a full frame or by not_modified.      *)
(*                                                                         *)
(* A hash is the content of the screen it was computed from; what is held  *)
(* under it is an encoding, which depends on the capture parameters too.   *)
(* The runtime is external.                                                *)
(***************************************************************************)
EXTENDS Integers, Sequences, SequencesExt

CONSTANTS
    Peers,       \* sessions that share the cache
    Settings,    \* capture parameters: scope, format, quality, max_long_edge
    Contents,    \* what a screen can show
    Positions,   \* where a pointer can be, from 0
    MaxEntries,  \* FrameCache(max_entries), at least 1
    MaxShots     \* bound of the exploration: screenshots of a session

VARIABLES
    screen,    \* what a session's screen shows
    pointer,   \* where its pointer is
    cache,     \* the FrameCache: `entries`, least recently used first, and `last`
    lastShot,  \* _last_shot: per session and key, the frame it has seen last
    shot,      \* the screenshot a session has under way, and then what it returned
    taken      \* screenshots so far

shotVars == <<screen, pointer, cache, lastShot, shot, taken>>

--------------------------------------------------------------------------------
(* FrameCache.  A frame is held with the parameters and the content it encodes, *)
(* and with the pointer of the reply it came in.                                *)

NoFrame == [params |-> "none", hash |-> "none", pointer |-> -1]

\* The key a frame is held under.
KeyOfScope(params) == "screen"

KeyOf(params) == params

Keys == {KeyOf(p) : p \in Settings}

\* Where a key and a hash are held, at one place at most, and the frame there, if any.
Places(entries, key, hash) == {i \in 1 .. Len(entries) : entries[i].key = key /\ entries[i].hash = hash}
Place(entries, key, hash) == CHOOSE i \in Places(entries, key, hash) : TRUE

Under(entries, key, hash) ==
    IF Places(entries, key, hash) = {} THEN NoFrame ELSE entries[Place(entries, key, hash)].frame

Without(entries, key, hash) ==
    IF Places(entries, key, hash) = {} THEN entries ELSE RemoveAt(entries, Place(entries, key, hash))

\* move_to_end, and an assignment that moves its entry to the end
Refreshed(entries, key, hash, frame) ==
    Append(Without(entries, key, hash), [key |-> key, hash |-> hash, frame |-> frame])

Candidate(key) == Under(cache.entries, key, cache.last[key])

CandidateMoved(key) ==
    IF Candidate(key) = NoFrame THEN cache
    ELSE [cache EXCEPT !.entries = Refreshed(@, key, cache.last[key], Candidate(key))]

\* The pointer to an evicted frame is dropped, unless it has moved on.
DanglingDropped(last, evicted) ==
    [k \in Keys |-> IF \E i \in 1 .. Len(evicted) : evicted[i].key = k /\ evicted[i].hash = last[k]
                    THEN "none" ELSE last[k]]

Put(c, key, hash, frame) ==
    LET entries == Refreshed(c.entries, key, hash, frame)
        over == IF Len(entries) > MaxEntries THEN Len(entries) - MaxEntries ELSE 0
        last == [c.last EXCEPT ![key] = hash] IN
    [entries |-> SubSeq(entries, over + 1, Len(entries)),
     last |-> DanglingDropped(last, SubSeq(entries, 1, over))]

Touch(c, key, hash) ==
    LET frame == Under(c.entries, key, hash) IN
    IF frame = NoFrame THEN c
    ELSE [entries |-> Refreshed(c.entries, key, hash, frame), last |-> [c.last EXCEPT ![key] = hash]]

--------------------------------------------------------------------------------
(* screenshot()                                                                 *)

Idle == [pc |-> "idle", params |-> "none", dedup |-> FALSE, held |-> NoFrame, out |-> NoFrame,
         modified |-> TRUE, truth |-> NoFrame]

\* The frame offered is the session's own last one, else the cache's candidate; it is held
\* across the call, whatever the cache does meanwhile.
Offered(s, params) ==
    IF lastShot[s][KeyOf(params)] # NoFrame THEN lastShot[s][KeyOf(params)]
    ELSE Candidate(KeyOf(params))

Ask(s, params, dedup) ==
    /\ shot[s].pc = "idle" /\ taken[s] < MaxShots
    /\ taken' = [taken EXCEPT ![s] = @ + 1]
    /\ shot' = [shot EXCEPT ![s] = [Idle EXCEPT !.pc = "sent", !.params = params, !.dedup = dedup,
                                                !.held = IF dedup THEN Offered(s, params) ELSE NoFrame]]
    /\ cache' = IF dedup /\ lastShot[s][KeyOf(params)] = NoFrame
                THEN CandidateMoved(KeyOf(params)) ELSE cache
    /\ UNCHANGED <<screen, pointer, lastShot>>

\* The runtime captures.  It omits the pointer when it cannot tell it, which it finds out
\* by a query of its own, and it may fail.
Answer(s) ==
    /\ shot[s].pc = "sent"
    /\ \E known \in BOOLEAN :
          LET frame == [params |-> shot[s].params, hash |-> screen[s],
                        pointer |-> IF known THEN pointer[s] ELSE -1] IN
          shot' = [shot EXCEPT ![s].pc = "answered", ![s].out = frame,
                               ![s].modified = shot[s].held.hash # screen[s],
                               ![s].truth = [frame EXCEPT !.pointer = pointer[s]]]
    /\ UNCHANGED <<screen, pointer, cache, lastShot, taken>>

\* Nothing is recorded of a call that times out or is refused.
Fail(s) ==
    /\ shot[s].pc = "sent"
    /\ shot' = [shot EXCEPT ![s] = Idle]
    /\ UNCHANGED <<screen, pointer, cache, lastShot, taken>>

\* not_modified: the held frame, with the fresh pointer if there is one.
Unmodified(s) ==
    LET reply == shot[s].out
        key == KeyOf(shot[s].params) IN
    /\ shot[s].pc = "answered" /\ ~shot[s].modified
    /\ lastShot' = [lastShot EXCEPT ![s][key] = shot[s].held]
    /\ cache' = Touch(cache, key, shot[s].held.hash)
    /\ shot' = [shot EXCEPT ![s].pc = "returned",
                   ![s].out = IF reply.pointer = -1 THEN shot[s].held
                              ELSE [shot[s].held EXCEPT !.pointer = reply.pointer]]
    /\ UNCHANGED <<screen, pointer, taken>>

\* A full frame
Modified(s) ==
    LET reply == shot[s].out
        key == KeyOf(shot[s].params) IN
    /\ shot[s].pc = "answered" /\ shot[s].modified
    /\ IF shot[s].dedup
       THEN /\ lastShot' = [lastShot EXCEPT ![s][key] = reply]
            /\ cache' = Put(cache, key, reply.hash, reply)
       ELSE UNCHANGED <<lastShot, cache>>
    /\ shot' = [shot EXCEPT ![s].pc = "returned"]
    /\ UNCHANGED <<screen, pointer, taken>>

\* The caller has its frame.
Finish(s) ==
    /\ shot[s].pc = "returned"
    /\ shot' = [shot EXCEPT ![s] = Idle]
    /\ UNCHANGED <<screen, pointer, cache, lastShot, taken>>

Repaint(s) ==
    /\ \/ \E c \in Contents : screen' = [screen EXCEPT ![s] = c] /\ UNCHANGED pointer
       \/ \E p \in Positions : pointer' = [pointer EXCEPT ![s] = p] /\ UNCHANGED screen
    /\ UNCHANGED <<cache, lastShot, shot, taken>>

ShotInit ==
    /\ screen \in [Peers -> Contents]
    /\ pointer = [s \in Peers |-> 0]
    /\ cache = [entries |-> <<>>, last |-> [k \in Keys |-> "none"]]
    /\ lastShot = [s \in Peers |-> [k \in Keys |-> NoFrame]]
    /\ shot = [s \in Peers |-> Idle]
    /\ taken = [s \in Peers |-> 0]

ShotNext ==
    \E s \in Peers :
        \/ \E params \in Settings, dedup \in BOOLEAN : Ask(s, params, dedup)
        \/ Answer(s) \/ Fail(s) \/ Unmodified(s) \/ Modified(s) \/ Finish(s) \/ Repaint(s)

ShotSpec == ShotInit /\ [][ShotNext]_shotVars

--------------------------------------------------------------------------------
(* Properties.                                                                 *)

\* A screenshot shows what the session's screen showed when the runtime captured it, in
\* the encoding that was asked for, whether the pixels came over the wire, from the
\* session's own last frame or from a frame another session has put in the cache and the
\* cache may have dropped since.
DedupFaithful ==
    \A s \in Peers : shot[s].pc = "returned" =>
        /\ shot[s].out.params = shot[s].params
        /\ shot[s].out.hash = shot[s].truth.hash

\* "so candidate() stays honest": the candidate of a key is in the cache, through puts,
\* touches and evictions by sessions that use other keys, and the cache stays in its limit.
CandidateHonest ==
    /\ Len(cache.entries) <= MaxEntries
    /\ \A k \in Keys : cache.last[k] # "none" => Candidate(k) # NoFrame

\* "cache the frame WITHOUT the per-reply fields" (client.py:1792): the pointer of a
\* screenshot is where the session's pointer was, if it is told at all.  The code keeps the
\* pointer in the cached frame, and a not_modified that has none gives the cached one.
PointerIsFresh ==
    \A s \in Peers : shot[s].pc = "returned" =>
        shot[s].out.pointer \in {-1, shot[s].truth.pointer}

\* The conditional screenshot returns what the screen showed, and offers no hash that it could
\* not redeem.
ShotsSound == DedupFaithful /\ CandidateHonest
================================================================================
