-------------------------------- MODULE Captures --------------------------------
(***************************************************************************)
(* What a screencast captures and sends (src/shinkend/src/main.rs, the     *)
(* full-frame and the delta loop; src/shinkend/src/executor.rs, the damage *)
(* log, the damage tracker and DeltaState): the XDamage events that say    *)
(* when a capture can be skipped, the log several streams read with their  *)
(* own cursors, the damage a stream still owes its client, and the         *)
(* baseline against which it sends tiles.                                  *)
(*                                                                         *)
(* The screen is a row of tiles, a rectangle an interval of them.  The     *)
(* X server is external: it serves the requests of the damage connection   *)
(* and of the capture connection in an order of its own.  A frame that the *)
(* writer channel takes reaches the client, who composes what it gets.     *)
(***************************************************************************)
EXTENDS Integers, Sequences

CONSTANTS
    Streams,           \* screencasts
    DeltaStreams,      \* those of them that asked for deltas
    Width,             \* tiles of the screen
    Pixels,            \* contents of a tile
    Blank,             \* the content of a tile nobody has seen
    RingMax,           \* DAMAGE_RING_MAX
    KeyframeInterval,  \* KEYFRAME_INTERVAL
    InOrder,           \* the server serves a damage_subtract before a later GetImage
    MaxDraws,          \* bound of the exploration: changes of the screen
    MaxReconnects      \* bound of the exploration: X server restarts that are healed

ASSUME StreamsAssumption == DeltaStreams \subseteq Streams
ASSUME BlankAssumption == Blank \notin Pixels
ASSUME BoundsAssumption ==
    /\ {Width, RingMax, KeyframeInterval} \subseteq Nat \ {0}
    /\ {MaxDraws, MaxReconnects} \subseteq Nat
    /\ InOrder \in BOOLEAN

Tiles == 1 .. Width

Unseen == [t \in Tiles |-> Blank]

VARIABLES
    screen,      \* tile -> what the display shows
    draws,       \* changes so far
    reconnects,  \* connections healed so far
    region,      \* the server's damage region: tiles reported and not subtracted since
    notified,    \* tiles in DamageNotify events the tracker has not read
    subtracting, \* a damage_subtract is on its way
    epoch, base, ring,  \* DamageLog
    broken,      \* DamageTracker::broken
    at,          \* the loop of a stream: "off", "idle", "queried", "captured"
    cursor,      \* the epoch the stream has captured
    pending,     \* PendingDamage: tiles to capture; all of them for Full
    known,       \* whether `pending` is a Region (compare Full)
    prev,        \* the last delivered frame; None is a row of Blank
    since_key,   \* DeltaState::since_key
    shot,        \* the frame captured in this tick
    view         \* what the client of the stream has composed

xVars == <<screen, draws, reconnects, region, notified, subtracting>>
logVars == <<epoch, base, ring, broken>>
loopVars == <<at, cursor, pending, known, prev, since_key, shot>>
vars == <<xVars, logVars, loopVars, view>>

--------------------------------------------------------------------------------
(* The damage log.                                                             *)

\* union_rect: the bounding box
Hull(S) == {t \in Tiles : \E a, b \in S : a <= t /\ t <= b}

\* DamageLog::record keeps the last RingMax batches; `base` is the last one evicted.
Record(rect) ==
    /\ epoch' = epoch + 1
    /\ ring' = IF Len(ring) < RingMax THEN Append(ring, rect) ELSE Append(Tail(ring), rect)
    /\ base' = IF Len(ring) < RingMax THEN base ELSE base + 1

\* DamageTracker::poll: read the events there are, log their union, empty the region.
Poll ==
    IF broken \/ notified = {}
    THEN UNCHANGED <<epoch, base, ring, notified, subtracting>>
    ELSE /\ Record(Hull(notified))
         /\ notified' = {}
         /\ subtracting' = TRUE

\* The log after the poll of this step: the batch of epoch e, and what came after c.
Batch(e) == ring'[e - base']

Since(c) == Hull(UNION {Batch(e) : e \in (c + 1) .. epoch'})

Verdict(c) ==
    IF broken THEN "full"
    ELSE IF c >= epoch' THEN "clean"
    ELSE IF c < base' THEN "full" ELSE "region"

--------------------------------------------------------------------------------
(* The display.                                                                *)

\* With DELTA_RECTANGLES only tiles outside the region are reported.
Draw(t, p) ==
    /\ draws < MaxDraws
    /\ draws' = draws + 1
    /\ screen' = [screen EXCEPT ![t] = p]
    /\ region' = region \cup {t}
    /\ notified' = IF t \in region THEN notified ELSE notified \cup {t}
    /\ UNCHANGED <<reconnects, subtracting, logVars, loopVars, view>>

ServeSubtract ==
    /\ subtracting
    /\ region' = {}
    /\ subtracting' = FALSE
    /\ UNCHANGED <<screen, draws, reconnects, notified, logVars, loopVars, view>>

\* A poll meets an X error: from now on every answer is Full.
TrackerBreaks ==
    /\ ~broken
    /\ broken' = TRUE
    /\ UNCHANGED <<xVars, epoch, base, ring, loopVars, view>>

\* LazyX11Executor: readiness() drops a dead connection and the next call dials a new
\* display, with a new tracker and a new log.
Reconnect ==
    /\ reconnects < MaxReconnects
    /\ reconnects' = reconnects + 1
    /\ screen' \in [Tiles -> Pixels]
    /\ region' = {} /\ notified' = {} /\ subtracting' = FALSE
    /\ epoch' = 0 /\ base' = 0 /\ ring' = <<>> /\ broken' = FALSE
    /\ UNCHANGED <<draws, loopVars, view>>

--------------------------------------------------------------------------------
(* A stream: one tick is Query, Capture, Send.                                 *)

\* The loop is spawned: damage_cursor(), an empty baseline, and Full.
StartStream(s) ==
    /\ at[s] = "off"
    /\ Poll
    /\ cursor' = [cursor EXCEPT ![s] = epoch']
    /\ pending' = [pending EXCEPT ![s] = Tiles]
    /\ known' = [known EXCEPT ![s] = FALSE]
    /\ prev' = [prev EXCEPT ![s] = Unseen]
    /\ since_key' = [since_key EXCEPT ![s] = 0]
    /\ view' = [view EXCEPT ![s] = Unseen]
    /\ at' = [at EXCEPT ![s] = "idle"]
    /\ UNCHANGED <<screen, draws, reconnects, region, broken, shot>>

\* The task is aborted, or its capture failed: what it held is gone.
Stop(s) ==
    /\ at[s] # "off"
    /\ at' = [at EXCEPT ![s] = "off"]
    /\ cursor' = [cursor EXCEPT ![s] = 0]
    /\ pending' = [pending EXCEPT ![s] = {}]
    /\ known' = [known EXCEPT ![s] = FALSE]
    /\ prev' = [prev EXCEPT ![s] = Unseen]
    /\ since_key' = [since_key EXCEPT ![s] = 0]
    /\ shot' = [shot EXCEPT ![s] = Unseen]
    /\ view' = [view EXCEPT ![s] = Unseen]
    /\ UNCHANGED <<xVars, logVars>>

\* advance_damage: damage_since(cursor), and the verdict merges into what is pending.
Merge(s) ==
    CASE Verdict(cursor[s]) = "clean" -> UNCHANGED <<pending, known>>
      [] Verdict(cursor[s]) = "full" ->
            pending' = [pending EXCEPT ![s] = Tiles] /\ known' = [known EXCEPT ![s] = FALSE]
      [] OTHER -> /\ pending' = [pending EXCEPT ![s] = Hull(@ \cup Since(cursor[s]))]
                  /\ known' = [known EXCEPT ![s] = @ \/ pending[s] = {}]

Query(s) ==
    /\ at[s] = "idle"
    /\ Poll
    /\ Merge(s)
    /\ cursor' = [cursor EXCEPT ![s] = epoch']
    /\ at' = [at EXCEPT ![s] = IF pending'[s] = {} THEN "idle" ELSE "queried"]
    /\ UNCHANGED <<screen, draws, reconnects, region, broken, prev, since_key, shot, view>>

NoBaseline(s) == prev[s] = Unseen

\* delta_capture: the region composed onto the baseline, or all of the screen.
Frame(s) ==
    IF s \in DeltaStreams /\ known[s] /\ ~NoBaseline(s)
    THEN [t \in Tiles |-> IF t \in pending[s] THEN screen[t] ELSE prev[s][t]]
    ELSE screen

Capture(s) ==
    /\ at[s] = "queried"
    /\ InOrder => ~subtracting
    /\ shot' = [shot EXCEPT ![s] = Frame(s)]
    /\ at' = [at EXCEPT ![s] = "captured"]
    /\ UNCHANGED <<xVars, logVars, cursor, pending, known, prev, since_key, view>>

\* The frame equals the delivered one: the damage was visually nothing.
Suppress(s) ==
    /\ at[s] = "captured" /\ shot[s] = prev[s]
    /\ pending' = [pending EXCEPT ![s] = {}]
    /\ known' = [known EXCEPT ![s] = FALSE]
    /\ at' = [at EXCEPT ![s] = "idle"]
    /\ shot' = [shot EXCEPT ![s] = Unseen]
    /\ UNCHANGED <<xVars, logVars, cursor, prev, since_key, view>>

\* DeltaState::tick: a keyframe, or the tiles that differ from the baseline.
IsKey(s) == s \notin DeltaStreams \/ NoBaseline(s) \/ since_key[s] >= KeyframeInterval - 1

Compose(s) ==
    IF IsKey(s) THEN shot[s]
    ELSE [t \in Tiles |-> IF shot[s][t] # prev[s][t] THEN shot[s][t] ELSE view[s][t]]

\* try_send took the frame: baseline, cadence and pending move.
Sent(s) ==
    /\ at[s] = "captured" /\ shot[s] # prev[s]
    /\ view' = [view EXCEPT ![s] = Compose(s)]
    /\ prev' = [prev EXCEPT ![s] = shot[s]]
    /\ since_key' = [since_key EXCEPT ![s] = IF IsKey(s) THEN 0 ELSE @ + 1]
    /\ pending' = [pending EXCEPT ![s] = {}]
    /\ known' = [known EXCEPT ![s] = FALSE]
    /\ at' = [at EXCEPT ![s] = "idle"]
    /\ shot' = [shot EXCEPT ![s] = Unseen]
    /\ UNCHANGED <<xVars, logVars, cursor>>

\* A loop that takes a dropped frame for delivered: its damage, or its pixels.
ForgetPending(s) ==
    pending' = [pending EXCEPT ![s] = {}] /\ known' = [known EXCEPT ![s] = FALSE]

CommitDropped(s) == prev' = [prev EXCEPT ![s] = shot[s]]

KeepPending(s) == UNCHANGED <<pending, known>>

KeepBaseline(s) == UNCHANGED prev

\* The channel is full: the frame is dropped and nothing it brought counts as delivered.
Dropped(s) ==
    /\ at[s] = "captured" /\ shot[s] # prev[s]
    /\ KeepPending(s)
    /\ KeepBaseline(s)
    /\ at' = [at EXCEPT ![s] = "idle"]
    /\ shot' = [shot EXCEPT ![s] = Unseen]
    /\ UNCHANGED <<xVars, logVars, cursor, since_key, view>>

--------------------------------------------------------------------------------
Init ==
    /\ screen \in [Tiles -> Pixels]
    /\ draws = 0 /\ reconnects = 0
    /\ region = {} /\ notified = {} /\ subtracting = FALSE
    /\ epoch = 0 /\ base = 0 /\ ring = <<>> /\ broken = FALSE
    /\ at = [s \in Streams |-> "off"]
    /\ cursor = [s \in Streams |-> 0]
    /\ pending = [s \in Streams |-> {}]
    /\ known = [s \in Streams |-> FALSE]
    /\ prev = [s \in Streams |-> Unseen]
    /\ since_key = [s \in Streams |-> 0]
    /\ shot = [s \in Streams |-> Unseen]
    /\ view = [s \in Streams |-> Unseen]

Display ==
    \/ \E t \in Tiles, p \in Pixels : Draw(t, p)
    \/ ServeSubtract \/ TrackerBreaks

CaptureLoop(s) == Query(s) \/ Capture(s) \/ Suppress(s) \/ Sent(s) \/ Dropped(s)

Next ==
    \/ Display
    \/ \E s \in Streams : CaptureLoop(s) \/ Stop(s) \/ StartStream(s)

\* With the X server restarting under streams that run on.
HealingNext == Next \/ Reconnect

(* The interval ticks, blocking captures return, the X server serves requests,  *)
(* and a client that reads makes room in the channel again and again.           *)
Fairness ==
    /\ WF_vars(ServeSubtract)
    /\ \A s \in Streams : /\ WF_vars(Query(s)) /\ WF_vars(Capture(s))
                          /\ WF_vars(Suppress(s)) /\ SF_vars(Sent(s))

CaptureSafety == Init /\ [][Next]_vars
CaptureSpec == CaptureSafety /\ Fairness
HealingSafety == Init /\ [][HealingNext]_vars

--------------------------------------------------------------------------------
(* Properties.                                                                 *)

Frames == [Tiles -> Pixels \cup {Blank}]

\* Every variable has its type, the ring its bound.
TypeOK ==
    /\ screen \in [Tiles -> Pixels]
    /\ draws \in 0 .. MaxDraws /\ reconnects \in 0 .. MaxReconnects
    /\ {region, notified} \subseteq SUBSET Tiles /\ subtracting \in BOOLEAN
    /\ {epoch, base} \subseteq Nat /\ broken \in BOOLEAN
    /\ ring \in Seq(SUBSET Tiles) /\ Len(ring) <= RingMax /\ epoch = base + Len(ring)
    /\ at \in [Streams -> {"off", "idle", "queried", "captured"}]
    /\ known \in [Streams -> BOOLEAN]
    /\ cursor \in [Streams -> Nat]
    /\ pending \in [Streams -> SUBSET Tiles]
    /\ {prev, shot, view} \subseteq [Streams -> Frames]
    /\ since_key \in [Streams -> 0 .. KeyframeInterval - 1]

\* Something will still make stream s capture tile t: an unread event, a batch after its
\* cursor, a cursor the ring has lost, a broken tracker, or damage it has not delivered.
OwedTiles(s, t) ==
    \/ broken \/ t \in pending[s] \/ t \in Hull(notified) \/ cursor[s] < base
    \/ \E e \in (cursor[s] + 1) .. epoch : e > base /\ t \in ring[e - base]

\* "so a change can never be skipped": whatever events are merged, subtracted while others
\* are in flight, evicted from the ring, drained by another stream or dropped on a full
\* channel, a tile the client shows wrongly is one its stream is still bound to capture.
ChangeNeverSkipped ==
    \A s \in Streams, t \in Tiles :
        at[s] # "off" /\ view[s][t] # screen[t] => OwedTiles(s, t)

\* The baseline moves with delivery alone: tiles are cut against what the client has.
BaselineIsView == \A s \in Streams : at[s] # "off" => prev[s] = view[s]

\* A frame on its way that differs from the screen outside what is still owed would make
\* the client wrong for good once it is sent: a composed region capture never does.
ComposedFrameSound ==
    \A s \in Streams, t \in Tiles :
        at[s] = "captured" /\ shot[s][t] # screen[t] =>
            broken \/ t \in Hull(notified) \/ cursor[s] < base
                \/ \E e \in (cursor[s] + 1) .. epoch : e > base /\ t \in ring[e - base]

\* "or its tiles would be treated as already delivered and the client's view would stay
\* stale forever": once the screen is still, every running stream shows it.
ViewConverges ==
    \A s \in Streams : []<>(at[s] = "off" \/ view[s] = screen \/ draws < MaxDraws)

\* The delta state of a stream (DeltaState): its baseline is what the client shows, and a frame
\* put together from a region is a frame the screen has shown.
DeltaSound == TypeOK /\ BaselineIsView /\ ComposedFrameSound
================================================================================
