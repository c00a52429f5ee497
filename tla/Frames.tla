--------------------------------- MODULE Frames ---------------------------------
(***************************************************************************)
(* The screencast side of the Python SDK (sdk/python/src/shinken/          *)
(* client.py): the frame queues of the sessions of one event loop, with    *)
(* the sentinels that end a stream, the drop of the oldest frame at a      *)
(* queue's limit, the byte budget all queues of the loop share, and the    *)
(* calls that start, stop, read and close.                                 *)
(*                                                                         *)
(* Everything runs on the loop's thread, so a step is what a coroutine or  *)
(* the reader does between two awaits.  The runtime is external; a stream  *)
(* it has stopped may still send one frame it was about to send.           *)
(***************************************************************************)
EXTENDS Integers, Sequences, FiniteSets, FiniteSetsExt, SequencesExt

CONSTANTS
    Sessions,       \* sessions of one event loop
    Sizes,          \* resident sizes of a frame
    QueueMax,       \* _FRAME_QUEUE_MAX
    Budget,         \* GLOBAL_FRAME_BUDGET_BYTES
    CompactMin,     \* length of `order` above which it is compacted
    CompactFactor,  \* when it outnumbers the live frames by this factor
    MaxFrames,      \* bound of the exploration: frames sent to a session
    MaxStarts,      \* bound of the exploration: starts on a session
    MaxWire         \* bound of the exploration: messages under way

ASSUME BoundsAssumption ==
    /\ Sizes \subseteq Nat
    /\ {QueueMax, CompactFactor, MaxWire} \subseteq Nat \ {0}
    /\ {Budget, CompactMin, MaxFrames, MaxStarts} \subseteq Nat

VARIABLES
    loop,      \* the queues of the loop's sessions and their accounting
    up,        \* the connection
    wire,      \* messages of the runtime the reader has not taken
    casting,   \* the runtime runs a stream for the session
    trailing,  \* a stream it has stopped may send one frame more
    sent,      \* frames sent so far
    starts,    \* starts so far
    call,      \* what start_screencast or stop_screencast of a session waits for
    reading,   \* the reader task runs
    closing,   \* close(): "open", "cancelled", "closed"
    told,      \* the consumer has been given a sentinel, or has thrown it away by a start
    evicted    \* the budget has evicted a sentinel

runtimeVars == <<up, wire, casting, trailing, sent, starts>>
sessionVars == <<call, reading, closing>>
vars == <<loop, runtimeVars, sessionVars, told, evicted>>

--------------------------------------------------------------------------------
(* The queues of a loop.  `loop` has, per session, `frames`, the asyncio.Queue, *)
(* and `queued`, the sizes of the frames in it; and for the loop `used` and     *)
(* `count`, bytes and frames in all queues, and `order`, one session for every  *)
(* frame that was pushed.                                                       *)

Frame(size) == [kind |-> "frame", size |-> size]
End == [kind |-> "END", size |-> 0]
Lost == [kind |-> "LOST", size |-> 0]

FramesOf(items) == SelectSeq(items, LAMBDA i : i.kind = "frame")
SentinelsOf(items) == SelectSeq(items, LAMBDA i : i.kind # "frame")

SumOf(sizes) == FoldSeq(LAMBDA x, y : x + y, 0, sizes)

Drop(seq, n) == SubSeq(seq, n + 1, Len(seq))

Empty == [frames |-> [s \in Sessions |-> <<>>], queued |-> [s \in Sessions |-> <<>>],
          used |-> 0, count |-> 0, order |-> <<>>]

\* The queue is popped n times, and each frame among the items is taken off the books.
PopUnaccounted(b, s, n) ==
    [b EXCEPT !.frames[s] = Drop(@, n),
              !.queued[s] = Drop(@, Len(FramesOf(SubSeq(b.frames[s], 1, n))))]

Pop(b, s, n) ==
    LET k == Len(FramesOf(SubSeq(b.frames[s], 1, n))) IN
    [b EXCEPT !.frames[s] = Drop(@, n),
              !.queued[s] = Drop(@, k),
              !.used = @ - SumOf(SubSeq(b.queued[s], 1, k)),
              !.count = @ - k]

\* _clear_frames
Cleared(b, s) == Pop(b, s, Len(b.frames[s]))

\* _evict_over_budget, first: entries at the head whose session holds no frame.
HeadDrained(b) ==
    LET kept == {i \in 1 .. Len(b.order) : b.queued[b.order[i]] # <<>>} IN
    [b EXCEPT !.order = Drop(@, IF kept = {} THEN Len(@) ELSE Min(kept) - 1)]

\* Then entries are taken one by one.  Each drops the oldest item of its session, if the
\* session holds a frame at all: after n entries, those are the items up to ...
Entries(b, s, n) == Cardinality({i \in 1 .. n : b.order[i] = s})

LastFrame(b, s) == Max({0} \cup {i \in 1 .. Len(b.frames[s]) : b.frames[s][i].kind = "frame"})

Doomed(b, s, n) == Min({Entries(b, s, n), LastFrame(b, s)})

Freed(b, n) ==
    FoldSet(LAMBDA s, x : x + SumOf([i \in 1 .. Doomed(b, s, n) |-> b.frames[s][i].size]), 0, Sessions)

\* ... until the budget holds.
Taken(b) ==
    Min({Len(b.order)} \cup {n \in 0 .. Len(b.order) : b.used - Freed(b, n) <= Budget})

Evicted(b) ==
    LET n == Taken(b) IN
    FoldSet(LAMBDA s, c : Pop(c, s, Doomed(b, s, n)), [b EXCEPT !.order = Drop(@, n)], Sessions)

Overgrown(b) == Len(b.order) > CompactMin /\ Len(b.order) > CompactFactor * b.count

OrderAt(b, kept) == [i \in 1 .. Cardinality(kept) |-> b.order[SetToSortSeq(kept, <)[i]]]

\* A session keeps as many entries as it has frames, the first ones.
Compacted(b) ==
    LET live == {i \in 1 .. Len(b.order) : Entries(b, b.order[i], i) <= Len(b.queued[b.order[i]])} IN
    IF Overgrown(b) THEN [b EXCEPT !.order = OrderAt(b, live)] ELSE b

EvictOverBudget(b) == Compacted(Evicted(HeadDrained(b)))

\* _push_frame: a full queue drops its oldest item; a sentinel is not accounted.
Roomy(b, s) == IF Len(b.frames[s]) >= QueueMax THEN Pop(b, s, 1) ELSE b

PushSentinel(b, s, item) == [Roomy(b, s) EXCEPT !.frames[s] = Append(@, item)]

Accounted(b, s, item) ==
    [Roomy(b, s) EXCEPT !.frames[s] = Append(@, item),
                        !.queued[s] = Append(@, item.size),
                        !.used = @ + item.size,
                        !.count = @ + 1,
                        !.order = Append(@, s)]

PushFrame(b, s, item) == EvictOverBudget(Accounted(b, s, item))

\* The sentinels the budget takes with it when this frame is pushed.
SentinelDoomed(b, s, item) ==
    LET c == HeadDrained(Accounted(b, s, item)) IN
    \E t \in Sessions : \E i \in 1 .. Doomed(c, t, Taken(c)) : c.frames[t][i].kind # "frame"

--------------------------------------------------------------------------------
(* The runtime, as this side sees it: it answers in order.                      *)

Emit(s, size) ==
    /\ up[s] /\ sent[s] < MaxFrames /\ Len(wire[s]) < MaxWire
    /\ casting[s] \/ trailing[s]
    /\ trailing' \in {[trailing EXCEPT ![s] = FALSE]} \cup IF casting[s] THEN {trailing} ELSE {}
    /\ wire' = [wire EXCEPT ![s] = Append(@, Frame(size))]
    /\ sent' = [sent EXCEPT ![s] = @ + 1]
    /\ UNCHANGED <<loop, up, casting, starts, sessionVars, told, evicted>>

\* A start, or a stop: the running capture is aborted, then the request is answered.  A
\* refused start has aborted it too.
Serve(s) ==
    /\ up[s] /\ call[s] \in {"start", "stop"} /\ Len(wire[s]) < MaxWire
    /\ trailing' = [trailing EXCEPT ![s] = @ \/ casting[s]]
    /\ casting' \in {[casting EXCEPT ![s] = ok] : ok \in {call[s] = "start", FALSE}}
    /\ wire' = [wire EXCEPT ![s] = Append(@, [kind |-> "reply", size |-> 0])]
    /\ call' = [call EXCEPT ![s] = IF @ = "start" THEN "starting" ELSE "stopping"]
    /\ UNCHANGED <<loop, up, sent, starts, reading, closing, told, evicted>>

Lose(s) ==
    /\ up[s]
    /\ up' = [up EXCEPT ![s] = FALSE]
    /\ casting' = [casting EXCEPT ![s] = FALSE]
    /\ trailing' = [trailing EXCEPT ![s] = FALSE]
    /\ UNCHANGED <<loop, wire, sent, starts, sessionVars, told, evicted>>

--------------------------------------------------------------------------------
(* The reader.                                                                  *)

Waiting(s) == call[s] # "none"

Starting(s) == call[s] \in {"start", "starting"}

\* _dispatch of a stream frame
TakeFrame(s) ==
    /\ reading[s] /\ wire[s] # <<>> /\ Head(wire[s]).kind = "frame"
    /\ loop' = PushFrame(loop, s, Head(wire[s]))
    /\ evicted' = (evicted \/ SentinelDoomed(loop, s, Head(wire[s])))
    /\ wire' = [wire EXCEPT ![s] = Tail(@)]
    /\ UNCHANGED <<up, casting, trailing, sent, starts, sessionVars, told>>

\* The queue of a stop is emptied and ended, whatever became of the request.
Stopped(b, s) == PushSentinel(Cleared(b, s), s, End)

\* The reply of a start or a stop, and the rest of astart_screencast, astop_screencast.
TakeReply(s) ==
    /\ reading[s] /\ wire[s] # <<>> /\ Head(wire[s]).kind = "reply"
    /\ loop' = IF call[s] \in {"stop", "stopping"} THEN Stopped(loop, s) ELSE loop
    /\ call' = [call EXCEPT ![s] = "none"]
    /\ wire' = [wire EXCEPT ![s] = Tail(@)]
    /\ UNCHANGED <<up, casting, trailing, sent, starts, reading, closing, told, evicted>>

\* The call ends without its reply: it timed out, or the connection is gone.
CallFails(s) ==
    /\ Waiting(s)
    /\ loop' = IF Starting(s) THEN loop ELSE Stopped(loop, s)
    /\ call' = [call EXCEPT ![s] = "none"]
    /\ UNCHANGED <<runtimeVars, reading, closing, told, evicted>>

LostPushed(s) == PushSentinel(loop, s, Lost)

\* _read_loop ends: the connection is over and drained, or close() has cancelled it.
ReaderEnds(s) ==
    /\ reading[s]
    /\ closing[s] = "cancelled" \/ (~up[s] /\ wire[s] = <<>>)
    /\ reading' = [reading EXCEPT ![s] = FALSE]
    /\ loop' = LostPushed(s)
    /\ UNCHANGED <<runtimeVars, call, closing, told, evicted>>

--------------------------------------------------------------------------------
(* The session's calls.                                                         *)

\* astart_screencast, and aresume_screencast, which asks the runtime to go on with an old
\* stream.  The queue is cleared before the request, and before the session is found closed
\* or the connection dead.
Start(s) ==
    /\ ~Waiting(s) /\ starts[s] < MaxStarts
    /\ loop' = Cleared(loop, s)
    /\ told' = [told EXCEPT ![s] = TRUE]
    /\ call' = IF up[s] /\ closing[s] = "open" THEN [call EXCEPT ![s] = "start"] ELSE call
    /\ starts' = [starts EXCEPT ![s] = @ + 1]
    /\ UNCHANGED <<up, wire, casting, trailing, sent, reading, closing, evicted>>

\* astop_screencast: a request that cannot be made ends the stream on this side at once.
Stop(s) ==
    /\ ~Waiting(s)
    /\ IF up[s] /\ closing[s] = "open"
       THEN call' = [call EXCEPT ![s] = "stop"] /\ UNCHANGED loop
       ELSE loop' = Stopped(loop, s) /\ UNCHANGED call
    /\ UNCHANGED <<runtimeVars, reading, closing, told, evicted>>

\* next_frame, which works on a closed session too
NextFrame(s) ==
    /\ loop.frames[s] # <<>>
    /\ told' = [told EXCEPT ![s] = @ \/ Head(loop.frames[s]).kind # "frame"]
    /\ loop' = Pop(loop, s, 1)
    /\ UNCHANGED <<runtimeVars, call, reading, closing, evicted>>

\* close(): the flag and the cancelled reader; then, once it has ended, the socket and
\* the queue, in which only sentinels are left.
Close(s) ==
    /\ closing[s] = "open"
    /\ closing' = [closing EXCEPT ![s] = "cancelled"]
    /\ UNCHANGED <<loop, runtimeVars, call, reading, told, evicted>>

OnlySentinels(b, s) == [Cleared(b, s) EXCEPT !.frames[s] = SentinelsOf(b.frames[s])]

CloseSocket(s) ==
    /\ closing[s] = "cancelled" /\ ~reading[s]
    /\ closing' = [closing EXCEPT ![s] = "closed"]
    /\ up' = [up EXCEPT ![s] = FALSE]
    /\ wire' = [wire EXCEPT ![s] = <<>>]
    /\ casting' = [casting EXCEPT ![s] = FALSE]
    /\ trailing' = [trailing EXCEPT ![s] = FALSE]
    /\ loop' = OnlySentinels(loop, s)
    /\ UNCHANGED <<sent, starts, call, reading, told, evicted>>

Init ==
    /\ loop = Empty
    /\ up = [s \in Sessions |-> TRUE]
    /\ wire = [s \in Sessions |-> <<>>]
    /\ casting = [s \in Sessions |-> FALSE]
    /\ trailing = [s \in Sessions |-> FALSE]
    /\ sent = [s \in Sessions |-> 0]
    /\ starts = [s \in Sessions |-> 0]
    /\ call = [s \in Sessions |-> "none"]
    /\ reading = [s \in Sessions |-> TRUE]
    /\ closing = [s \in Sessions |-> "open"]
    /\ told = [s \in Sessions |-> FALSE]
    /\ evicted = FALSE

Runtime(s) == Serve(s) \/ Lose(s) \/ \E size \in Sizes : Emit(s, size)

Reader(s) == TakeFrame(s) \/ TakeReply(s) \/ ReaderEnds(s)

Session(s) ==
    \/ Start(s) \/ Stop(s) \/ CallFails(s)
    \/ NextFrame(s) \/ Close(s) \/ CloseSocket(s)

Next == \E s \in Sessions : Runtime(s) \/ Reader(s) \/ Session(s)

FrameSpec == Init /\ [][Next]_vars

--------------------------------------------------------------------------------
(* Properties.                                                                 *)

\* The books of the loop agree with its queues, through drops at the limit, evictions out
\* of other sessions' queues, clears and closes: `_queued_bytes` parallels the frames of a
\* queue, `used` and `frames` add up over the sessions.
BooksBalance ==
    /\ \A s \in Sessions :
          /\ Len(loop.frames[s]) <= QueueMax
          /\ loop.queued[s] = [i \in 1 .. Len(FramesOf(loop.frames[s])) |->
                                  FramesOf(loop.frames[s])[i].size]
          /\ closing[s] = "closed" => loop.queued[s] = <<>>
    /\ loop.used = FoldSet(LAMBDA s, x : x + SumOf(loop.queued[s]), 0, Sessions)
    /\ loop.count = FoldSet(LAMBDA s, x : x + Len(loop.queued[s]), 0, Sessions)

\* The budget holds, and can go on to hold: the order, drained at its head and compacted in
\* its middle, holds stale entries, and still one for every frame that is queued.
BudgetHolds ==
    \/ evicted
    \/ /\ loop.used <= Budget
       /\ \A s \in Sessions : Entries(loop, s, Len(loop.order)) >= Len(loop.queued[s])

\* "sentinels are never accounted and never evicted by the budget" (client.py:788).  The
\* code does not keep this: frames that follow an END make their entry evict the END.
SentinelsNeverEvicted == ~evicted

\* "silent truncation is distinguishable from a normal end": when the reader is gone, a
\* consumer that has not been told how the stream ended finds a sentinel in its queue,
\* after close() too, unless it has itself cleared the queue by a start.
LostIsTold ==
    \A s \in Sessions : ~reading[s] => told[s] \/ SentinelsOf(loop.frames[s]) # <<>>

\* The frame queues of a loop: the books are those of the queues, the budget is kept, and a
\* consumer is told that its connection is gone.
FramesSound == BooksBalance /\ BudgetHolds /\ LostIsTold
================================================================================
