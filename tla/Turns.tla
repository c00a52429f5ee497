-------------------------------- MODULE Turns --------------------------------
(***************************************************************************)
(* operator.drive over a RoutedSession: each turn observes the active      *)
(* surface, asks the agent, and sends its actions one by one to the        *)
(* surface they name.  A failed action stops its batch, and the next       *)
(* observation tells the agent.                                            *)
(*                                                                         *)
(* The surfaces are a desktop ("cu"), whose answers are external, and a    *)
(* browser ("bu", browser_runtime.py), whose references come from its last *)
(* structured observation.  "ghost" is a surface nobody registered.        *)
(***************************************************************************)
EXTENDS Integers, Sequences, FiniteSets

CONSTANTS
  MaxSteps,     \* max_steps of drive
  MaxBatch,     \* bound on the actions of one decision
  Offered       \* the actions the agent may ask for

VARIABLES
  step, total, stopped, feedback,   \* drive: the locals of the loop
  phase,                            \* "observe", "decide", "act", "settle" or "end"
  seen,                             \* what the last observation carried: [from, error]
  batch, done,                      \* the decision being executed
  results,                          \* act_batch: an entry per action dispatched
  active,                           \* RoutedSession._active
  elements,                         \* the browser's references: ref -> has layout bounds
  \* The ledger: what happened, whatever the code says of it.
  acked,        \* actions a surface acknowledged
  owed,         \* the last turn failed and the agent has not been told
  pressed       \* where the last pointer press of the browser went

tvars == <<step, total, stopped, feedback, phase, seen, batch, done, results, active,
           elements, acked, owed, pressed>>

Surfaces == {"cu", "bu"}
Verbs(surface) ==
  IF surface = "bu" THEN {"observe", "screenshot", "click", "type_text", "key", "scroll",
                          "navigate", "eval", "clipboard_get", "clipboard_set"}
  ELSE {"observe", "screenshot", "click", "move", "type_text", "key", "scroll", "exec"}

\* What a page may expose: references, each with layout bounds or without.
Refs == {"r1", "r2"}
Pages == UNION {[rs -> BOOLEAN] : rs \in SUBSET Refs}

TurnInit ==
  /\ step = 0 /\ total = 0 /\ stopped = "no" /\ feedback = FALSE
  /\ phase = "observe" /\ seen = [from |-> "none", error |-> FALSE]
  /\ batch = <<>> /\ done = FALSE /\ results = <<>>
  /\ active \in Surfaces
  /\ elements = <<>> /\ acked = 0 /\ owed = FALSE /\ pressed = "nowhere"

(***************************************************************************)
(* drive.                                                                  *)
(***************************************************************************)
\* The loop ends: at the bound, or by an exception that nothing catches.
End(why) == stopped' = why /\ phase' = "end"

StepsOut ==
  /\ phase = "observe" /\ step = MaxSteps
  /\ End("max_steps")
  /\ UNCHANGED <<step, total, feedback, seen, batch, done, results, active, elements, acked,
                 owed, pressed>>

\* A turn begins with an observation of the active surface; the error of the turn
\* before is merged into it and forgotten.
Observe ==
  /\ phase = "observe" /\ step < MaxSteps
  /\ active \in Surfaces
  /\ step' = step + 1
  /\ seen' = [from |-> active, error |-> feedback]
  /\ feedback' = FALSE /\ owed' = (owed /\ ~feedback)
  /\ phase' = "decide"
  /\ \/ active = "bu" /\ elements' \in Pages      \* structured=True
     \/ UNCHANGED elements
  /\ UNCHANGED <<total, stopped, batch, done, results, active, acked, pressed>>

\* The observation raises: the surface is not registered, or it fails.
ObserveRaises ==
  /\ phase = "observe" /\ step < MaxSteps
  /\ step' = step + 1
  /\ End("raised")
  /\ UNCHANGED <<total, feedback, seen, batch, done, results, active, elements, acked, owed,
                 pressed>>

\* The model's output does not parse: a lesson for the next turn, not a crash.
Unparsed ==
  /\ phase = "decide"
  /\ feedback' = TRUE /\ owed' = TRUE
  /\ phase' = "observe"
  /\ UNCHANGED <<step, total, stopped, seen, batch, done, results, active, elements, acked,
                 pressed>>

Decide ==
  /\ phase = "decide"
  /\ batch' \in UNION {[1 .. n -> Offered] : n \in 0 .. MaxBatch}
  /\ done' \in BOOLEAN
  /\ results' = <<>>
  /\ phase' = IF batch' = <<>> THEN "settle" ELSE "act"
  /\ UNCHANGED <<step, total, stopped, feedback, seen, active, elements, acked, owed, pressed>>

(***************************************************************************)
(* RoutedSession.act_batch and dispatch_action.                            *)
(***************************************************************************)
\* _route: the surface an action names; navigate and eval imply the browser.
Route(action) ==
  CASE action.surface # "none" -> action.surface
    [] action.surface = "none" /\ action.verb \in {"navigate", "eval"} -> "bu"
    [] OTHER -> active

\* double_click and right_click are clicks; move is not.
Base(verb) == IF verb \in {"double_click", "right_click"} THEN "click" ELSE verb

Advertised(surface, verb) == verb \in Verbs(surface) \/ Base(verb) \in Verbs(surface)

\* A reference the browser can click: in the last structured observation, with bounds.
Bounded(ref) == ref \in DOMAIN elements /\ elements[ref]

\* Whether an action can be carried out at all; what is left is up to the surface.
Possible(surface, action) ==
  /\ surface \in Surfaces
  /\ Advertised(surface, action.verb)
  /\ action.verb \notin {"done", "wait"} => Base(action.verb) \in Verbs(surface)
  /\ surface = "bu" /\ Base(action.verb) = "click" =>
       action.target = "point" \/ (action.target \in Refs /\ Bounded(action.target))

\* Where the pointer of the browser goes.
Lands(surface, action) ==
  CASE surface # "bu" \/ Base(action.verb) # "click" -> pressed
    [] surface = "bu" /\ Base(action.verb) = "click" /\ action.target = "point" -> "point"
    [] OTHER -> IF action.target \in DOMAIN elements /\ elements[action.target]
                  THEN "element" ELSE "corner"

\* A failed action is the last of its batch.
Stops(ok) == ~ok

\* One action: routed (its surface becomes the active one), dispatched, recorded.
Act ==
  /\ phase = "act"
  /\ LET action == batch[Len(results) + 1]
         name == Route(action)
     IN \E ok \in BOOLEAN :
          /\ ok => Possible(name, action)
          /\ active' = name
          /\ results' = Append(results, [ok |-> ok, source |-> name, verb |-> action.verb])
          /\ acked' = IF ok THEN acked + 1 ELSE acked
          /\ pressed' = IF ok THEN Lands(name, action) ELSE pressed
          /\ IF ok /\ name = "bu" /\ action.verb = "observe"
               THEN elements' \in Pages ELSE UNCHANGED elements
          /\ phase' = IF Stops(ok) \/ Len(results') = Len(batch) THEN "settle" ELSE "act"
          /\ owed' = (owed \/ ~ok)
  /\ UNCHANGED <<step, total, stopped, feedback, seen, batch, done>>

Failed == \E i \in DOMAIN results : ~results[i].ok

\* The actions the surfaces acknowledged, and no others.
Counted == total + Cardinality({i \in DOMAIN results : results[i].ok})

\* Mutant of Lesson: a failed batch leaves no feedback.
LessonLost == feedback

\* A batch that stopped early is the next turn's feedback.
Lesson == feedback \/ Failed

\* The end of a turn: count, remember the failure, stop when done or stuck.
Settle ==
  /\ phase = "settle"
  /\ total' = Counted
  /\ feedback' = Lesson
  /\ CASE done -> End("done")
       [] ~done /\ batch = <<>> /\ ~feedback' -> End("stuck")
       [] OTHER -> phase' = "observe" /\ UNCHANGED stopped
  /\ batch' = <<>> /\ results' = <<>> /\ done' = FALSE
  /\ UNCHANGED <<step, seen, active, elements, acked, owed, pressed>>

Ended == phase = "end" /\ UNCHANGED tvars

TurnNext ==
  \/ StepsOut \/ Observe \/ ObserveRaises \/ Unparsed \/ Decide \/ Act \/ Settle \/ Ended

TurnSpec == TurnInit /\ [][TurnNext]_tvars

-----------------------------------------------------------------------------
\* DriveResult.actions counts what the surfaces acknowledged, "not merely requested".
CountIsHonest == phase \in {"observe", "end"} => total = acked

\* When the agent decides, it has been told of every failure of the turn before, and
\* of none it was told already.
FailureIsTaught == phase = "decide" => ~owed

\* A batch goes no further than its first failure.
StopsAtFailure ==
  \A i \in DOMAIN results : ~results[i].ok => i = Len(results) /\ phase # "act"

\* The browser's pointer goes where the agent asked or to an element of the last
\* structured observation that has bounds, never to the (0, 0) of one without.
NoPhantomPress == pressed # "corner"

\* What the agent is told, what is counted and what is executed agree.
TurnsSound ==
  CountIsHonest /\ FailureIsTaught /\ StopsAtFailure /\ NoPhantomPress

\* routed.py:234 says of an action that raises: "record + stop the batch, never crash
\* the loop".  An action that names a surface nobody registered is recorded, but the
\* surface stays active, and the next turn has nothing to observe.
NeverCrashTheLoop == phase = "observe" => active \in Surfaces
=============================================================================
