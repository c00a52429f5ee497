------------------------------ MODULE Desktops ------------------------------
(***************************************************************************)
(* osworld.py: DesktopEnv, an OSWorld-shaped episode over a session.  An   *)
(* agent answers with a computer_13 action, a control token or a block of  *)
(* pyautogui code, which is translated line by line: a run of keyDown is   *)
(* held back and pressed as one chord, and a drag starts at the pointer    *)
(* the translation remembers.                                              *)
(*                                                                         *)
(* A line is [call, at, key]; points and keys are model values.  The       *)
(* session is external and refuses whatever it likes; a refusal leaves the *)
(* pointer and the keyboard alone.                                         *)
(***************************************************************************)
EXTENDS Integers, Sequences, SequencesExt

CONSTANTS
  Points, Keys,     \* points of the screen, and key names
  MaxSteps,         \* bound on the steps of the client
  MaxLines          \* bound on the lines of a block

VARIABLES
  env,          \* _env is a live session
  terminal,     \* _terminal: "none", "DONE" or "FAIL"
  lastXY,       \* _last_xy: a point or "none"
  screen,       \* _screen_wh is cached
  code,         \* the lines of the block still to run
  running,      \* a block is being translated
  pending,      \* pending_down: the keys held back
  executed,     \* the block has had an effect
  steps,        \* steps taken so far, the bound of the model
  verdict       \* what evaluate() last answered: [passed, evaluated] of this episode

\* The ledger: what happened, whatever the code remembers of it.
VARIABLES
  cursor,       \* where pyautogui would have its pointer: a scroll does not move it
  drags,        \* the last drag: where it began, and where the cursor was
  down,         \* the keys of the keyDown lines of this block
  sent,         \* the chord keys it has pressed
  claimed       \* the agent has said DONE in this episode

xvars == <<env, terminal, lastXY, screen, code, running, pending, executed, steps, verdict,
           cursor, drags, down, sent, claimed>>

Unverified == [passed |-> FALSE, evaluated |-> FALSE]

DesktopInit ==
  /\ env = FALSE /\ terminal = "none" /\ lastXY = "none" /\ screen = FALSE
  /\ code = <<>> /\ running = FALSE /\ pending = <<>> /\ executed = FALSE
  /\ steps = 0 /\ verdict = Unverified
  /\ cursor = "none" /\ drags = <<>> /\ down = <<>> /\ sent = <<>> /\ claimed = FALSE

(***************************************************************************)
(* The episode.                                                            *)
(***************************************************************************)
\* Mutant of Fresh: an episode inherits how the one before ended.
FreshStale == terminal

\* What a new episode starts from.
Fresh == "none"

\* reset: connects if it has to; the pointer it remembers and the screen stay.
Reset ==
  /\ ~running /\ steps < MaxSteps /\ steps' = steps + 1
  /\ env' \in {TRUE, env}                 \* the connect may fail
  /\ IF env' THEN terminal' = Fresh /\ claimed' = FALSE /\ verdict' = Unverified
             ELSE UNCHANGED <<terminal, claimed, verdict>>
  /\ UNCHANGED <<lastXY, screen, code, running, pending, executed, cursor, drags, down, sent>>

\* close: the next reset connects anew.
Shut ==
  /\ ~running /\ env
  /\ env' = FALSE
  /\ UNCHANGED <<terminal, lastXY, screen, code, running, pending, executed, steps, verdict,
                 cursor, drags, down, sent, claimed>>

\* evaluate: a FAIL is a zero; without a checker nothing is verified; else DONE and the
\* checker's answer.
Evaluate ==
  /\ ~running
  /\ \E checker \in {"none", "yes", "no"} :
       verdict' = CASE terminal = "FAIL" -> [passed |-> FALSE, evaluated |-> TRUE]
                    [] terminal # "FAIL" /\ checker = "none" -> Unverified
                    [] OTHER -> [passed |-> terminal = "DONE" /\ checker = "yes", evaluated |-> TRUE]
  /\ UNCHANGED <<env, terminal, lastXY, screen, code, running, pending, executed, steps, cursor,
                 drags, down, sent, claimed>>

\* step("DONE") and step("FAIL"), and their computer_13 forms.
Terminate(token) ==
  /\ env /\ ~running /\ steps < MaxSteps /\ steps' = steps + 1
  /\ terminal' = token
  /\ claimed' = (claimed \/ token = "DONE")
  /\ UNCHANGED <<env, lastXY, screen, code, running, pending, executed, verdict, cursor, drags,
                 down, sent>>

(***************************************************************************)
(* The pointer and the keyboard.                                           *)
(***************************************************************************)
\* A move or any click: the pointer goes to the point, or the session refuses.
Point(p) ==
  \/ cursor' = p /\ lastXY' = p /\ drags' = drags
  \/ UNCHANGED <<cursor, lastXY, drags>>

\* _drag_to: from the pointer that is remembered; none is an error.
DragTo(p) ==
  \/ lastXY # "none" /\ drags' = <<lastXY, cursor>> /\ cursor' = p /\ lastXY' = p
  \/ UNCHANGED <<cursor, lastXY, drags>>

\* _computer13: one typed action, WAIT, TYPING, PRESS and SCROLL among them.
Typed ==
  /\ env /\ ~running /\ steps < MaxSteps /\ steps' = steps + 1
  /\ \/ \E p \in Points : Point(p) \/ DragTo(p)
     \/ UNCHANGED <<cursor, lastXY, drags>>
  /\ UNCHANGED <<env, terminal, screen, code, running, pending, executed, verdict, down, sent,
                 claimed>>

(***************************************************************************)
(* _pyautogui.                                                             *)
(***************************************************************************)
Line(call, at, key) == [call |-> call, at |-> at, key |-> key]
Lines ==
  {Line("keyDown", "none", k) : k \in Keys} \cup {Line("click", p, "none") : p \in Points}
  \cup {Line("dragTo", p, "none") : p \in Points}
  \cup {Line(c, "none", "none") : c \in {"keyUp", "press", "scroll", "comment"}}

StepCode ==
  /\ env /\ ~running /\ steps < MaxSteps /\ steps' = steps + 1
  /\ code' \in UNION {[1 .. n -> Lines] : n \in 1 .. MaxLines}
  /\ running' = TRUE /\ pending' = <<>> /\ executed' = FALSE
  /\ down' = <<>> /\ sent' = <<>>
  /\ UNCHANGED <<env, terminal, lastXY, screen, verdict, cursor, drags, claimed>>

Next1 == code[1]
Advance == running /\ code # <<>> /\ code' = Tail(code)

\* A refusal ends the block: an exception behind the lines that took effect.
Refused ==
  /\ running /\ code # <<>> /\ Next1.call \notin {"keyDown", "comment"}
  /\ code' = <<>> /\ running' = FALSE
  /\ UNCHANGED <<env, terminal, lastXY, screen, pending, executed, steps, verdict, cursor, drags, down,
                 sent, claimed>>

KeyDown ==
  /\ Advance /\ Next1.call = "keyDown"
  /\ pending' = Append(pending, Next1.key)
  /\ down' = Append(down, Next1.key)
  /\ UNCHANGED <<env, terminal, lastXY, screen, running, executed, steps, verdict, cursor, drags,
                 sent, claimed>>

\* The first keyUp presses what is held back as one chord; the others do nothing.
KeyUp ==
  /\ Advance /\ Next1.call = "keyUp"
  /\ sent' = sent \o pending
  /\ executed' = (executed \/ pending # <<>>)
  /\ pending' = <<>>
  /\ UNCHANGED <<env, terminal, lastXY, screen, running, steps, verdict, cursor, drags, down,
                 claimed>>

\* A point in fractions of the screen asks the session for the size once (_to_px, _screen).
Pointer ==
  /\ Advance /\ Next1.call \in {"click", "dragTo"}
  /\ screen' \in {screen, TRUE}
  /\ executed' = TRUE
  /\ IF Next1.call = "click"
       THEN cursor' = Next1.at /\ lastXY' = Next1.at /\ UNCHANGED drags
       ELSE /\ lastXY # "none"
            /\ drags' = <<lastXY, cursor>> /\ cursor' = Next1.at /\ lastXY' = Next1.at
  /\ UNCHANGED <<env, terminal, running, pending, steps, verdict, down, sent, claimed>>

\* write, press, hotkey and the scrolls; a scroll is sent with the centre as its target.
Other ==
  /\ Advance /\ Next1.call \in {"press", "scroll", "comment"}
  /\ executed' = (executed \/ Next1.call # "comment")
  /\ UNCHANGED <<env, terminal, lastXY, screen, running, pending, steps, verdict, cursor, drags,
                 down, sent, claimed>>

\* The end of the block presses what is still held back; a block without any effect is
\* an error.
Flushed == sent \o pending

BlockEnd ==
  /\ running /\ code = <<>>
  /\ \/ /\ sent' = Flushed /\ executed' = (executed \/ pending # <<>>)
        /\ pending' = <<>>
     \/ /\ pending # <<>>                    \* the session refuses the chord
        /\ UNCHANGED <<pending, sent, executed>>
  /\ running' = FALSE
  /\ UNCHANGED <<env, terminal, lastXY, screen, code, steps, verdict, cursor, drags, down, claimed>>

DesktopNext ==
  \/ Reset \/ Shut \/ Evaluate \/ (\E token \in {"DONE", "FAIL"} : Terminate(token)) \/ Typed
  \/ StepCode \/ Refused \/ KeyDown \/ KeyUp \/ Pointer \/ Other \/ BlockEnd

DesktopSpec == DesktopInit /\ [][DesktopNext]_xvars

-----------------------------------------------------------------------------
\* A drag starts where pyautogui would have the pointer, however the moves before it were
\* written, through scrolls, refusals, resets and new connections.
DragsFromTheCursor == drags # <<>> => drags[1] = drags[2]

\* An episode passes only if its own agent said DONE: neither the claim of an earlier
\* episode nor its verdict counts, and a bare claim is no pass.
PassIsClaimed == verdict.passed => claimed /\ verdict.evaluated

\* The chords press the keys of the keyDown lines in their order, each once; what is not
\* pressed yet, or was refused, is what is held back.
ChordsAreWhole == sent \o pending = down

\* What the wrapper remembers between the calls and the lines agrees with the desktop.
DesktopsSound == DragsFromTheCursor /\ PassIsClaimed /\ ChordsAreWhole
=============================================================================
