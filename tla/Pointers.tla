---------------------------------- MODULE Pointers ----------------------------------
(***************************************************************************)
(* Where a pointer lands: a model is shown a window in a smaller image,    *)
(* points at a pixel, a fraction or an element of it in the words of its   *)
(* provider, and the runtime clicks on a column of the screen.             *)
(*                                                                         *)
(*   shinkend/src/executor.rs   the capture of a window with its place,    *)
(*                              downscale_rgb, resolve, scroll_steps       *)
(*   adapters/*.py              calls of Anthropic, OpenAI and Kimi models *)
(*   client.py                  map_target_from_observation, act(frame=),  *)
(*                              observe, resolve and act_on                *)
(*                                                                         *)
(* One axis stands for both.  A fraction is a number of Parts-ths.  The    *)
(* window moves once; the host passes every call with the frame it showed, *)
(* of which it may mix the image with another's display.  Text, keys and   *)
(* waits, which go through as they are, are one verb, "type".              *)
(***************************************************************************)
EXTENDS Integers, FiniteSetsExt

CONSTANTS
    Screen,  \* columns of the screen
    Edges,   \* values of max_long_edge, 0 for none
    Parts    \* parts in which fractions are told, an even number of them

VARIABLES
    win,   \* the window: its first column, which may be off the screen, and its columns
    at,    \* how far the turn is: "blind", "measured", "shown", "asked", "sent", and how it ended
    plan,  \* the window's place as a capture has read it
    frame, \* what the model was shown: a display, the image's width and its pixels
    known, \* the box of the element as the client holds it, and who observed it, if anybody
    still, \* the window is where the last frame and the last observation found it
    call,  \* what the model asked
    wire,  \* the action the client made of it
    did    \* what the runtime did: a verb, and where in the window

pointerVars == <<win, at, plan, frame, known, still, call, wire, did>>

Nothing == [verb |-> "none"]
NoFrame == [x |-> 0, s |-> 1, d |-> 1, w |-> 1, saw |-> [p \in {0} |-> 0]]

Windows == {w \in [x : -1 .. Screen - 1, w : 1 .. Screen] : w.x + w.w \in 1 .. Screen + 1}
Inside(w) == w.x >= 0 /\ w.x + w.w <= Screen

\* The element is the window's last column but one, or has no extent.
Box(w) == [x |-> w.x, w |-> w.w - 1]

--------------------------------------------------------------------------------
(* What the model is shown.                                                     *)

\* It is dragged, or resized.
Apart(a, b) == IF a < b THEN b - a ELSE a - b
MoveWindow ==
    /\ still /\ at \in {"measured", "shown", "asked", "sent"} /\ still' = FALSE
    /\ win' \in {w \in Windows : Apart(w.x, win.x) + Apart(w.w, win.w) = 1}
    /\ UNCHANGED <<at, plan, frame, known, call, wire, did>>

\* The place is read before the pixels.
Measure ==
    /\ at = "blind" /\ at' = "measured" /\ plan' = win /\ still' = TRUE
    /\ UNCHANGED <<win, frame, known, call, wire, did>>

\* downscale_rgb: the columns of an image, and the column of the window that each shows.
Delivered(s, edge) == IF edge = 0 \/ s <= edge THEN s ELSE Max({1, edge})
Sampled(p, s, d) == (p * s) \div d

\* A window that shrank meanwhile, or hangs over the screen's edge, may not be readable.
Grab(edge) ==
    /\ at = "measured" /\ at' = "shown" /\ win.w >= plan.w
    /\ LET d == Delivered(plan.w, edge)
       IN frame' = [x |-> plan.x, s |-> plan.w, d |-> d, w |-> d,
                    saw |-> [p \in 0 .. d - 1 |-> Sampled(p, plan.w, d)]]
    /\ known' = [known EXCEPT !.by = "nobody"]
    /\ UNCHANGED <<win, plan, still, call, wire, did>>

GrabFails ==
    /\ at = "measured" /\ at' = "blind" /\ (win.w < plan.w \/ ~Inside(win))
    /\ UNCHANGED <<win, plan, frame, known, still, call, wire, did>>

\* A host that puts together what it passes as a frame itself takes the display of another one.
Mix(d) ==
    /\ at = "shown" /\ frame' = [frame EXCEPT !.d = d]
    /\ UNCHANGED <<win, at, plan, known, still, call, wire, did>>

\* observe(structured): in the guest, or by the accessibility bus of the host.
Observe ==
    /\ at = "shown" /\ still /\ known' \in [by : {"guest", "local"}, box : {Box(win)}]
    /\ UNCHANGED <<win, at, plan, frame, still, call, wire, did>>

--------------------------------------------------------------------------------
(* What it asks for, and the adapters.                                          *)

Providers == {"anthropic", "openai", "kimi"}
Clicks == {-21, -1, 0, 2}    \* of the wheel, up is positive; OpenAI counts in pixels
Pixel(n) == -100 * n

Calls ==
    [by : Providers, verb : {"type", "drag"}, p : {0}, held : {FALSE}]
    \cup [by : Providers, verb : {"click", "double_click", "move"}, p : 0 .. Screen, held : BOOLEAN]
    \cup [by : Providers, verb : {"scroll"}, p : {0}, held : BOOLEAN, clicks : Clicks]

\* Kimi's coordinates are fractions, and its scroll has none.
Spot(c) ==
    IF c.by = "kimi"
    THEN [kind |-> "point_norm", at |-> IF c.verb = "scroll" THEN Parts \div 2 ELSE c.p]
    ELSE [kind |-> "point_px", at |-> c.p]

\* Only Anthropic's contract has a modifier that is held.
Speakable(c) == c.held => c.by = "anthropic"

Ask(c) ==
    /\ at = "shown" /\ at' = "asked" /\ Speakable(c) /\ call' = c
    /\ UNCHANGED <<win, plan, frame, known, still, wire, did>>

\* Who would change the meaning refuses instead: AdapterError.
Unsupported(c) ==
    \/ c.verb = "drag" \/ (c.held /\ c.verb # "move")
    \/ c.by = "kimi" /\ c.verb # "type" /\ Spot(c).at > Parts

Adapted(c) ==
    IF c.verb = "scroll" THEN [verb |-> "scroll", target |-> Spot(c), dy |-> Pixel(c.clicks)]
    ELSE IF c.verb = "type" THEN [verb |-> "type"]
    ELSE [verb |-> c.verb, target |-> Spot(c)]

--------------------------------------------------------------------------------
(* map_target_from_observation.                                                 *)

Least(a, b) == Min({a, b})

\* Half a column up, and down to a whole one.
Rounded(k, s) == (2 * k * (s - 1) + Parts) \div (2 * Parts)

Column(t, f) ==
    f.x + IF t.kind = "point_px" THEN Least(f.s - 1, (t.at * f.s) \div f.d) ELSE Rounded(t.at, f.s)

\* The image does not have the width its display says; the point is not in it, or not on the screen.
Mappable(t, f) ==
    /\ f.w = f.d
    /\ IF t.kind = "point_px" THEN t.at \in 0 .. f.d - 1 ELSE t.at \in 0 .. Parts
    /\ Column(t, f) \in 0 .. Screen - 1

Globally(a, f) ==
    IF "target" \notin DOMAIN a THEN a
    ELSE [a EXCEPT !.target = [kind |-> "point_px", at |-> Column(a.target, f)]]

Act ==
    /\ at = "asked"
    /\ IF \/ Unsupported(call)
          \/ "target" \in DOMAIN Adapted(call) /\ ~Mappable(Adapted(call).target, frame)
       THEN at' = "refused" /\ UNCHANGED wire
       ELSE at' = "sent" /\ wire' = Globally(Adapted(call), frame)
    /\ UNCHANGED <<win, plan, frame, known, still, call, did>>

--------------------------------------------------------------------------------
(* act_on: by the reference of an element.                                      *)

\* The guest finds the element where it is; who observed it himself has the box that he read.
Ref == [kind |-> "element_ref", at |-> 0]
Middle(box) == [kind |-> "point_px", at |-> box.x + box.w \div 2]

ActOn ==
    /\ at = "shown" /\ known.by # "nobody"
    /\ call' = [by |-> "ref", verb |-> "click", held |-> FALSE]
    /\ IF known.by = "local" /\ known.box.w <= 0 THEN at' = "refused" /\ UNCHANGED wire
       ELSE /\ at' = "sent"
            /\ wire' = [verb |-> "click",
                        target |-> IF known.by = "guest" THEN Ref ELSE Middle(known.box)]
    /\ UNCHANGED <<win, plan, frame, known, still, did>>

--------------------------------------------------------------------------------
(* The runtime.                                                                 *)

\* scroll_steps
Steps(px) == Min({20, Max({1, ((IF px < 0 THEN -px ELSE px) + 99) \div 100})})

\* resolve, and for an element its box of now.
Place(t) == IF t.kind = "element_ref" THEN Middle(Box(win)).at ELSE t.at

Doable(a) ==
    "target" \in DOMAIN a =>
        /\ Place(a.target) \in 0 .. Screen - 1 /\ (a.target = Ref => Box(win).w > 0)
        /\ a.verb = "scroll" => a.dy # 0

Executed(a) ==
    CASE a.verb = "type" -> a
      [] a.verb = "scroll" -> [verb |-> "scroll", column |-> Place(a.target) - win.x,
                               up |-> IF a.dy > 0 THEN -Steps(a.dy) ELSE Steps(a.dy)]
      [] OTHER -> [verb |-> a.verb, column |-> Place(a.target) - win.x]

Execute ==
    /\ at = "sent"
    /\ IF Doable(wire) THEN at' = "done" /\ did' = Executed(wire) ELSE at' = "failed" /\ UNCHANGED did
    /\ UNCHANGED <<win, plan, frame, known, still, call, wire>>

\* The next turn has a frame of its own.
NextTurn ==
    /\ at \in {"refused", "failed", "done"} /\ at' = "blind" /\ plan' = win
    /\ frame' = NoFrame /\ known' = [by |-> "nobody", box |-> Box(win)] /\ still' = TRUE
    /\ call' = Nothing /\ wire' = Nothing /\ did' = Nothing /\ UNCHANGED win

--------------------------------------------------------------------------------
PointerInit ==
    /\ win \in Windows /\ at = "blind" /\ plan = win
    /\ frame = NoFrame
    /\ known = [by |-> "nobody", box |-> Box(win)] /\ still = TRUE
    /\ call = Nothing /\ wire = Nothing /\ did = Nothing

PointerNext ==
    \/ MoveWindow \/ Measure \/ (\E edge \in Edges : Grab(edge)) \/ GrabFails
    \/ (\E d \in 1 .. Screen : Mix(d)) \/ Observe
    \/ (\E c \in Calls : Ask(c)) \/ Act \/ ActOn \/ Execute \/ NextTurn

--------------------------------------------------------------------------------
Done == at = "done"

\* PixelIsHit: who points at a pixel gets the column of the window that this pixel showed, as
\* long as the window stays where it was.
PixelIsHit ==
    Done /\ still /\ call.by \in {"anthropic", "openai"} /\ "column" \in DOMAIN did =>
        did.column = frame.saw[call.p]

\* FractionIsHit: who points at a fraction gets a column of the window, the first one for 0 and
\* the last one for 1, and no more than one shown pixel off what was shown there.
FractionIsHit ==
    Done /\ still /\ call.by = "kimi" /\ "column" \in DOMAIN did =>
        LET k == Spot(call).at
            near == {p \in 0 .. frame.d - 1 : k * frame.d \in (p - 1) * Parts .. (p + 2) * Parts}
        IN /\ did.column \in 0 .. frame.s - 1
           /\ k = 0 => did.column = 0
           /\ k = Parts => did.column = frame.s - 1
           /\ \E p \in near : did.column \in frame.saw[p] .. Sampled(p + 1, frame.s, frame.d) - 1

\* NothingElseIsDone: what is done is what was said, without a modifier lost, a wheel turned the
\* other way or farther than it was, or a click that became another.
NothingElseIsDone ==
    Done => /\ did.verb = call.verb /\ (call.held => call.verb = "move")
            /\ call.verb = "scroll" => did.up = Max({-20, Min({20, call.clicks})})

\* MixedIsRefused: an image and a display of different widths never make a pointer move.
MixedIsRefused == Done /\ "column" \in DOMAIN did /\ call.by # "ref" => frame.w = frame.d

\* ElementIsHit: a click on an element of a guest is in its box wherever the window went, and
\* one on an element of the host's own observation is if it stayed.
ElementIsHit ==
    Done /\ call.by = "ref" /\ (known.by = "guest" \/ still) => did.column \in 0 .. win.w - 2

PointersSound == PixelIsHit /\ FractionIsHit /\ NothingElseIsDone /\ MixedIsRefused /\ ElementIsHit
================================================================================
