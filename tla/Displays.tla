--------------------------------- MODULE Displays ---------------------------------
(***************************************************************************)
(* The X11 backend of shinkend (shinkend/src/executor.rs): the connection  *)
(* to the X server, which LazyX11Executor makes when it is first wanted,   *)
(* shares between the threads of all sessions and makes again when a       *)
(* readiness query finds it dead, and the gestures X11Executor::execute    *)
(* synthesizes, event by event.                                            *)
(*                                                                         *)
(* The lock of the connection is held for one event at a time: gestures of *)
(* two sessions interleave.  The X server is external.  It may end and be  *)
(* started again; a connection to it that ended stays dead.  Connections   *)
(* are named by the run of the server they were made to.                   *)
(***************************************************************************)
EXTENDS Integers, Sequences, SequencesExt, FiniteSets

CONSTANTS
    Threads,    \* blocking threads, each with one action or query at a time
    Acts,       \* the actions that are asked for
    HasShift,   \* the keyboard mapping has a key for Shift_L
    MaxRuns     \* bound: runs of the X server

ASSUME DisplaysAssumption ==
    /\ MaxRuns \in Nat \ {0} /\ HasShift \in BOOLEAN /\ Threads \subseteq Nat \ {0}

VARIABLES
    server,   \* the run of the X server, 0 while it is down
    runs,     \* how often it was started
    held,     \* keys and buttons that are down in it
    latched,  \* buttons that a mouse_down has left down on purpose
    slot,     \* LazyX11Executor.inner: a connection, or 0 for None
    pc, mine, \* of a thread: where it is, and its clone of the connection
    act, plan,        \* its action, the events left of it
    begun, mixed      \* threads whose action has landed an event, was met by another's modifier

displayVars == <<server, runs, held, latched, slot, pc, mine, act, plan, begun, mixed>>

\* The thread of retry_until_connected.
Booter == 0
All == Threads \cup {Booter}
Mods == {"ctrl", "shift"}

--------------------------------------------------------------------------------
(* An action as events.  A target is "in" or "out" of the screen, or "none".    *)

Press(k) == [do |-> "press", what |-> k, with |-> {}]
Strike(k, m) == [do |-> "press", what |-> k, with |-> m]   \* a key that is meant with m held
Release(k) == [do |-> "release", what |-> k, with |-> {}]
Motion == [do |-> "move", what |-> "pointer", with |-> {}]
Fail == [do |-> "fail", what |-> "nothing", with |-> {}]

ClickButton(b) == <<Motion, Press(b), Release(b)>>

\* One character: "a" is plain, "A" wants Shift, whose key is looked up as it is typed.
TypeChar(ch) ==
    CASE ch = "a" -> <<Strike("key", {}), Release("key")>>
      [] ch = "A" /\ HasShift ->
            <<Press("shift"), Strike("key", {"shift"}), Release("key"), Release("shift")>>
      [] OTHER -> <<Fail>>

\* Every character has a keysym and a keycode, or nothing is typed.
Typable(text) == \A i \in DOMAIN text : text[i] # "?"
TypeText(text) == FlattenSeq([i \in DOMAIN text |-> TypeChar(text[i])])

\* The Shift that the level of the key wants.
ImplicitShift(combo) == IF combo.key = "A" /\ "shift" \notin ToSet(combo.mods) THEN <<"shift">> ELSE <<>>

\* A mutant for HeldAccounted: only the modifiers that were named are let go.
KeyComboShiftKept(combo) ==
    LET down == combo.mods \o ImplicitShift(combo)
        up == Reverse(combo.mods)
    IN [i \in DOMAIN down |-> Press(down[i])]
         \o <<Strike("key", ToSet(down)), Release("key")>>
         \o [i \in DOMAIN up |-> Release(up[i])]

\* key_combo: the modifiers in order, the Shift the key's level wants, the key; then back.
KeyCombo(combo) ==
    LET down == combo.mods \o ImplicitShift(combo)
        up == Reverse(down)
    IN [i \in DOMAIN down |-> Press(down[i])]
         \o <<Strike("key", ToSet(down)), Release("key")>>
         \o [i \in DOMAIN up |-> Release(up[i])]

\* What execute() refuses before its first event.
Declined(a) ==
    \/ a.at = "out"
    \/ a.at = "none" /\ a.verb \in {"move", "click", "double_click", "drag", "scroll"}
    \/ a.verb = "drag" /\ a.arg # "in"
    \/ a.verb \in {"mouse_down", "mouse_up"} /\ a.arg # "left"
    \/ a.verb = "scroll" /\ a.arg = 0
    \/ a.verb = "type_text" /\ ~Typable(a.arg)
    \/ a.verb = "key" /\ ("shift" \in ToSet(a.arg.mods) \cup ToSet(ImplicitShift(a.arg))) /\ ~HasShift

Events(a) ==
    CASE a.verb = "move" -> <<Motion>>
      [] a.verb = "click" -> ClickButton("left")
      [] a.verb = "double_click" -> ClickButton("left") \o ClickButton("left")
      [] a.verb = "drag" -> <<Motion, Press("left"), Motion, Release("left")>>
      [] a.verb = "mouse_down" -> (IF a.at = "in" THEN <<Motion>> ELSE <<>>) \o <<Press("left")>>
      [] a.verb = "mouse_up" -> (IF a.at = "in" THEN <<Motion>> ELSE <<>>) \o <<Release("left")>>
      [] a.verb = "scroll" -> FlattenSeq([i \in 1 .. a.arg |-> ClickButton("wheel")])
      [] a.verb = "type_text" -> TypeText(a.arg)
      [] a.verb = "key" -> KeyCombo(a.arg)

\* Inputs the rest of a plan still lets go.
Owed(events) ==
    {events[i].what : i \in {j \in DOMAIN events :
        events[j].do = "release"
        /\ \A h \in 1 .. j - 1 : ~(events[h].do = "press" /\ events[h].what = events[j].what)}}

--------------------------------------------------------------------------------
(* The connection.  A query for readiness is the act Ready.                     *)

Ready == [verb |-> "ready", at |-> "none", arg |-> 0]

\* try_connect has returned connection c to thread t, which goes on with its action.
Connected(t, a, c) ==
    /\ mine' = [mine EXCEPT ![t] = c]
    /\ pc' = [pc EXCEPT ![t] = IF t = Booter THEN "done" ELSE IF a = Ready THEN "sampling" ELSE "acting"]
    /\ plan' = [plan EXCEPT ![t] = IF a = Ready \/ Declined(a) THEN <<>> ELSE Events(a)]
    /\ act' = [act EXCEPT ![t] = a]
    /\ begun' = begun \ {t} /\ mixed' = mixed \ {t}

\* try_connect: the connection that is held, or a new one; nothing comes of it without a server.
Start(t, a) ==
    /\ pc[t] = "idle"
    /\ \/ slot # 0 /\ Connected(t, a, slot)
       \/ /\ slot = 0 /\ server # 0
          /\ pc' = [pc EXCEPT ![t] = "dialled"] /\ mine' = [mine EXCEPT ![t] = server]
          /\ act' = [act EXCEPT ![t] = a]
          /\ UNCHANGED <<plan, begun, mixed>>
    /\ UNCHANGED <<server, runs, held, latched, slot>>

\* get_or_insert_with: who comes second uses the connection of who came first.
Kept(c) == IF slot = 0 THEN c ELSE slot

Install(t) ==
    /\ pc[t] = "dialled"
    /\ slot' = Kept(mine[t])
    /\ Connected(t, act[t], Kept(mine[t]))
    /\ UNCHANGED <<server, runs, held, latched>>

--------------------------------------------------------------------------------
(* Gestures.                                                                    *)

Alive(t) == mine[t] = server

\* A drag lets its button go though the walk has failed; any other gesture stops.
AfterError(t) ==
    IF act[t].verb = "drag" /\ Head(plan[t]).do = "move" /\ Len(plan[t]) = 2
    THEN Tail(plan[t]) ELSE <<>>

Land(t) ==
    LET e == Head(plan[t]) IN
    /\ pc[t] = "acting" /\ plan[t] # <<>> /\ Alive(t) /\ e.do # "fail"
    /\ held' = CASE e.do = "press" -> held \cup {e.what}
                 [] e.do = "release" -> held \ {e.what}
                 [] OTHER -> held
    /\ latched' = CASE e.do = "press" /\ act[t].verb = "mouse_down" -> latched \cup {e.what}
                    [] e.do = "release" -> latched \ {e.what}
                    [] OTHER -> latched
    /\ plan' = [plan EXCEPT ![t] = Tail(@)]
    /\ begun' = begun \cup {t}
    /\ mixed' = IF e.what \in Mods THEN mixed \cup (All \ {t}) ELSE mixed
    /\ UNCHANGED <<server, runs, slot, pc, mine, act>>

\* The connection is dead, or there is no key for what comes next.
Break(t) ==
    /\ pc[t] = "acting" /\ plan[t] # <<>> /\ (~Alive(t) \/ Head(plan[t]).do = "fail")
    /\ plan' = [plan EXCEPT ![t] = AfterError(t)]
    /\ UNCHANGED <<server, runs, held, latched, slot, pc, mine, act, begun, mixed>>

Idle(t) ==
    /\ pc' = [pc EXCEPT ![t] = "idle"] /\ mine' = [mine EXCEPT ![t] = 0]
    /\ act' = [act EXCEPT ![t] = Ready] /\ begun' = begun \ {t} /\ mixed' = mixed \ {t}

\* An ack or a nack.
Finish(t) ==
    /\ pc[t] = "acting" /\ plan[t] = <<>>
    /\ Idle(t)
    /\ UNCHANGED <<server, runs, held, latched, slot, plan>>

--------------------------------------------------------------------------------
(* Readiness.                                                                   *)

\* readiness_checked: x11_up, or an error of the connection.
Sample(t) ==
    /\ pc[t] = "sampling"
    /\ \/ Alive(t) /\ Idle(t)
       \/ ~Alive(t) /\ pc' = [pc EXCEPT ![t] = "disconnecting"]
          /\ UNCHANGED <<mine, act, begun, mixed>>
    /\ UNCHANGED <<server, runs, held, latched, slot, plan>>

\* A mutant for DisplayHeals: the dead connection is kept.
DisconnectNothing(t) ==
    /\ pc[t] = "disconnecting"
    /\ Idle(t)
    /\ UNCHANGED <<server, runs, held, latched, slot, plan>>

\* disconnect(): whatever the slot holds by now is dropped.
Disconnect(t) ==
    /\ pc[t] = "disconnecting"
    /\ slot' = 0 /\ Idle(t)
    /\ UNCHANGED <<server, runs, held, latched, plan>>

--------------------------------------------------------------------------------
(* The X server.                                                                *)

StartServer ==
    /\ server = 0 /\ runs < MaxRuns
    /\ runs' = runs + 1 /\ server' = runs + 1
    /\ UNCHANGED <<held, latched, slot, pc, mine, act, plan, begun, mixed>>

EndServer ==
    /\ server # 0
    /\ server' = 0 /\ held' = {} /\ latched' = {}
    /\ UNCHANGED <<runs, slot, pc, mine, act, plan, begun, mixed>>

--------------------------------------------------------------------------------
DisplaysInit ==
    /\ server = 0 /\ runs = 0 /\ held = {} /\ latched = {} /\ slot = 0
    /\ pc = [t \in All |-> "idle"] /\ mine = [t \in All |-> 0]
    /\ act = [t \in All |-> Ready] /\ plan = [t \in All |-> <<>>]
    /\ begun = {} /\ mixed = {}

\* retry_until_connected, the thread that is started at boot, goes on until it has a connection.
Retry == Start(Booter, Ready)

Step(t) == Install(t) \/ Land(t) \/ Break(t) \/ Finish(t) \/ Sample(t) \/ Disconnect(t)

DisplaysNext ==
    \/ \E t \in Threads, a \in Acts \cup {Ready} : Start(t, a)
    \/ Retry
    \/ \E t \in All : Step(t)
    \/ StartServer \/ EndServer

DisplaysFairness == WF_displayVars(Retry) /\ \A t \in All : WF_displayVars(Step(t))
DisplaysSpec == DisplaysInit /\ [][DisplaysNext]_displayVars /\ DisplaysFairness

--------------------------------------------------------------------------------
\* TypeOK: of the state.
DisplaysTypeOK ==
    /\ server \in 0 .. runs /\ runs \in 0 .. MaxRuns /\ slot \in 0 .. runs
    /\ held \subseteq Mods \cup {"key", "left", "wheel"} /\ latched \subseteq held
    /\ \A t \in All :
        /\ pc[t] \in {"idle", "dialled", "acting", "sampling", "disconnecting", "done"}
        /\ mine[t] \in 0 .. runs

\* HeldAccounted: a key or a button is down because a gesture that is under way will let it
\* go, or because a mouse_down has left it there: no gesture leaves one behind, however those
\* of two sessions interleave and whenever the server is restarted (executor.rs, drag: "an
\* error can never leave the synthetic button latched down").
HeldAccounted ==
    held \subseteq latched \cup UNION {Owed(plan[t]) : t \in {u \in All : pc[u] = "acting" /\ Alive(u)}}

\* AllOrNothing: an action that is refused has not begun (executor.rs, type_text: "never
\* leave a typed prefix behind").
AllOrNothing == \A t \in All : plan[t] # <<>> /\ Head(plan[t]).do = "fail" => t \notin begun

\* StruckAsMeant: a key goes down with the modifiers it is meant to have, and no others,
\* unless the gesture of another session has to do with one.
StruckAsMeant ==
    \A t \in All :
        ( /\ pc[t] = "acting" /\ Alive(t) /\ t \notin mixed /\ plan[t] # <<>>
          /\ Head(plan[t]).what = "key" /\ Head(plan[t]).do = "press"
          /\ \A u \in All \ {t} : Owed(plan[u]) \cap Mods = {} )
        => held \cap Mods = Head(plan[t]).with

DisplaysSound == DisplaysTypeOK /\ HeldAccounted /\ AllOrNothing /\ StruckAsMeant

\* DisplayHeals: with an X server that stays up, the thread of the boot finds it, and while
\* clients keep asking whether the display is ready a connection that died is replaced.
DisplayHeals ==
    <>[](server # 0) =>
        /\ <>(pc[Booter] = "done")
        /\ []<>(\E t \in Threads : pc[t] = "sampling") => []<>(slot = server)
================================================================================
