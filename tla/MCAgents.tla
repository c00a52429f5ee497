-------------------------------- MODULE MCAgents --------------------------------
(***************************************************************************)
(* What an agent is shown, what it asks for, and what becomes of it. The   *)
(* components have no state in common in this model, and a behaviour is    *)
(* one of a single part, chosen in its first state:                        *)
(*                                                                         *)
(*   "shots"     two sessions that share a cache of two frames (Shots)     *)
(*   "words"     messages of up to three tags and single calls with many   *)
(*               arguments (MCDialects)                                    *)
(*   "turns"     three turns of up to two actions (Turns)                  *)
(*   "batch"     up to three actions in a batch or a step (Batches)        *)
(*   "desktop"   blocks of up to three lines of pyautogui (Desktops)       *)
(*   "pointer"   calls on a window of up to four columns (Pointers)        *)
(***************************************************************************)
EXTENDS MCDialects

CONSTANTS
    ShotPeers, Settings, Contents, Entries, MaxShots,   \* the constants of Shots
    TurnSteps, TurnBatch,                               \* of Turns
    BatchActs,                                          \* of Batches
    DeskPoints, DeskKeys, DeskSteps, DeskLines          \* of Desktops

ASSUME AgentsAssumption ==
    /\ "none" \notin Settings \cup Contents /\ Entries \in Nat \ {0}
    /\ {MaxShots, TurnSteps, TurnBatch, BatchActs, DeskSteps, DeskLines} \subseteq Nat

Action(verb, surface, target) == [verb |-> verb, surface |-> surface, target |-> target]
Wanted ==
  {Action("click", "none", "point"), Action("right_click", "bu", "r1"), Action("click", "bu", "r2"),
   Action("move", "none", "point"), Action("navigate", "none", "none"),
   Action("observe", "none", "none"), Action("key", "cu", "none"), Action("wait", "none", "none"),
   Action("click", "ghost", "point")}

VARIABLES
    part,  \* the component that runs
    screen, pointer, cache, lastShot, shot, taken,                                 \* Shots
    step, total, stopped, feedback, phase, seen, batch, done, results, active,
    elements, acked, owed, pressed,                                                \* Turns
    acts, form, stop, at, rows, waits, got, up, down, link, ran, order,            \* Batches
    env, terminal, lastXY, size, code, running, pending, executed, steps, verdict,
    cursor, drags, held, sent, claimed,                                            \* Desktops
    win, turn, plan, frame, known, still, call, wire, did                          \* Pointers

S == INSTANCE Shots WITH Peers <- ShotPeers, Positions <- {0}, MaxEntries <- Entries
U == INSTANCE Turns WITH MaxSteps <- TurnSteps, MaxBatch <- TurnBatch, Offered <- Wanted
B == INSTANCE Batches WITH MaxActs <- BatchActs
X == INSTANCE Desktops WITH screen <- size, down <- held, Points <- DeskPoints,
        Keys <- DeskKeys, MaxSteps <- DeskSteps, MaxLines <- DeskLines
P == INSTANCE Pointers WITH at <- turn, Screen <- 4, Edges <- {3}, Parts <- 4

shotVars == <<screen, pointer, cache, lastShot, shot, taken>>
turnVars == <<step, total, stopped, feedback, phase, seen, batch, done, results, active,
              elements, acked, owed, pressed>>
batchVars == <<acts, form, stop, at, rows, waits, got, up, down, link, ran, order>>
desktopVars == <<env, terminal, lastXY, size, code, running, pending, executed, steps, verdict,
                 cursor, drags, held, sent, claimed>>
pointerVars == <<win, turn, plan, frame, known, still, call, wire, did>>
agentVars == <<part, shotVars, dvars, turnVars, batchVars, desktopVars, pointerVars>>

\* The parts that do not run start in one state.
AgentInit ==
    /\ part \in {"shots", "words", "turns", "batch", "desktop", "pointer"}
    /\ (part # "shots" => screen = [s \in ShotPeers |-> CHOOSE c \in Contents : TRUE]) /\ S!ShotInit
    /\ (part # "turns" => active = "cu") /\ U!TurnInit
    /\ (part # "batch" =>
          acts = <<[gate |-> "allow", look |-> FALSE]>> /\ form = "batch" /\ stop = TRUE)
    /\ B!BatchInit
    /\ X!DesktopInit
    /\ (part # "pointer" => win = [x |-> 0, w |-> 1]) /\ P!PointerInit
    /\ IF part = "words" THEN DialectInit
       ELSE /\ text = <<>> /\ format = "auto" /\ pass = "route"
            /\ found = <<>> /\ consumed = {} /\ result = "none"

\* The parts that may stop.
Rest == part \in {"batch", "desktop"} /\ UNCHANGED agentVars

AgentNext ==
    \/ part = "shots" /\ S!ShotNext
       /\ UNCHANGED <<part, dvars, turnVars, batchVars, desktopVars, pointerVars>>
    \/ part = "words" /\ DialectNext
       /\ UNCHANGED <<part, shotVars, turnVars, batchVars, desktopVars, pointerVars>>
    \/ part = "turns" /\ U!TurnNext
       /\ UNCHANGED <<part, shotVars, dvars, batchVars, desktopVars, pointerVars>>
    \/ part = "batch" /\ B!BatchNext
       /\ UNCHANGED <<part, shotVars, dvars, turnVars, desktopVars, pointerVars>>
    \/ part = "desktop" /\ X!DesktopNext
       /\ UNCHANGED <<part, shotVars, dvars, turnVars, batchVars, pointerVars>>
    \/ part = "pointer" /\ P!PointerNext
       /\ UNCHANGED <<part, shotVars, dvars, turnVars, batchVars, desktopVars>>
    \/ Rest

AgentSpec == AgentInit /\ [][AgentNext]_agentVars

\* The conditional screenshot returns what the screen showed: see Shots.
ShotsSound == S!ShotsSound

\* What a model writes is understood (see Dialects), and where it points in the image it was
\* shown is where the pointer lands (see Pointers).
WordsSound == DialectsSound /\ P!PointersSound

\* What the agent is told of its actions is what became of them: see Turns.
TurnsSound == U!TurnsSound

\* Every row of a batch tells what became of its action: see Batches.
BatchesHonest == B!BatchesHonest

\* A block of pyautogui does what its lines say: see Desktops.
DesktopsSound == X!DesktopsSound
================================================================================
