--------------------------------- MODULE Sessions ---------------------------------
(***************************************************************************)
(* One connection to shinkend, from the upgrade to the release of its slot *)
(* (shinkend/src/main.rs, serve; connection.rs, Session): the deadlines of *)
(* the loop, the handshake, the dispatch of an action with the checks that *)
(* come before it, the reply and the observation that follows it, and the  *)
(* bounded channel to the writer.                                          *)
(*                                                                         *)
(* A session hands each message to a blocking thread and takes the next    *)
(* one when it is done, so handling is one step.  What executor, captures  *)
(* and execs do is in Displays, Captures and Execs: here they succeed or   *)
(* fail.  Other connections show in that a permit may not be had.          *)
(***************************************************************************)
EXTENDS Integers, Sequences, FiniteSets

CONSTANTS
    MaxAsked,   \* bound: requests of a connection; it may ping for ever
    OutCap      \* OUTBOUND_CAP

ASSUME SessionsAssumption == MaxAsked \in Nat /\ OutCap \in Nat \ {0}

VARIABLES
    enabled,  \* SHINKEND_ENABLE_EXEC
    phase,    \* where serve is
    authed,   \* the hello was accepted
    age,      \* 1 past HANDSHAKE_TIMEOUT, 2 past MAX_CONNECTION_LIFETIME
    writer, queued,      \* the writer task; messages in its channel
    sending, next, firm, \* messages to put in the channel, what comes then, and whether a
                         \* channel that is closed ends the loop
    cast, tasks,         \* the capture runs; execs that run
    asked,    \* the requests, in order; a request is named by its place
    did, spawned,        \* requests that changed the guest, that started a process
    said      \* what was put in the channel, pongs and errors apart

sessionVars == <<enabled, phase, authed, age, writer, queued, sending, next, firm, cast, tasks,
                 asked, did, spawned, said>>

--------------------------------------------------------------------------------
(* Requests: a verb, or a class of them, what is wrong with it, and `observe`.   *)

Mutating == {"act", "launch", "element"}   \* MUTATING_VERBS: by execute(), launch_app, through the bus
Capturing == {"screenshot", "start"}
Verbs == Mutating \cup Capturing \cup {"stop", "wait", "observe", "clipboard_get", "exec", "query"}

\* "bounds": not an action, or a number out of the schema's range; "own": what the verb itself
\* refuses (no such element, a delta stream without raw capture, exec's argv and shell, ...).
Flaws == {"none", "bounds", "scope", "own"}

Requests ==
    {r \in [verb : Verbs, flaw : Flaws, observe : {"none", "good", "bad"}, stream : BOOLEAN] :
        /\ r.stream => r.verb = "exec"
        /\ r.verb = "query" => r.observe = "none" /\ r.flaw \in {"none", "own"}}

Msg(i, kind) == [of |-> i, kind |-> kind]

\* A mutant for PolicyKept: launch_app is not taken for the execution of a process.
RefusedButLaunch(r) ==
    \/ r.flaw = "bounds"
    \/ r.flaw = "scope" /\ r.verb \in Capturing
    \/ r.observe # "none" /\ (r.verb \notin Mutating \/ r.observe = "bad")
    \/ r.verb = "exec" /\ ~enabled
    \/ r.flaw = "own" /\ r.verb \in Mutating \cup {"exec", "start", "observe"}

\* dispatch_action answers with a nack before it has done anything.
Refused(r) ==
    \/ r.flaw = "bounds"
    \/ r.flaw = "scope" /\ r.verb \in Capturing
    \/ r.observe # "none" /\ (r.verb \notin Mutating \/ r.observe = "bad")
    \/ r.verb \in {"exec", "launch"} /\ ~enabled
    \/ r.flaw = "own" /\ r.verb \in Mutating \cup {"exec", "start", "observe"}

Refusal(i) == [replies |-> <<Msg(i, "nack")>>, did |-> FALSE, stream |-> "none", exec |-> FALSE]
Answer(i, kind) == [Refusal(i) EXCEPT !.replies = <<Msg(i, kind)>>]

\* The observation asked for, or the error of its capture, comes after the ack.
Acted(i, r) ==
    [Refusal(i) EXCEPT !.did = TRUE,
        !.replies = <<Msg(i, "ack")>> \o (IF r.observe = "good" THEN <<Msg(i, "followup")>> ELSE <<>>)]

\* What the handling of request i may come to: the Step of the session.
Steps(i, r) ==
    IF r.verb = "query" THEN {Answer(i, "result")}
    ELSE IF Refused(r) THEN {Refusal(i)}
    ELSE CASE r.verb \in Mutating -> {Acted(i, r), Refusal(i)}
           [] r.verb \in {"screenshot", "observe", "clipboard_get"} -> {Answer(i, "result"), Refusal(i)}
           [] r.verb = "wait" -> {Answer(i, "ack")}
           [] r.verb = "stop" -> {[Answer(i, "ack") EXCEPT !.stream = "stop"]}
           [] r.verb = "start" -> {[Answer(i, "ack") EXCEPT !.stream = "start"]}
           [] r.verb = "exec" -> {[Refusal(i) EXCEPT !.exec = TRUE,
                                     !.replies = IF r.stream THEN <<Msg(i, "ack")>> ELSE <<>>]}

--------------------------------------------------------------------------------
(* The loop.                                                                    *)

Go(p) == phase' = p /\ sending' = <<>> /\ next' = "top" /\ firm' = TRUE

\* Put the messages in the channel, then go on with p.
Reply(messages, p, strictly) ==
    IF messages = <<>> THEN Go(p)
    ELSE /\ phase' = "sending" /\ sending' = messages /\ next' = p /\ firm' = strictly

Quiet == UNCHANGED <<enabled, authed, age, writer, queued, cast, tasks, asked, did, spawned, said>>
Bye == <<Msg(0, "error")>>

\* accept(): a slot is free.  Then the upgrade, within HANDSHAKE_TIMEOUT.
Accept ==
    /\ phase = "none"
    /\ phase' = "upgrading"
    /\ UNCHANGED <<enabled, authed, age, writer, queued, sending, next, firm, cast, tasks, asked,
                   did, spawned, said>>

Upgrade ==
    /\ phase = "upgrading"
    /\ Go("top") \/ Go("none")
    /\ Quiet

\* A mutant for ConnectionEnds: only the handshake has a deadline.
ExpiredHandshake == ~authed /\ age >= 1

Expired == age = 2 \/ (~authed /\ age >= 1)

\* The top of the loop: the lifetime and the deadline of the handshake.
Check ==
    /\ phase = "top"
    /\ IF Expired THEN Reply(Bye, "drain", FALSE) ELSE Go("wait")
    /\ Quiet

\* AUTH_IDLE_TIMEOUT, or what is left of HANDSHAKE_TIMEOUT.
TimeOut ==
    /\ phase = "wait" /\ (authed \/ age >= 1)
    /\ Reply(Bye, "drain", FALSE)
    /\ Quiet

\* A Close, the end of the stream, an error of the socket, or a panic of the blocking thread.
Leave ==
    /\ phase = "wait" /\ Go("drain") /\ Quiet

\* A ping of the socket is answered outside the Session; other frames are ignored.
Ping ==
    /\ phase = "wait" /\ Reply(<<Msg(0, "pong")>>, "top", FALSE) /\ Quiet
Ignore ==
    /\ phase = "wait" /\ Go("top") /\ Quiet

--------------------------------------------------------------------------------
(* Messages.                                                                    *)

\* What is not a message ends the session; so does, before the hello, anything else, and a
\* hello of another version or with another token.
Garbage ==
    /\ phase = "wait" /\ Reply(Bye, "drain", TRUE) /\ Quiet

Hello ==
    /\ phase = "wait"
    /\ authed' = TRUE
    /\ Reply(<<Msg(0, IF authed THEN "error" ELSE "welcome")>>, "top", TRUE)
    /\ UNCHANGED <<enabled, age, writer, queued, cast, tasks, asked, did, spawned, said>>

\* An action or a query of an authenticated session.  The permit of an exec or a capture may
\* not be had; a capture of this connection has been stopped by then.
Handle(r) ==
    /\ phase = "wait" /\ authed /\ Len(asked) < MaxAsked
    /\ LET i == Len(asked) + 1 IN
       \E s \in Steps(i, r), permit \in BOOLEAN :
        LET full == ~permit /\ (s.exec \/ s.stream = "start") IN
        /\ permit \/ full
        /\ asked' = Append(asked, IF r.stream THEN "stream" ELSE r.verb)
        /\ did' = IF s.did THEN did \cup {i} ELSE did
        /\ spawned' = IF s.did /\ r.verb = "launch" THEN spawned \cup {i} ELSE spawned
        /\ cast' = IF s.stream = "none" THEN cast ELSE s.stream = "start" /\ ~full
        /\ IF full THEN Reply(<<Msg(i, "nack")>>, "top", FALSE)
           ELSE IF s.exec THEN Reply(s.replies, "spawn", TRUE)
           ELSE IF r.verb = "wait" /\ s = Answer(i, "ack")
           THEN phase' = "sleep" /\ sending' = s.replies /\ next' = "top" /\ firm' = TRUE
           ELSE Reply(s.replies, "top", TRUE)
    /\ UNCHANGED <<enabled, authed, age, writer, queued, tasks, said>>

\* spawn_exec, after the ack of a stream, so that no output comes before it.
Spawn ==
    /\ phase = "spawn" /\ Go("top")
    /\ tasks' = tasks \cup {Len(asked)} /\ spawned' = spawned \cup {Len(asked)}
    /\ UNCHANGED <<enabled, authed, age, writer, queued, cast, asked, did, said>>

\* wait.ms is over.
Wake ==
    /\ phase = "sleep" /\ Reply(sending, next, firm)
    /\ Quiet

--------------------------------------------------------------------------------
(* The channel.                                                                 *)

Heard(m) == IF m.kind \in {"pong", "error"} THEN said ELSE Append(said, m)

\* out.send: there is room.
Put ==
    /\ phase = "sending" /\ writer = "up" /\ queued < OutCap
    /\ queued' = queued + 1 /\ said' = Heard(Head(sending))
    /\ Reply(Tail(sending), next, firm)
    /\ UNCHANGED <<enabled, authed, age, writer, cast, tasks, asked, did, spawned>>

\* out.send: the writer has gone.
PutFails ==
    /\ phase = "sending" /\ writer = "gone"
    /\ Go(IF firm THEN "drain" ELSE next)
    /\ Quiet

\* The writer sends a message, or meets an error or WRITE_TIMEOUT and ends.
Write ==
    /\ phase \notin {"none", "upgrading"} /\ writer = "up" /\ queued > 0
    /\ \/ queued' = queued - 1 /\ UNCHANGED writer
       \/ queued' = 0 /\ writer' = "gone"
    /\ UNCHANGED <<enabled, phase, authed, age, sending, next, firm, cast, tasks, asked, did,
                   spawned, said>>

\* spawn_exec answers: with the result, or for a stream with its last event.
ExecEnds(t) ==
    /\ t \in tasks /\ phase # "drain" /\ (writer = "gone" \/ queued < OutCap)
    /\ tasks' = tasks \ {t}
    /\ IF writer = "gone" THEN UNCHANGED <<queued, said>>
       ELSE /\ queued' = queued + 1
            /\ said' = Append(said, Msg(t, IF asked[t] = "stream" THEN "exit" ELSE "result"))
    /\ UNCHANGED <<enabled, phase, authed, age, writer, sending, next, firm, cast, asked, did, spawned>>

\* After the loop: capture and execs are aborted, the writer drains within WRITE_TIMEOUT, and
\* the slot is free.
End ==
    /\ phase = "drain"
    /\ phase' = "none" /\ authed' = FALSE /\ age' = 0 /\ writer' = "up" /\ queued' = 0
    /\ sending' = <<>> /\ next' = "top" /\ firm' = TRUE /\ cast' = FALSE /\ tasks' = {}
    /\ asked' = <<>> /\ did' = {} /\ spawned' = {} /\ said' = <<>>
    /\ UNCHANGED enabled

Tick ==
    /\ phase \notin {"none", "upgrading"} /\ age < 2
    /\ age' = age + 1
    /\ UNCHANGED <<enabled, phase, authed, writer, queued, sending, next, firm, cast, tasks,
                   asked, did, spawned, said>>

--------------------------------------------------------------------------------
SessionsInit ==
    /\ enabled \in BOOLEAN
    /\ phase = "none" /\ authed = FALSE /\ age = 0 /\ writer = "up" /\ queued = 0
    /\ sending = <<>> /\ next = "top" /\ firm = TRUE /\ cast = FALSE /\ tasks = {}
    /\ asked = <<>> /\ did = {} /\ spawned = {} /\ said = <<>>

Loop == Upgrade \/ Check \/ Spawn \/ Wake \/ Put \/ PutFails \/ End
Peer == Accept \/ Leave \/ Ping \/ Ignore \/ Garbage \/ Hello \/ \E r \in Requests : Handle(r)

SessionsNext == Loop \/ Peer \/ TimeOut \/ Write \/ Tick \/ \E t \in tasks : ExecEnds(t)

\* The timers run and the tasks are scheduled; nothing is assumed of the peer.
SessionsFairness ==
    /\ WF_sessionVars(Loop) /\ WF_sessionVars(TimeOut) /\ WF_sessionVars(Write) /\ WF_sessionVars(Tick)
SessionsSpec == SessionsInit /\ [][SessionsNext]_sessionVars /\ SessionsFairness

--------------------------------------------------------------------------------
Kinds(i) == [j \in DOMAIN said |-> IF said[j].of = i THEN said[j].kind ELSE "other"]
Said(i, kinds) == {j \in DOMAIN said : Kinds(i)[j] \in kinds}

\* TypeOK: of the state.
SessionsTypeOK ==
    /\ phase \in {"none", "upgrading", "top", "wait", "spawn", "sleep", "sending", "drain"}
    /\ authed \in BOOLEAN /\ age \in 0 .. 2 /\ writer \in {"up", "gone"} /\ queued \in 0 .. OutCap
    /\ next \in {"top", "spawn", "drain"} /\ (phase = "sending" => sending # <<>>)

\* AnsweredOnce: a request has at most one answer, and, once the loop has come back for the
\* next message, exactly one; the buffered exec has it when its task ends.
AnsweredOnce ==
    \A i \in DOMAIN asked :
        LET n == Cardinality(Said(i, {"ack", "nack", "result"})) IN
        /\ n <= 1
        /\ phase \in {"top", "wait"} /\ writer = "up" /\ (i \notin tasks \/ asked[i] = "stream")
             => n = 1

\* AnswersHonest: an action that was acknowledged has been done and one that was refused has
\* not; in particular an `observe` that is malformed is found before the action is executed
\* (connection.rs: "a malformed observe never half-applies an action").
AnswersHonest ==
    \A i \in DOMAIN asked :
        /\ Said(i, {"ack"}) # {} /\ asked[i] \in Mutating => i \in did
        /\ Said(i, {"nack"}) # {} => i \notin did \cup spawned

\* FollowupsFollow: an observation follows the ack of its action, once.
FollowupsFollow ==
    \A i \in DOMAIN asked : \A j \in Said(i, {"followup", "exit"}) :
        /\ \E h \in 1 .. j - 1 : h \in Said(i, {"ack"})
        /\ Cardinality(Said(i, {"followup", "exit"})) = 1

\* WelcomeFirst: before the welcome nothing is done for the peer and no request is answered.
WelcomeFirst ==
    asked # <<>> \/ said # <<>> \/ cast \/ tasks # {} => said # <<>> /\ said[1].kind = "welcome"

\* PolicyKept: where exec is disabled no action starts a process, by whatever verb.
PolicyKept == ~enabled => spawned = {} /\ tasks = {}

SessionsSound ==
    SessionsTypeOK /\ AnsweredOnce /\ AnswersHonest /\ FollowupsFollow /\ WelcomeFirst /\ PolicyKept

\* ConnectionEnds: the slot of a connection is free again, whatever its peer does: one that
\* pings for ever, that never authenticates, that does not read what it is sent.
ConnectionEnds == phase # "none" ~> phase = "none"
================================================================================
