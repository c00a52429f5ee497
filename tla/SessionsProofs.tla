----------------------------- MODULE SessionsProofs -----------------------------
(***************************************************************************)
(* Safety of a connection of Sessions, for any number of requests and any  *)
(* bound of its channel.  The inductive invariant follows every request    *)
(* from its dispatch through the messages that wait to be queued, the      *)
(* spawn that may follow, and the task that answers last.  Then the safety *)
(* of the screencasts of Captures, for any streams, tiles and changes.     *)
(***************************************************************************)
EXTENDS Sessions, Captures, FiniteSetTheorems, SequenceTheorems, TLAPS

SessionSafety == SessionsInit /\ [][SessionsNext]_sessionVars

Answers == {"ack", "nack", "result"}
Laters == {"followup", "exit"}
Message == [of : Nat, kind : Answers \cup Laters \cup {"welcome", "pong", "error"}]

\* TypeOK, with the sequences and the sets of requests.
Typing ==
    /\ SessionsTypeOK
    /\ enabled \in BOOLEAN /\ firm \in BOOLEAN /\ cast \in BOOLEAN
    /\ asked \in Seq(Verbs \cup {"stream"})
    /\ said \in Seq(Message) /\ sending \in Seq(Message)
    /\ tasks \subseteq 1 .. Len(asked) /\ did \subseteq 1 .. Len(asked)
    /\ spawned \subseteq 1 .. Len(asked)
    /\ \A j \in 1 .. Len(said) : said[j].of \in 0 .. Len(asked)

\* What is on its way to the channel: a message of the connection, or the answer of the last
\* request and the observation after it.
OnItsWay ==
    LET n == Len(asked) IN
    \/ sending = <<>>
    \/ \E k \in {"pong", "error", "welcome"} : sending = <<Msg(0, k)>> /\ next # "spawn"
    \/ n > 0 /\ \E k \in Answers \cup {"followup"} : sending = <<Msg(n, k)>>
    \/ n > 0 /\ sending = <<Msg(n, "ack"), Msg(n, "followup")>>

Sending ==
    /\ OnItsWay
    /\ phase \notin {"sending", "sleep"} => sending = <<>> /\ next = "top"
    /\ phase = "sleep" => sending # <<>> /\ next = "top"
    /\ next = "spawn" => firm /\ Len(asked) > 0
    /\ phase = "spawn" => Len(asked) > 0
    /\ phase \in {"none", "upgrading"} => asked = <<>> /\ said = <<>>

\* Messages of request i that have been put in the channel, or will be.
HasSaid(i, kinds) == \E j \in 1 .. Len(said) : said[j].of = i /\ said[j].kind \in kinds
Awaits(i, kinds) == \E j \in 1 .. Len(sending) : sending[j].of = i /\ sending[j].kind \in kinds
Has(i, kinds) == HasSaid(i, kinds) \/ Awaits(i, kinds)

\* The exec that will be spawned once its ack is out.
ToSpawn(i) == i = Len(asked) /\ (phase = "spawn" \/ next = "spawn")

OneEach(i) ==
    \A j, k \in 1 .. Len(said) : said[j].of = i /\ said[k].of = i =>
        /\ said[j].kind \in Answers /\ said[k].kind \in Answers => j = k
        /\ said[j].kind \in Laters /\ said[k].kind \in Laters => j = k

AckFirst(i) ==
    \A j \in 1 .. Len(said) : said[j].of = i /\ said[j].kind \in Laters =>
        \E h \in 1 .. j - 1 : said[h].of = i /\ said[h].kind = "ack"

Waiting(i) ==
    /\ Awaits(i, Answers) => ~HasSaid(i, Answers)
    /\ Awaits(i, Laters) => ~HasSaid(i, Laters) /\ Has(i, {"ack"}) /\ i \notin tasks

\* A task, or an exec that will be one, has said no last word; a stream has its ack first.
Executing(i) ==
    /\ i \in tasks \/ ToSpawn(i) =>
        /\ ~Has(i, Laters) /\ ~Has(i, {"nack"}) /\ asked[i] \notin Mutating /\ enabled
        /\ asked[i] = "stream" => Has(i, {"ack"})
        /\ asked[i] # "stream" => ~Has(i, Answers)
    /\ ~(i \in tasks /\ ToSpawn(i))
    /\ i \in tasks \/ phase = "spawn" => ~Awaits(i, Answers)

Honest(i) ==
    /\ Has(i, {"ack"}) /\ asked[i] \in Mutating => i \in did
    /\ Has(i, {"nack"}) => i \notin did \cup spawned

\* Nobody is forgotten while there is a channel to answer in.
Served(i) ==
    writer = "up" => Has(i, Answers) \/ (asked[i] # "stream" /\ (i \in tasks \/ ToSpawn(i)))

RequestInv(i) ==
    OneEach(i) /\ AckFirst(i) /\ Waiting(i) /\ Executing(i) /\ Honest(i) /\ Served(i)

\* Nothing happens before the welcome.
Greeted ==
    /\ said # <<>> => said[1].kind = "welcome"
    /\ said = <<>> => asked = <<>> /\ ~cast
    /\ said = <<>> /\ sending # <<>> => sending[1].kind \in {"welcome", "pong", "error"}
    /\ said = <<>> /\ authed => phase = "drain" \/ (sending = <<Msg(0, "welcome")>> /\ firm)

Allowed == ~enabled => spawned = {}

\* The inductive invariant.
IInv ==
    /\ Typing /\ Sending /\ Greeted /\ Allowed
    /\ \A i \in 1 .. Len(asked) : RequestInv(i)

--------------------------------------------------------------------------------
(* Sequences of messages.                                                      *)

LEMMA OneMessage ==
    ASSUME NEW m \in Message
    PROVE  /\ <<m>> \in Seq(Message) /\ <<m>> # <<>> /\ Len(<<m>>) = 1 /\ <<m>>[1] = m
           /\ Head(<<m>>) = m /\ Tail(<<m>>) = <<>>
OBVIOUS

LEMMA TwoMessages ==
    ASSUME NEW m \in Message, NEW n \in Message
    PROVE  /\ <<m, n>> \in Seq(Message) /\ <<m, n>> # <<>> /\ Len(<<m, n>>) = 2
           /\ <<m, n>>[1] = m /\ <<m, n>>[2] = n /\ Head(<<m, n>>) = m /\ Tail(<<m, n>>) = <<n>>
OBVIOUS

LEMMA NoMessage == <<>> \in Seq(Message) /\ Len(<<>>) = 0
OBVIOUS

LEMMA MsgTyped ==
    ASSUME NEW i \in Nat, NEW k \in Answers \cup Laters \cup {"welcome", "pong", "error"}
    PROVE  Msg(i, k) \in Message /\ Msg(i, k).of = i /\ Msg(i, k).kind = k
BY DEF Msg, Message

\* What an appended message changes.
LEMMA Appended ==
    ASSUME NEW q \in Seq(Message), NEW m \in Message
    PROVE  /\ Append(q, m) \in Seq(Message) /\ Append(q, m) # <<>>
           /\ Len(q) \in Nat /\ Len(Append(q, m)) = Len(q) + 1
           /\ \A j \in 1 .. Len(q) : Append(q, m)[j] = q[j]
           /\ Append(q, m)[Len(q) + 1] = m
OBVIOUS

\* The ack and what follows it.
LEMMA Joined ==
    ASSUME NEW m \in Message, NEW n \in Message
    PROVE  <<m>> \o <<n>> = <<m, n>> /\ <<m>> \o <<>> = <<m>>
<1>1. <<m>> \in Seq(Message) /\ <<n>> \in Seq(Message)
  BY OneMessage
<1>2. Append(<<m>>, n) = <<m>> \o <<n>>
  BY <1>1, AppendIsConcat, Zenon
<1>3. Append(<<m>>, n) = <<m, n>>
  <2> DEFINE one == <<m>>
             q == Append(one, n)
             p == <<m, n>>
  <2>1. one \in Seq(Message) /\ Len(one) = 1 /\ one[1] = m
    BY OneMessage
  <2>2. p \in Seq(Message) /\ Len(p) = 2 /\ p[1] = m /\ p[2] = n
    BY TwoMessages
  <2> HIDE DEF one, p
  <2>3. q \in Seq(Message) /\ Len(q) = 2 /\ q[1] = m /\ q[2] = n
    <3>1. /\ q \in Seq(Message) /\ Len(q) = Len(one) + 1 /\ q[Len(one) + 1] = n
          /\ \A j \in 1 .. Len(one) : q[j] = one[j]
      BY <2>1, Appended
    <3> HIDE DEF q
    <3>2. QED
      BY <2>1, <3>1
  <2> HIDE DEF q
  <2>4. \A j \in 1 .. Len(q) : q[j] = p[j]
    BY <2>2, <2>3
  <2>5. q = p
    BY <2>2, <2>3, <2>4, SeqEqual
  <2>6. QED
    BY <2>5 DEF q, p, one
<1>4. <<m>> \o <<>> = <<m>>
  BY <1>1, ConcatEmptySeq, Zenon
<1>5. QED
  BY <1>2, <1>3, <1>4

\* What awaits its place in the channel, spelled out.
LEMMA AwaitsWhat ==
    ASSUME Typing, OnItsWay, NEW i \in 1 .. Len(asked), NEW kinds
    PROVE  /\ sending = <<>> => ~Awaits(i, kinds)
           /\ \A k \in {"pong", "error", "welcome"} : sending = <<Msg(0, k)>> => ~Awaits(i, kinds)
           /\ \A k \in Answers \cup {"followup"} :
                 sending = <<Msg(Len(asked), k)>> =>
                    (Awaits(i, kinds) <=> i = Len(asked) /\ k \in kinds)
           /\ sending = <<Msg(Len(asked), "ack"), Msg(Len(asked), "followup")>> =>
                 (Awaits(i, kinds) <=> i = Len(asked) /\ ("ack" \in kinds \/ "followup" \in kinds))
<1>0. Len(asked) \in Nat /\ i # 0
  BY DEF Typing
<1>1. sending = <<>> => ~Awaits(i, kinds)
  BY NoMessage DEF Awaits
<1>2. ASSUME NEW k \in {"pong", "error", "welcome"}, sending = <<Msg(0, k)>>
      PROVE  ~Awaits(i, kinds)
  BY <1>0, <1>2, MsgTyped, OneMessage DEF Awaits
<1>3. ASSUME NEW k \in Answers \cup {"followup"}, sending = <<Msg(Len(asked), k)>>
      PROVE  Awaits(i, kinds) <=> i = Len(asked) /\ k \in kinds
  <2>1. Msg(Len(asked), k) \in Message /\ Msg(Len(asked), k).of = Len(asked)
        /\ Msg(Len(asked), k).kind = k
    BY <1>0, MsgTyped DEF Laters
  <2>2. QED
    BY <1>3, <2>1, OneMessage DEF Awaits
<1>4. ASSUME sending = <<Msg(Len(asked), "ack"), Msg(Len(asked), "followup")>>
      PROVE  Awaits(i, kinds) <=> i = Len(asked) /\ ("ack" \in kinds \/ "followup" \in kinds)
  <2> DEFINE a == Msg(Len(asked), "ack")
             f == Msg(Len(asked), "followup")
  <2>1. /\ a \in Message /\ a.of = Len(asked) /\ a.kind = "ack"
        /\ f \in Message /\ f.of = Len(asked) /\ f.kind = "followup"
    BY <1>0, MsgTyped DEF Laters, Answers
  <2> HIDE DEF a, f
  <2>2. Len(sending) = 2 /\ sending[1] = a /\ sending[2] = f
    BY <1>4, <2>1, TwoMessages DEF a, f
  <2>3. QED
    BY <2>1, <2>2 DEF Awaits
<1>5. QED
  BY <1>1, <1>2, <1>3, <1>4

--------------------------------------------------------------------------------
(* Steps that say nothing of a request.                                        *)

\* What a step leaves alone when it neither queues a message nor takes a request.
Same == UNCHANGED <<enabled, asked, said, did, spawned, tasks>>

\* The invariant of a request depends on what is said, what awaits and what is spawned.
LEMMA SimilarRequest ==
    ASSUME NEW i, RequestInv(i), OneEach(i)', AckFirst(i)',
           enabled' = enabled, asked'[i] = asked[i], i \in tasks' <=> i \in tasks,
           i \in did' <=> i \in did, i \in spawned' <=> i \in spawned,
           writer' = "up" => writer = "up",
           \A kinds : HasSaid(i, kinds)' <=> HasSaid(i, kinds),
           \A kinds : Awaits(i, kinds)' <=> Awaits(i, kinds),
           ToSpawn(i)' <=> ToSpawn(i), phase' = "spawn" => phase = "spawn" \/ ~Awaits(i, Answers)
    PROVE  RequestInv(i)'
<1>1. \A kinds : Has(i, kinds)' <=> Has(i, kinds)
  BY DEF Has
<1>2. Waiting(i)' /\ Honest(i)' /\ Served(i)'
  BY <1>1 DEF RequestInv, Waiting, Honest, Served
<1>3. Executing(i)'
  BY <1>1 DEF RequestInv, Executing
<1>4. QED
  BY <1>2, <1>3 DEF RequestInv

LEMMA SameRequest ==
    ASSUME NEW i, RequestInv(i), Same, writer' = "up" => writer = "up",
           \A kinds : Awaits(i, kinds)' <=> Awaits(i, kinds),
           ToSpawn(i)' <=> ToSpawn(i), phase' = "spawn" => phase = "spawn"
    PROVE  RequestInv(i)'
<1>1. \A kinds : HasSaid(i, kinds)' <=> HasSaid(i, kinds)
  BY DEF Same, HasSaid
<1>2. OneEach(i)' /\ AckFirst(i)'
  BY DEF Same, RequestInv, OneEach, AckFirst
<1>3. QED
  BY <1>1, <1>2, SimilarRequest DEF Same

\* The steps of the loop that concern the connection as a whole.
Housekeeping ==
    Accept \/ Upgrade \/ Check \/ TimeOut \/ Leave \/ Ping \/ Ignore \/ Garbage \/ Hello

\* They find nothing on its way and leave at most a message of the connection.
LEMMA HousekeepingForm ==
    ASSUME IInv, Housekeeping
    PROVE  /\ Same /\ UNCHANGED <<age, writer, queued, cast>> /\ firm' \in BOOLEAN
           /\ sending = <<>> /\ next = "top" /\ phase \in {"none", "upgrading", "top", "wait"}
           /\ \/ /\ sending' = <<>> /\ next' = "top" /\ authed' = authed
                 /\ phase' \in {"upgrading", "top", "wait", "drain"}
                       \/ (phase = "upgrading" /\ phase' = "none")
                 /\ phase' = "upgrading" => phase = "none"
              \/ /\ phase \in {"top", "wait"} /\ phase' = "sending" /\ next' \in {"top", "drain"}
                 /\ \E k \in {"pong", "error", "welcome"} :
                       /\ sending' = <<Msg(0, k)>>
                       /\ authed' = authed \/ (~authed /\ authed' = TRUE /\ k = "welcome" /\ firm')
<1>0. /\ phase \notin {"sending", "sleep"} => sending = <<>> /\ next = "top"
      /\ firm \in BOOLEAN /\ authed \in BOOLEAN
  BY DEF IInv, Sending, Typing, SessionsTypeOK
<1>1. ASSUME NEW k, NEW next_, NEW strictly, Reply(<<Msg(0, k)>>, next_, strictly)
      PROVE  phase' = "sending" /\ sending' = <<Msg(0, k)>> /\ next' = next_ /\ firm' = strictly
  BY <1>1 DEF Reply
<1>2. CASE Accept \/ Upgrade \/ Leave \/ Ignore
  BY <1>0, <1>2 DEF Accept, Upgrade, Leave, Ignore, Go, Quiet, Same
<1>3. CASE Check
  <2>1. CASE Expired
    BY <1>0, <1>1, <1>3, <2>1 DEF Check, Quiet, Same, Bye
  <2>2. CASE ~Expired
    BY <1>0, <1>3, <2>2 DEF Check, Go, Quiet, Same
  <2>3. QED
    BY <2>1, <2>2
<1>4. CASE TimeOut
  BY <1>0, <1>1, <1>4 DEF TimeOut, Quiet, Same, Bye
<1>5. CASE Ping
  BY <1>0, <1>1, <1>5 DEF Ping, Quiet, Same
<1>6. CASE Garbage
  BY <1>0, <1>1, <1>6 DEF Garbage, Quiet, Same, Bye
<1>7. CASE Hello
  <2>1. PICK k \in {"error", "welcome"} : k = IF authed THEN "error" ELSE "welcome"
    OBVIOUS
  <2>2. Reply(<<Msg(0, k)>>, "top", TRUE)
    BY <1>7, <2>1 DEF Hello
  <2>3. phase' = "sending" /\ sending' = <<Msg(0, k)>> /\ next' = "top" /\ firm' = TRUE
    BY <1>1, <2>2
  <2>4. QED
    BY <1>0, <1>7, <2>1, <2>3 DEF Hello, Same
<1>8. QED
  BY <1>2, <1>3, <1>4, <1>5, <1>6, <1>7 DEF Housekeeping

LEMMA HousekeepingKeeps ==
    ASSUME IInv, Housekeeping
    PROVE  IInv'
<1>f. /\ Same /\ UNCHANGED <<age, writer, queued, cast>> /\ firm' \in BOOLEAN
      /\ sending = <<>> /\ next = "top" /\ phase \in {"none", "upgrading", "top", "wait"}
      /\ \/ /\ sending' = <<>> /\ next' = "top" /\ authed' = authed
            /\ phase' \in {"upgrading", "top", "wait", "drain"}
                  \/ (phase = "upgrading" /\ phase' = "none")
            /\ phase' = "upgrading" => phase = "none"
         \/ /\ phase \in {"top", "wait"} /\ phase' = "sending" /\ next' \in {"top", "drain"}
            /\ \E k \in {"pong", "error", "welcome"} :
                  /\ sending' = <<Msg(0, k)>>
                  /\ authed' = authed \/ (~authed /\ authed' = TRUE /\ k = "welcome" /\ firm')
  BY HousekeepingForm
<1> USE <1>f
<1>0. Typing /\ Sending /\ Greeted /\ Allowed /\ \A i \in 1 .. Len(asked) : RequestInv(i)
  BY DEF IInv
<1>1. sending' \in Seq(Message)
  BY MsgTyped, OneMessage, NoMessage
<1>2. Typing'
  <2>1. phase' = "sending" => sending' # <<>>
    BY OneMessage
  <2>2. /\ phase' \in {"none", "upgrading", "top", "wait", "spawn", "sleep", "sending", "drain"}
        /\ next' \in {"top", "spawn", "drain"} /\ authed' \in BOOLEAN
    BY <1>0 DEF Typing, SessionsTypeOK
  <2>3. age' \in 0 .. 2 /\ writer' \in {"up", "gone"} /\ queued' \in 0 .. OutCap
    BY <1>0 DEF Typing, SessionsTypeOK
  <2>4. SessionsTypeOK'
    BY <2>1, <2>2, <2>3 DEF SessionsTypeOK
  <2>5. QED
    BY <1>0, <1>1, <2>4 DEF Typing, Same
<1>3. Sending'
  <2>1. OnItsWay'
    BY DEF OnItsWay
  <2>2. QED
    BY <1>0, <2>1 DEF Sending, Same
<1>4. Greeted'
  <2>1. ASSUME sending' # <<>> PROVE sending'[1].kind \in {"welcome", "pong", "error"}
    BY <2>1, MsgTyped, OneMessage
  <2>2. QED
    BY <1>0, <2>1 DEF Greeted, Same
<1>5. Allowed'
  BY <1>0 DEF Allowed, Same
<1>6. ASSUME NEW i \in 1 .. Len(asked)' PROVE RequestInv(i)'
  <2>1. i \in 1 .. Len(asked)
    BY DEF Same
  <2>2. \A kinds : ~Awaits(i, kinds)
    BY <1>0, <2>1, AwaitsWhat DEF Sending
  <2>3. \A kinds : ~Awaits(i, kinds)'
    <3>1. i # 0
      BY <1>0, <2>1 DEF Typing
    <3>2. CASE sending' = <<>>
      BY <3>2, NoMessage DEF Awaits
    <3>3. ASSUME NEW k \in {"pong", "error", "welcome"}, sending' = <<Msg(0, k)>>
          PROVE  \A kinds : ~Awaits(i, kinds)'
      BY <3>1, <3>3, MsgTyped, OneMessage DEF Awaits
    <3>4. QED
      BY <3>2, <3>3
  <2>4. ~ToSpawn(i) /\ ~ToSpawn(i)' /\ phase' # "spawn"
    BY DEF ToSpawn
  <2>5. QED
    BY <1>0, <2>1, <2>2, <2>3, <2>4, SameRequest
<1>7. QED
  BY <1>2, <1>3, <1>4, <1>5, <1>6 DEF IInv

\* The writer, the clock, and the end of a wait move no message but to the peer.
LEMMA WriterKeeps ==
    ASSUME IInv, Write \/ Tick \/ Wake
    PROVE  IInv'
<1>0. Typing /\ Sending /\ Greeted /\ Allowed /\ \A i \in 1 .. Len(asked) : RequestInv(i)
  BY DEF IInv
<1>1. /\ Same /\ UNCHANGED <<sending, next, firm, authed, cast>>
      /\ writer' = "up" => writer = "up"
      /\ phase' = phase \/ (phase = "sleep" /\ phase' = "sending" /\ sending # <<>>)
  BY <1>0 DEF Write, Tick, Wake, Reply, Quiet, Same, Sending
<1>2. Typing'
  <2>1. age' \in 0 .. 2 /\ writer' \in {"up", "gone"} /\ queued' \in 0 .. OutCap
    BY <1>0, SessionsAssumption DEF Write, Tick, Wake, Quiet, Typing, SessionsTypeOK, SessionsAssumption
  <2>2. SessionsTypeOK'
    BY <1>0, <1>1, <2>1 DEF Typing, SessionsTypeOK
  <2>3. QED
    BY <1>0, <1>1, <2>2 DEF Typing, Same
<1>3. Sending'
  BY <1>0, <1>1 DEF Sending, OnItsWay, Same
<1>4. Greeted' /\ Allowed'
  BY <1>0, <1>1 DEF Greeted, Allowed, Same
<1>5. ASSUME NEW i \in 1 .. Len(asked)' PROVE RequestInv(i)'
  <2>1. i \in 1 .. Len(asked)
    BY <1>1 DEF Same
  <2>2. \A kinds : Awaits(i, kinds)' <=> Awaits(i, kinds)
    BY <1>1 DEF Awaits
  <2>3. (ToSpawn(i)' <=> ToSpawn(i)) /\ (phase' = "spawn" => phase = "spawn")
    BY <1>1 DEF ToSpawn, Same
  <2>4. QED
    BY <1>0, <1>1, <2>1, <2>2, <2>3, SameRequest
<1>6. QED
  BY <1>2, <1>3, <1>4, <1>5 DEF IInv

\* A message that cannot be queued is lost with those after it: the channel is closed, nobody
\* can be answered any more.
LEMMA PutFailsKeeps ==
    ASSUME IInv, PutFails
    PROVE  IInv'
<1>0. Typing /\ Sending /\ Greeted /\ Allowed /\ \A i \in 1 .. Len(asked) : RequestInv(i)
  BY DEF IInv
<1>1. /\ Same /\ UNCHANGED <<age, writer, queued, authed, cast>> /\ writer = "gone"
      /\ sending' = <<>> /\ next' = "top" /\ firm' = TRUE
      /\ phase' \in {"top", "drain"} /\ (firm => phase' = "drain") /\ phase = "sending"
  BY <1>0 DEF PutFails, Go, Quiet, Same, Typing, SessionsTypeOK, Sending
<1>2. Typing'
  BY <1>0, <1>1, NoMessage DEF Typing, SessionsTypeOK, Same
<1>3. Sending'
  BY <1>0, <1>1 DEF Sending, OnItsWay, Same
<1>4. Greeted' /\ Allowed'
  BY <1>0, <1>1 DEF Greeted, Allowed, Same
<1>5. ASSUME NEW i \in 1 .. Len(asked)' PROVE RequestInv(i)'
  <2>1. i \in 1 .. Len(asked)
    BY <1>1 DEF Same
  <2>2. \A kinds : ~Awaits(i, kinds)'
    BY <1>1, NoMessage DEF Awaits
  <2>3. \A kinds : (HasSaid(i, kinds)' <=> HasSaid(i, kinds)) /\ (Has(i, kinds)' <=> HasSaid(i, kinds))
    BY <1>1, <2>2 DEF Same, HasSaid, Has
  <2>4. ~ToSpawn(i)' /\ phase' # "spawn"
    BY <1>1 DEF ToSpawn
  <2>5. OneEach(i)' /\ AckFirst(i)'
    BY <1>0, <1>1, <2>1 DEF Same, RequestInv, OneEach, AckFirst
  <2>6. Waiting(i)' /\ Served(i)'
    BY <1>1, <2>2 DEF Waiting, Served
  <2>7. Honest(i)'
    BY <1>0, <1>1, <2>1, <2>3 DEF Same, RequestInv, Honest, Has
  <2>8. Executing(i)'
    <3>1. i \in tasks => (Has(i, {"ack"}) => HasSaid(i, {"ack"}))
      BY <1>0, <2>1 DEF RequestInv, Executing, Has, Awaits, Answers
    <3>2. QED
      BY <1>0, <1>1, <2>1, <2>2, <2>3, <2>4, <3>1 DEF Same, RequestInv, Executing, Has
  <2>9. QED
    BY <2>5, <2>6, <2>7, <2>8 DEF RequestInv
<1>6. QED
  BY <1>2, <1>3, <1>4, <1>5 DEF IInv

--------------------------------------------------------------------------------
(* Messages into the channel.                                                  *)

\* A message put in the channel is said, unless it is of the connection; the next ones, or
\* what comes after them, follow.
LEMMA PutForm ==
    ASSUME IInv, Put
    PROVE  \E m \in Message :
             /\ sending # <<>> /\ phase = "sending" /\ writer = "up"
             /\ m = sending[1]
             /\ said' = IF m.kind \in {"pong", "error"} THEN said ELSE Append(said, m)
             /\ \/ /\ sending = <<m>> /\ sending' = <<>> /\ phase' = next /\ next' = "top"
                   /\ firm' = TRUE
                \/ /\ sending = <<Msg(Len(asked), "ack"), Msg(Len(asked), "followup")>>
                   /\ sending' = <<Msg(Len(asked), "followup")>>
                   /\ phase' = "sending" /\ next' = next /\ firm' = firm
             /\ queued' = queued + 1 /\ queued < OutCap
             /\ UNCHANGED <<enabled, authed, age, writer, cast, tasks, asked, did, spawned>>
<1>0. Typing /\ OnItsWay /\ phase = "sending" /\ sending # <<>> /\ Len(asked) \in Nat
  BY DEF IInv, Sending, Typing, SessionsTypeOK, Put
<1>1. ASSUME NEW m \in Message, sending = <<m>>
      PROVE  /\ m = sending[1] /\ Head(sending) = m
             /\ sending' = <<>> /\ phase' = next /\ next' = "top" /\ firm' = TRUE
  BY <1>1, OneMessage DEF Put, Reply, Go
<1>2. CASE \E k \in {"pong", "error", "welcome"} : sending = <<Msg(0, k)>>
  <2>1. PICK k \in {"pong", "error", "welcome"} : sending = <<Msg(0, k)>>
    BY <1>2
  <2>2. Msg(0, k) \in Message
    BY MsgTyped
  <2>3. QED
    BY <1>0, <1>1, <2>1, <2>2 DEF Put, Heard
<1>3. CASE \E k \in Answers \cup {"followup"} : sending = <<Msg(Len(asked), k)>>
  <2>1. PICK k \in Answers \cup {"followup"} : sending = <<Msg(Len(asked), k)>>
    BY <1>3
  <2>2. Msg(Len(asked), k) \in Message
    BY <1>0, MsgTyped DEF Laters
  <2>3. QED
    BY <1>0, <1>1, <2>1, <2>2 DEF Put, Heard
<1>4. CASE sending = <<Msg(Len(asked), "ack"), Msg(Len(asked), "followup")>>
  <2> DEFINE a == Msg(Len(asked), "ack")
             f == Msg(Len(asked), "followup")
  <2>1. a \in Message /\ f \in Message
    BY <1>0, MsgTyped DEF Laters, Answers
  <2> HIDE DEF a, f
  <2>2. sending = <<a, f>> /\ sending[1] = a /\ Head(sending) = a /\ Tail(sending) = <<f>> /\ <<f>> # <<>>
    BY <1>4, <2>1, TwoMessages, OneMessage DEF a, f
  <2>3. sending' = <<f>> /\ phase' = "sending" /\ next' = next /\ firm' = firm
    BY <2>2 DEF Put, Reply
  <2>4. QED
    BY <1>0, <1>4, <2>1, <2>2, <2>3 DEF Put, Heard, a, f
<1>5. QED
  BY <1>0, <1>2, <1>3, <1>4 DEF OnItsWay

\* What is said of a request when m has been added.
LEMMA SaidMore ==
    ASSUME said \in Seq(Message), NEW m \in Message, said' = Append(said, m), NEW i, NEW kinds
    PROVE  HasSaid(i, kinds)' <=> HasSaid(i, kinds) \/ (m.of = i /\ m.kind \in kinds)
<1>1. /\ Len(said) \in Nat /\ Len(said') = Len(said) + 1
      /\ \A j \in 1 .. Len(said) : said'[j] = said[j]
      /\ said'[Len(said) + 1] = m
  BY Appended
<1>2. ASSUME HasSaid(i, kinds)' PROVE HasSaid(i, kinds) \/ (m.of = i /\ m.kind \in kinds)
  <2>1. PICK j \in 1 .. Len(said) + 1 : said'[j].of = i /\ said'[j].kind \in kinds
    BY <1>1, <1>2 DEF HasSaid
  <2>2. QED
    BY <1>1, <2>1 DEF HasSaid
<1>3. ASSUME HasSaid(i, kinds) \/ (m.of = i /\ m.kind \in kinds) PROVE HasSaid(i, kinds)'
  <2>1. CASE HasSaid(i, kinds)
    <3>1. PICK j \in 1 .. Len(said) : said[j].of = i /\ said[j].kind \in kinds
      BY <2>1 DEF HasSaid
    <3>2. j \in 1 .. Len(said') /\ said'[j] = said[j]
      BY <1>1, <3>1
    <3>3. QED
      BY <3>1, <3>2 DEF HasSaid
  <2>2. CASE m.of = i /\ m.kind \in kinds
    BY <1>1, <2>2 DEF HasSaid
  <2>3. QED
    BY <1>3, <2>1, <2>2
<1>4. QED
  BY <1>2, <1>3

\* A first answer, or a first observation after an ack, keeps the order of what is said.
LEMMA SaidInOrder ==
    ASSUME said \in Seq(Message), NEW m \in Message, said' = Append(said, m), NEW i,
           OneEach(i), AckFirst(i),
           m.of = i /\ m.kind \in Answers => ~HasSaid(i, Answers),
           m.of = i /\ m.kind \in Laters => ~HasSaid(i, Laters) /\ HasSaid(i, {"ack"})
    PROVE  OneEach(i)' /\ AckFirst(i)'
<1>1. /\ Len(said) \in Nat /\ Len(said') = Len(said) + 1
      /\ \A j \in 1 .. Len(said) : said'[j] = said[j]
      /\ said'[Len(said) + 1] = m
  BY Appended
<1>2. \A j \in 1 .. Len(said') : j \in 1 .. Len(said) \/ j = Len(said) + 1
  BY <1>1
<1>3. OneEach(i)'
  <2>1. SUFFICES ASSUME NEW j \in 1 .. Len(said'), NEW k \in 1 .. Len(said'),
                        said'[j].of = i, said'[k].of = i
                 PROVE  /\ said'[j].kind \in Answers /\ said'[k].kind \in Answers => j = k
                        /\ said'[j].kind \in Laters /\ said'[k].kind \in Laters => j = k
    BY DEF OneEach
  <2>2. CASE j \in 1 .. Len(said) /\ k \in 1 .. Len(said)
    BY <1>1, <2>1, <2>2 DEF OneEach
  <2>3. CASE j \in 1 .. Len(said) /\ k = Len(said) + 1
    BY <1>1, <2>1, <2>3 DEF HasSaid
  <2>4. CASE j = Len(said) + 1 /\ k \in 1 .. Len(said)
    BY <1>1, <2>1, <2>4 DEF HasSaid
  <2>5. QED
    BY <1>2, <2>2, <2>3, <2>4
<1>4. AckFirst(i)'
  <2>1. SUFFICES ASSUME NEW j \in 1 .. Len(said'), said'[j].of = i, said'[j].kind \in Laters
                 PROVE  \E h \in 1 .. j - 1 : said'[h].of = i /\ said'[h].kind = "ack"
    BY DEF AckFirst
  <2>2. CASE j \in 1 .. Len(said)
    <3>1. PICK h \in 1 .. j - 1 : said[h].of = i /\ said[h].kind = "ack"
      BY <1>1, <2>1, <2>2 DEF AckFirst
    <3>2. h \in 1 .. Len(said)
      BY <1>1, <2>2, <3>1
    <3>3. QED
      BY <1>1, <3>1, <3>2
  <2>3. CASE j = Len(said) + 1
    <3>1. PICK h \in 1 .. Len(said) : said[h].of = i /\ said[h].kind = "ack"
      BY <1>1, <2>1, <2>3 DEF HasSaid
    <3>2. QED
      BY <1>1, <2>3, <3>1
  <2>4. QED
    BY <1>2, <2>2, <2>3
<1>5. QED
  BY <1>3, <1>4

\* The welcome comes first.
LEMMA FirstSaid ==
    ASSUME said \in Seq(Message), NEW m \in Message, said' = Append(said, m),
           said # <<>> => said[1].kind = "welcome", said = <<>> => m.kind = "welcome"
    PROVE  said' # <<>> /\ said'[1].kind = "welcome"
<1>1. CASE said = <<>>
  <2>1. Len(said) = 0
    BY <1>1, NoMessage
  <2>2. said' # <<>> /\ said'[1] = m
    BY <2>1, Appended
  <2>3. QED
    BY <1>1, <2>2
<1>2. CASE said # <<>>
  <2>1. 1 \in 1 .. Len(said)
    BY <1>2
  <2>2. said' # <<>> /\ said'[1] = said[1]
    BY <2>1, Appended
  <2>3. QED
    BY <1>2, <2>2
<1>3. QED
  BY <1>1, <1>2

\* What a Put does to a request: its message goes from what awaits to what is said.
LEMMA PutRequest ==
    ASSUME IInv, Put, NEW i \in 1 .. Len(asked)
    PROVE  RequestInv(i)'
<1>0. Typing /\ Sending /\ OnItsWay /\ RequestInv(i) /\ Len(asked) \in Nat /\ said \in Seq(Message)
  BY DEF IInv, Typing, Sending
<1> DEFINE Kinds_ == SUBSET (Answers \cup Laters)
<1>1. PICK m \in Message :
        /\ sending # <<>> /\ phase = "sending" /\ writer = "up"
        /\ said' = IF m.kind \in {"pong", "error"} THEN said ELSE Append(said, m)
        /\ \/ /\ sending = <<m>> /\ sending' = <<>> /\ phase' = next /\ next' = "top"
           \/ /\ sending = <<Msg(Len(asked), "ack"), Msg(Len(asked), "followup")>> /\ m = sending[1]
              /\ sending' = <<Msg(Len(asked), "followup")>>
              /\ phase' = "sending" /\ next' = next
        /\ UNCHANGED <<enabled, writer, tasks, asked, did, spawned>>
  BY PutForm
<1>2. \A kinds \in Kinds_ : HasSaid(i, kinds)' <=> HasSaid(i, kinds) \/ (m.of = i /\ m.kind \in kinds)
  <2>1. CASE m.kind \in {"pong", "error"}
    BY <1>1, <2>1 DEF HasSaid, Answers, Laters
  <2>2. CASE m.kind \notin {"pong", "error"}
    BY <1>0, <1>1, <2>2, SaidMore
  <2>3. QED
    BY <2>1, <2>2
<1>3. \A kinds \in Kinds_ :
        /\ m.of = i /\ m.kind \in kinds => Awaits(i, kinds)
        /\ Awaits(i, kinds)' => Awaits(i, kinds)
        /\ Awaits(i, kinds) => Awaits(i, kinds)' \/ (m.of = i /\ m.kind \in kinds)
        /\ Awaits(i, kinds)' => m.kind = "ack" /\ m.of = i /\ "followup" \in kinds
  <2>1. CASE sending = <<m>> /\ sending' = <<>>
    BY <2>1, OneMessage, NoMessage DEF Awaits
  <2>2. CASE /\ sending = <<Msg(Len(asked), "ack"), Msg(Len(asked), "followup")>> /\ m = sending[1]
             /\ sending' = <<Msg(Len(asked), "followup")>>
    <3> DEFINE a == Msg(Len(asked), "ack")
               f == Msg(Len(asked), "followup")
    <3>1. /\ a \in Message /\ a.of = Len(asked) /\ a.kind = "ack"
          /\ f \in Message /\ f.of = Len(asked) /\ f.kind = "followup"
      BY <1>0, MsgTyped DEF Laters, Answers
    <3> HIDE DEF a, f
    <3>2. /\ Len(sending) = 2 /\ sending[1] = a /\ sending[2] = f /\ m = a
          /\ Len(sending') = 1 /\ sending'[1] = f
      BY <2>2, <3>1, TwoMessages, OneMessage DEF a, f
    <3>3. QED
      BY <3>1, <3>2 DEF Awaits
  <2>3. QED
    BY <1>1, <2>1, <2>2
<1>4. /\ Answers \in Kinds_ /\ Laters \in Kinds_ /\ {"ack"} \in Kinds_ /\ {"nack"} \in Kinds_
      /\ "followup" \notin Answers /\ "ack" \notin Laters
  BY DEF Answers, Laters
<1> HIDE DEF Kinds_
<1>5. \A kinds \in Kinds_ : Has(i, kinds)' <=> Has(i, kinds)
  BY <1>2, <1>3 DEF Has
<1>6. ToSpawn(i)' <=> ToSpawn(i)
  BY <1>1 DEF ToSpawn
<1>7. OneEach(i)' /\ AckFirst(i)'
  <2>1. OneEach(i) /\ AckFirst(i) /\ Waiting(i)
    BY <1>0 DEF RequestInv
  <2>2. m.of = i /\ m.kind \in Answers => ~HasSaid(i, Answers)
    BY <1>3, <1>4, <2>1 DEF Waiting
  <2>3. m.of = i /\ m.kind \in Laters => ~HasSaid(i, Laters) /\ HasSaid(i, {"ack"})
    <3>1. SUFFICES ASSUME m.of = i, m.kind \in Laters PROVE ~HasSaid(i, Laters) /\ HasSaid(i, {"ack"})
      OBVIOUS
    <3>2. ~HasSaid(i, Laters) /\ Has(i, {"ack"})
      BY <1>3, <1>4, <2>1, <3>1 DEF Waiting
    <3>3. ~Awaits(i, {"ack"})
      BY <1>3, <1>4, <3>1 DEF Laters
    <3>4. QED
      BY <3>2, <3>3 DEF Has
  <2>4. CASE m.kind \in {"pong", "error"}
    BY <1>1, <2>1, <2>4 DEF OneEach, AckFirst
  <2>5. CASE m.kind \notin {"pong", "error"}
    BY <1>0, <1>1, <2>1, <2>2, <2>3, <2>5, SaidInOrder
  <2>6. QED
    BY <2>4, <2>5
<1>8. Waiting(i)'
  <2>1. ~Awaits(i, Answers)'
    BY <1>3, <1>4
  <2>2. ASSUME Awaits(i, Laters)' PROVE ~HasSaid(i, Laters)' /\ Has(i, {"ack"})' /\ i \notin tasks'
    <3>1. Awaits(i, Laters) /\ m.kind = "ack"
      BY <1>3, <1>4, <2>2
    <3>2. ~HasSaid(i, Laters) /\ Has(i, {"ack"}) /\ i \notin tasks
      BY <1>0, <3>1 DEF RequestInv, Waiting
    <3>3. QED
      BY <1>1, <1>2, <1>4, <1>5, <3>1, <3>2
  <2>3. QED
    BY <2>1, <2>2 DEF Waiting
<1>9. Executing(i)'
  <2>1. ~Awaits(i, Answers)'
    BY <1>3, <1>4
  <2>2. QED
    BY <1>0, <1>1, <1>4, <1>5, <1>6, <2>1 DEF RequestInv, Executing
<1>10. Honest(i)' /\ Served(i)'
  BY <1>0, <1>1, <1>4, <1>5, <1>6 DEF RequestInv, Honest, Served
<1>11. QED
  BY <1>7, <1>8, <1>9, <1>10 DEF RequestInv

LEMMA PutKeeps ==
    ASSUME IInv, Put
    PROVE  IInv'
<1>0. /\ Typing /\ Sending /\ OnItsWay /\ Greeted /\ Allowed /\ Len(asked) \in Nat
      /\ said \in Seq(Message)
  BY DEF IInv, Typing, Sending
<1>1. PICK m \in Message :
        /\ sending # <<>> /\ phase = "sending" /\ writer = "up" /\ m = sending[1]
        /\ said' = IF m.kind \in {"pong", "error"} THEN said ELSE Append(said, m)
        /\ \/ /\ sending = <<m>> /\ sending' = <<>> /\ phase' = next /\ next' = "top" /\ firm' = TRUE
           \/ /\ sending = <<Msg(Len(asked), "ack"), Msg(Len(asked), "followup")>>
              /\ sending' = <<Msg(Len(asked), "followup")>>
              /\ phase' = "sending" /\ next' = next /\ firm' = firm
        /\ queued' = queued + 1 /\ queued < OutCap
        /\ UNCHANGED <<enabled, authed, age, writer, cast, tasks, asked, did, spawned>>
  BY PutForm
<1>2. m.of \in 0 .. Len(asked)
  <2>1. ASSUME NEW k \in {"pong", "error", "welcome"}, sending = <<Msg(0, k)>> PROVE m.of = 0
    BY <1>1, <2>1, MsgTyped, OneMessage
  <2>2. ASSUME NEW k \in Answers \cup {"followup"}, sending = <<Msg(Len(asked), k)>>
        PROVE  m.of = Len(asked)
    <3>1. Msg(Len(asked), k) \in Message /\ Msg(Len(asked), k).of = Len(asked)
      BY <1>0, MsgTyped DEF Laters
    <3>2. QED
      BY <1>1, <2>2, <3>1, OneMessage
  <2>3. ASSUME sending = <<Msg(Len(asked), "ack"), Msg(Len(asked), "followup")>>
        PROVE  m.of = Len(asked)
    <3>1. /\ Msg(Len(asked), "ack") \in Message /\ Msg(Len(asked), "ack").of = Len(asked)
          /\ Msg(Len(asked), "followup") \in Message
      BY <1>0, MsgTyped DEF Laters, Answers
    <3>2. QED
      BY <1>1, <2>3, <3>1, TwoMessages
  <2>4. QED
    BY <1>0, <1>1, <2>1, <2>2, <2>3 DEF OnItsWay
<1>3. Typing'
  <2>1. said' \in Seq(Message) /\ \A j \in 1 .. Len(said') : said'[j].of \in 0 .. Len(asked)
    <3>1. \A j \in 1 .. Len(said) : said[j].of \in 0 .. Len(asked)
      BY <1>0 DEF Typing
    <3>2. CASE m.kind \in {"pong", "error"}
      BY <1>0, <1>1, <3>1, <3>2
    <3>3. CASE m.kind \notin {"pong", "error"}
      <4>1. said' = Append(said, m)
        BY <1>1, <3>3
      <4>2. \A j \in 1 .. Len(said') : j \in 1 .. Len(said) \/ j = Len(said) + 1
        BY <1>0, <4>1, Appended
      <4>3. QED
        BY <1>0, <1>2, <3>1, <4>1, <4>2, Appended
    <3>4. QED
      BY <3>2, <3>3
  <2>2. sending' \in Seq(Message) /\ (phase' = "sending" => sending' # <<>>)
    <3>1. Msg(Len(asked), "followup") \in Message
      BY <1>0, MsgTyped DEF Laters
    <3>2. next # "sending"
      BY <1>0 DEF Typing, SessionsTypeOK
    <3>3. CASE sending' = <<>> /\ phase' = next
      BY <3>2, <3>3, NoMessage
    <3>4. CASE sending' = <<Msg(Len(asked), "followup")>>
      BY <3>1, <3>4, OneMessage
    <3>5. QED
      BY <1>1, <3>3, <3>4
  <2>3. /\ phase' \in {"none", "upgrading", "top", "wait", "spawn", "sleep", "sending", "drain"}
        /\ next' \in {"top", "spawn", "drain"} /\ queued' \in 0 .. OutCap /\ firm' \in BOOLEAN
    <3>1. /\ next \in {"top", "spawn", "drain"} /\ queued \in 0 .. OutCap /\ firm \in BOOLEAN
          /\ OutCap \in Nat
      BY <1>0, SessionsAssumption DEF Typing, SessionsTypeOK, SessionsAssumption
    <3>2. queued' \in 0 .. OutCap
      BY <1>1, <3>1
    <3>3. QED
      BY <1>1, <3>1, <3>2
  <2>4. SessionsTypeOK'
    BY <1>0, <1>1, <2>2, <2>3 DEF Typing, SessionsTypeOK
  <2>5. QED
    BY <1>0, <1>1, <2>1, <2>2, <2>3, <2>4 DEF Typing
<1>4. Sending'
  <2>0. next \in {"top", "spawn", "drain"}
    BY <1>0 DEF Typing, SessionsTypeOK
  <2>1. OnItsWay'
    <3>1. CASE sending' = <<>>
      BY <3>1 DEF OnItsWay
    <3>2. CASE /\ sending = <<Msg(Len(asked), "ack"), Msg(Len(asked), "followup")>>
               /\ sending' = <<Msg(Len(asked), "followup")>>
      <4>1. Len(asked) > 0
        BY <1>0, <3>2, MsgTyped, OneMessage, NoMessage, TwoMessages DEF OnItsWay, Answers, Laters
      <4>2. QED
        BY <1>1, <3>2, <4>1 DEF OnItsWay
    <3>3. QED
      BY <1>1, <3>1, <3>2
  <2>2. QED
    BY <1>0, <1>1, <2>0, <2>1 DEF Sending
<1>5. Greeted'
  <2>1. said = <<>> => m.kind \in {"welcome", "pong", "error"}
    BY <1>0, <1>1 DEF Greeted
  <2>2. said = <<>> => sending = <<m>>
    <3>1. SUFFICES ASSUME said = <<>>,
                          sending = <<Msg(Len(asked), "ack"), Msg(Len(asked), "followup")>>
                   PROVE  FALSE
      BY <1>1
    <3>2. m.kind = "ack"
      <4>1. /\ Msg(Len(asked), "ack") \in Message /\ Msg(Len(asked), "ack").kind = "ack"
            /\ Msg(Len(asked), "followup") \in Message
        BY <1>0, MsgTyped DEF Laters, Answers
      <4>2. QED
        BY <1>1, <3>1, <4>1, TwoMessages
    <3>3. QED
      BY <2>1, <3>1, <3>2
  <2>3. CASE m.kind \in {"pong", "error"}
    <3>1. said' = said
      BY <1>1, <2>3
    <3>2. ~(said = <<>> /\ authed)
      <4>1. SUFFICES ASSUME said = <<>>, authed PROVE FALSE
        OBVIOUS
      <4>2. sending = <<Msg(0, "welcome")>>
        BY <1>0, <1>1, <4>1 DEF Greeted
      <4>3. m.kind = "welcome"
        BY <1>1, <4>2, MsgTyped, OneMessage
      <4>4. QED
        BY <2>3, <4>3
    <3>3. said = <<>> => sending' = <<>>
      <4>1. SUFFICES ASSUME said = <<>> PROVE sending' = <<>>
        OBVIOUS
      <4>2. Len(<<m>>) = 1 /\ Len(<<Msg(Len(asked), "ack"), Msg(Len(asked), "followup")>>) = 2
        BY OneMessage
      <4>3. QED
        BY <1>1, <2>2, <4>1, <4>2
    <3>4. QED
      BY <1>0, <1>1, <3>1, <3>2, <3>3 DEF Greeted
  <2>4. CASE m.kind \notin {"pong", "error"}
    <3>1. said' # <<>> /\ said'[1].kind = "welcome"
      BY <1>0, <1>1, <2>1, <2>4, FirstSaid DEF Greeted
    <3>2. QED
      BY <3>1 DEF Greeted
  <2>5. QED
    BY <2>3, <2>4
<1>6. Allowed'
  BY <1>0, <1>1 DEF Allowed
<1>7. ASSUME NEW i \in 1 .. Len(asked)' PROVE RequestInv(i)'
  BY <1>1, PutRequest
<1>8. QED
  BY <1>3, <1>4, <1>5, <1>6, <1>7 DEF IInv

--------------------------------------------------------------------------------
(* Requests and their tasks.                                                   *)

\* What the handling of a request may come to.
LEMMA StepForms ==
    ASSUME NEW i \in Nat \ {0}, NEW r \in Requests, NEW s \in Steps(i, r)
    PROVE  \/ /\ s.did /\ s.stream = "none" /\ ~s.exec /\ r.verb \in Mutating
              /\ r.verb = "launch" => enabled
              /\ s.replies = <<Msg(i, "ack")>> \/ s.replies = <<Msg(i, "ack"), Msg(i, "followup")>>
           \/ /\ ~s.did /\ s.stream = "none" /\ ~s.exec
              /\ \/ s.replies = <<Msg(i, "nack")>>
                 \/ s.replies = <<Msg(i, "result")>> /\ r.verb \notin Mutating
                 \/ s.replies = <<Msg(i, "ack")>> /\ r.verb = "wait"
           \/ /\ ~s.did /\ s.stream \in {"start", "stop"} /\ ~s.exec /\ r.verb \notin Mutating
              /\ s.replies = <<Msg(i, "ack")>>
           \/ /\ ~s.did /\ s.stream = "none" /\ s.exec /\ r.verb = "exec" /\ enabled
              /\ s.replies = IF r.stream THEN <<Msg(i, "ack")>> ELSE <<>>
<1>0. r.verb \in Verbs /\ r.observe \in {"none", "good", "bad"} /\ r.stream \in BOOLEAN
  BY DEF Requests
<1>1. CASE r.verb = "query"
  BY <1>1 DEF Steps, Mutating, Answer, Refusal
<1>2. CASE r.verb # "query" /\ Refused(r)
  BY <1>2 DEF Steps, Refusal
<1>3. CASE r.verb # "query" /\ ~Refused(r)
  <2>1. CASE r.verb \in Mutating
    <3>1. s = Acted(i, r) \/ s = Refusal(i)
      BY <1>3, <2>1 DEF Steps, Mutating
    <3>2. r.verb = "launch" => enabled
      BY <1>3 DEF Refused
    <3>3. CASE s = Acted(i, r)
      <4>1. (IF r.observe = "good" THEN <<Msg(i, "followup")>> ELSE <<>>)
              \in {<<Msg(i, "followup")>>, <<>>}
        OBVIOUS
      <4>2. /\ <<Msg(i, "ack")>> \o <<Msg(i, "followup")>> = <<Msg(i, "ack"), Msg(i, "followup")>>
            /\ <<Msg(i, "ack")>> \o <<>> = <<Msg(i, "ack")>>
        <5>1. Msg(i, "ack") \in Message /\ Msg(i, "followup") \in Message
          BY MsgTyped DEF Answers, Laters
        <5>2. QED
          BY <5>1, Joined
      <4>3. /\ s.did /\ s.stream = "none" /\ ~s.exec
            /\ s.replies = <<Msg(i, "ack")>> \/ s.replies = <<Msg(i, "ack"), Msg(i, "followup")>>
        BY <3>3, <4>1, <4>2 DEF Acted, Refusal
      <4>4. QED
        BY <2>1, <3>2, <4>3
    <3>4. QED
      BY <3>1, <3>3 DEF Refusal
  <2>2. CASE r.verb \in {"screenshot", "observe", "clipboard_get"}
    BY <1>3, <2>2 DEF Steps, Mutating, Answer, Refusal
  <2>3. CASE r.verb = "wait"
    BY <1>3, <2>3 DEF Steps, Mutating, Answer, Refusal
  <2>4. CASE r.verb = "stop"
    BY <1>3, <2>4 DEF Steps, Mutating, Answer, Refusal
  <2>5. CASE r.verb = "start"
    BY <1>3, <2>5 DEF Steps, Mutating, Answer, Refusal
  <2>6. CASE r.verb = "exec"
    <3>1. s = [Refusal(i) EXCEPT !.exec = TRUE,
                                 !.replies = IF r.stream THEN <<Msg(i, "ack")>> ELSE <<>>]
      BY <1>3, <2>6 DEF Steps, Mutating
    <3>2. enabled
      BY <1>3, <2>6 DEF Refused
    <3>3. QED
      BY <2>6, <3>1, <3>2 DEF Refusal
  <2>7. QED
    BY <1>0, <1>3, <2>1, <2>2, <2>3, <2>4, <2>5, <2>6 DEF Verbs, Capturing
<1>4. QED
  BY <1>1, <1>2, <1>3

\* A request is taken when nothing is on its way, and its answer is next, or its exec.
LEMMA HandleForm ==
    ASSUME IInv, NEW r \in Requests, Handle(r)
    PROVE  \E v \in Verbs \cup {"stream"}, n \in Nat \ {0} :
             /\ n = Len(asked) + 1
             /\ phase = "wait" /\ authed /\ sending = <<>> /\ next = "top"
             /\ asked' = Append(asked, v) /\ cast' \in BOOLEAN /\ firm' \in BOOLEAN
             /\ UNCHANGED <<enabled, authed, age, writer, queued, tasks, said>>
             /\ \/ /\ did' = did \cup {n} /\ phase' = "sending" /\ next' = "top"
                   /\ spawned' = spawned \/ (enabled /\ spawned' = spawned \cup {n})
                   /\ sending' = <<Msg(n, "ack")>> \/ sending' = <<Msg(n, "ack"), Msg(n, "followup")>>
                \/ /\ UNCHANGED <<did, spawned>> /\ phase' \in {"sending", "sleep"} /\ next' = "top"
                   /\ \E k \in Answers : sending' = <<Msg(n, k)>> /\ (k = "ack" => v \notin Mutating)
                \/ /\ UNCHANGED <<did, spawned>> /\ enabled /\ v = "stream" /\ firm' = TRUE
                   /\ phase' = "sending" /\ next' = "spawn" /\ sending' = <<Msg(n, "ack")>>
                \/ /\ UNCHANGED <<did, spawned>> /\ enabled /\ v = "exec"
                   /\ phase' = "spawn" /\ next' = "top" /\ sending' = <<>>
<1>0. /\ phase = "wait" /\ authed /\ sending = <<>> /\ next = "top" /\ Len(asked) \in Nat
      /\ cast \in BOOLEAN
  BY DEF IInv, Typing, Sending, Handle
<1> DEFINE n == Len(asked) + 1
           v == IF r.stream THEN "stream" ELSE r.verb
<1>1. n \in Nat \ {0}
  BY <1>0
<1>2. /\ r.verb \in Verbs /\ r.stream \in BOOLEAN /\ (r.stream => r.verb = "exec")
      /\ v \in Verbs \cup {"stream"}
  BY DEF Requests
<1>3. PICK s \in Steps(n, r), permit \in BOOLEAN :
        LET full == ~permit /\ (s.exec \/ s.stream = "start") IN
        /\ permit \/ full
        /\ asked' = Append(asked, v)
        /\ did' = IF s.did THEN did \cup {n} ELSE did
        /\ spawned' = IF s.did /\ r.verb = "launch" THEN spawned \cup {n} ELSE spawned
        /\ cast' = IF s.stream = "none" THEN cast ELSE s.stream = "start" /\ ~full
        /\ IF full THEN Reply(<<Msg(n, "nack")>>, "top", FALSE)
           ELSE IF s.exec THEN Reply(s.replies, "spawn", TRUE)
           ELSE IF r.verb = "wait" /\ s = Answer(n, "ack")
           THEN phase' = "sleep" /\ sending' = s.replies /\ next' = "top" /\ firm' = TRUE
           ELSE Reply(s.replies, "top", TRUE)
  BY Zenon DEF Handle
<1>4. UNCHANGED <<enabled, authed, age, writer, queued, tasks, said>>
  BY DEF Handle
<1>5. /\ \A m, p, b : Reply(<<m>>, p, b) =>
            phase' = "sending" /\ sending' = <<m>> /\ next' = p /\ firm' = b
      /\ \A m, q, p, b : Reply(<<m, q>>, p, b) =>
            phase' = "sending" /\ sending' = <<m, q>> /\ next' = p /\ firm' = b
      /\ \A p, b : Reply(<<>>, p, b) => phase' = p /\ sending' = <<>> /\ next' = "top" /\ firm' = TRUE
  BY DEF Reply, Go
<1> HIDE DEF n
<1> DEFINE full == ~permit /\ (s.exec \/ s.stream = "start")
<1>6. cast' \in BOOLEAN
  BY <1>0, <1>3
<1>7. CASE full
  <2>1. ~s.did
    BY <1>1, <1>7, StepForms
  <2>2. Reply(<<Msg(n, "nack")>>, "top", FALSE) /\ did' = did /\ spawned' = spawned
    BY <1>3, <1>7, <2>1
  <2>3. phase' = "sending" /\ sending' = <<Msg(n, "nack")>> /\ next' = "top" /\ firm' = FALSE
    BY <1>5, <2>2
  <2>4. "nack" \in Answers
    BY DEF Answers
  <2>5. QED
    BY <1>0, <1>1, <1>2, <1>3, <1>4, <1>6, <2>2, <2>3, <2>4 DEF n
<1>8. CASE ~full /\ s.exec
  <2>1. /\ ~s.did /\ r.verb = "exec" /\ enabled
        /\ s.replies = IF r.stream THEN <<Msg(n, "ack")>> ELSE <<>>
    BY <1>1, <1>8, StepForms
  <2>2. Reply(s.replies, "spawn", TRUE) /\ did' = did /\ spawned' = spawned
    BY <1>3, <1>8, <2>1
  <2>3. CASE r.stream
    <3>1. phase' = "sending" /\ sending' = <<Msg(n, "ack")>> /\ next' = "spawn" /\ firm' = TRUE
      BY <1>5, <2>1, <2>2, <2>3
    <3>2. QED
      BY <1>0, <1>1, <1>2, <1>3, <1>4, <1>6, <2>1, <2>2, <2>3, <3>1 DEF n
  <2>4. CASE ~r.stream
    <3>1. phase' = "spawn" /\ sending' = <<>> /\ next' = "top" /\ firm' = TRUE
      BY <1>5, <2>1, <2>2, <2>4
    <3>2. QED
      BY <1>0, <1>1, <1>2, <1>3, <1>4, <1>6, <2>1, <2>2, <2>4, <3>1 DEF n
  <2>5. QED
    BY <2>3, <2>4
<1>9. CASE ~full /\ ~s.exec
  <2>1. \/ /\ phase' = "sleep" /\ sending' = s.replies /\ next' = "top" /\ firm' = TRUE
           /\ r.verb = "wait" /\ s = Answer(n, "ack")
        \/ Reply(s.replies, "top", TRUE)
    BY <1>3, <1>9
  <2>2. CASE s.did
    <3>1. /\ r.verb \in Mutating /\ (r.verb = "launch" => enabled)
          /\ s.replies = <<Msg(n, "ack")>> \/ s.replies = <<Msg(n, "ack"), Msg(n, "followup")>>
      BY <1>1, <2>2, StepForms
    <3>2. Reply(s.replies, "top", TRUE)
      BY <2>1, <3>1 DEF Mutating
    <3>3. phase' = "sending" /\ sending' = s.replies /\ next' = "top" /\ firm' = TRUE
      BY <1>5, <3>1, <3>2
    <3>4. QED
      BY <1>0, <1>1, <1>2, <1>3, <1>4, <1>6, <2>2, <3>1, <3>3 DEF n
  <2>3. CASE ~s.did
    <3>1. \E k \in Answers : s.replies = <<Msg(n, k)>> /\ (k = "ack" => r.verb \notin Mutating)
      BY <1>1, <1>9, <2>3, StepForms DEF Answers, Mutating
    <3>2. PICK k \in Answers : s.replies = <<Msg(n, k)>> /\ (k = "ack" => r.verb \notin Mutating)
      BY <3>1
    <3>3. phase' \in {"sending", "sleep"} /\ sending' = <<Msg(n, k)>> /\ next' = "top" /\ firm' = TRUE
      BY <1>5, <2>1, <3>2
    <3>4. v \in Mutating => r.verb \in Mutating
      BY <1>2 DEF Mutating
    <3>5. QED
      BY <1>0, <1>1, <1>2, <1>3, <1>4, <1>6, <2>3, <3>2, <3>3, <3>4 DEF n
  <2>4. QED
    BY <2>2, <2>3
<1>10. QED
  BY <1>7, <1>8, <1>9

\* An earlier request is as it was; the new one has its answer on the way, or will be spawned.
LEMMA HandleKeeps ==
    ASSUME IInv, NEW r \in Requests, Handle(r)
    PROVE  IInv'
<1>0. /\ Typing /\ Sending /\ Greeted /\ Allowed /\ Len(asked) \in Nat /\ asked \in Seq(Verbs \cup {"stream"})
      /\ \A i \in 1 .. Len(asked) : RequestInv(i)
  BY DEF IInv, Typing
<1>1. PICK v \in Verbs \cup {"stream"}, n \in Nat \ {0} :
             /\ n = Len(asked) + 1
             /\ phase = "wait" /\ authed /\ sending = <<>> /\ next = "top"
             /\ asked' = Append(asked, v) /\ cast' \in BOOLEAN /\ firm' \in BOOLEAN
             /\ UNCHANGED <<enabled, authed, age, writer, queued, tasks, said>>
             /\ \/ /\ did' = did \cup {n} /\ phase' = "sending" /\ next' = "top"
                   /\ spawned' = spawned \/ (enabled /\ spawned' = spawned \cup {n})
                   /\ sending' = <<Msg(n, "ack")>> \/ sending' = <<Msg(n, "ack"), Msg(n, "followup")>>
                \/ /\ UNCHANGED <<did, spawned>> /\ phase' \in {"sending", "sleep"} /\ next' = "top"
                   /\ \E k \in Answers : sending' = <<Msg(n, k)>> /\ (k = "ack" => v \notin Mutating)
                \/ /\ UNCHANGED <<did, spawned>> /\ enabled /\ v = "stream" /\ firm' = TRUE
                   /\ phase' = "sending" /\ next' = "spawn" /\ sending' = <<Msg(n, "ack")>>
                \/ /\ UNCHANGED <<did, spawned>> /\ enabled /\ v = "exec"
                   /\ phase' = "spawn" /\ next' = "top" /\ sending' = <<>>
  BY HandleForm
<1>2. /\ asked' \in Seq(Verbs \cup {"stream"}) /\ Len(asked') = n /\ asked'[n] = v
      /\ \A i \in 1 .. Len(asked) : asked'[i] = asked[i] /\ i # n
  BY <1>0, <1>1
<1>3. \A k \in Answers \cup {"followup"} :
        Msg(n, k) \in Message /\ Msg(n, k).of = n /\ Msg(n, k).kind = k
  BY <1>1, MsgTyped DEF Laters
<1> DEFINE a == Msg(n, "ack")
           f == Msg(n, "followup")
<1>4. a \in Message /\ f \in Message /\ a.of = n /\ a.kind = "ack" /\ f.of = n /\ f.kind = "followup"
  BY <1>3 DEF Answers
\* What is on its way now.
<1>5. sending' \in Seq(Message) /\ (phase' # "spawn" => sending' # <<>>)
  <2>1. CASE sending' = <<>> /\ phase' = "spawn"
    BY <2>1, NoMessage
  <2>2. ASSUME NEW k \in Answers, sending' = <<Msg(n, k)>> PROVE sending' \in Seq(Message) /\ sending' # <<>>
    BY <1>3, <2>2, OneMessage
  <2>3. CASE sending' = <<a, f>>
    <3> HIDE DEF a, f
    <3>1. QED
      BY <1>4, <2>3, TwoMessages
  <2>4. "ack" \in Answers
    BY DEF Answers
  <2>5. QED
    BY <1>1, <2>1, <2>2, <2>3, <2>4
<1>6. Typing'
  <2>1. /\ phase' \in {"top", "wait", "spawn", "sleep", "sending", "drain"} /\ next' \in {"top", "spawn"}
        /\ phase' = "sending" => sending' # <<>>
    BY <1>1, <1>5
  <2>2. SessionsTypeOK'
    BY <1>0, <1>1, <2>1 DEF Typing, SessionsTypeOK
  <2>3. /\ tasks' \subseteq 1 .. n /\ did' \subseteq 1 .. n /\ spawned' \subseteq 1 .. n
        /\ \A j \in 1 .. Len(said') : said'[j].of \in 0 .. n
    <3>1. 1 .. Len(asked) \subseteq 1 .. n /\ n \in 1 .. n /\ 0 .. Len(asked) \subseteq 0 .. n
      BY <1>0, <1>1
    <3>2. QED
      BY <1>0, <1>1, <3>1 DEF Typing
  <2>4. QED
    <3>1. enabled' \in BOOLEAN /\ said' \in Seq(Message)
      BY <1>0, <1>1 DEF Typing
    <3>2. QED
      BY <1>1, <1>2, <1>5, <2>2, <2>3, <3>1 DEF Typing
<1>7. Sending'
  <2>1. OnItsWay'
    BY <1>1, <1>2 DEF OnItsWay, Answers
  <2>2. QED
    BY <1>1, <1>2, <1>5, <2>1 DEF Sending
<1>8. Greeted' /\ Allowed'
  <2>1. said # <<>>
    BY <1>0, <1>1, OneMessage, MsgTyped DEF Greeted
  <2>2. QED
    BY <1>0, <1>1, <2>1 DEF Greeted, Allowed
\* Earlier requests.
<1>9. ASSUME NEW i \in 1 .. Len(asked) PROVE RequestInv(i)'
  <2>1. \A kinds : ~Awaits(i, kinds) /\ ~Awaits(i, kinds)'
    <3>1. \A j \in 1 .. Len(sending') : sending'[j].of = n
      <4>1. CASE sending' = <<>>
        BY <4>1, NoMessage
      <4>2. ASSUME NEW k \in Answers, sending' = <<Msg(n, k)>>
            PROVE  \A j \in 1 .. Len(sending') : sending'[j].of = n
        BY <1>3, <4>2, OneMessage
      <4>3. CASE sending' = <<a, f>>
        <5> HIDE DEF a, f
        <5>1. Len(sending') = 2 /\ sending'[1] = a /\ sending'[2] = f
          BY <1>4, <4>3, TwoMessages
        <5>2. QED
          BY <1>4, <5>1
      <4>4. "ack" \in Answers
        BY DEF Answers
      <4>5. QED
        BY <1>1, <4>1, <4>2, <4>3, <4>4
    <3>2. QED
      BY <1>1, <1>2, <3>1, NoMessage DEF Awaits
  <2>2. ~ToSpawn(i) /\ ~ToSpawn(i)'
    BY <1>1, <1>2 DEF ToSpawn
  <2>3. \A kinds : HasSaid(i, kinds)' <=> HasSaid(i, kinds)
    BY <1>1 DEF HasSaid
  <2>4. OneEach(i)' /\ AckFirst(i)'
    BY <1>0, <1>1 DEF RequestInv, OneEach, AckFirst
  <2>5. /\ i \in did' <=> i \in did
        /\ i \in spawned' <=> i \in spawned
    BY <1>1, <1>2
  <2>6. QED
    BY <1>0, <1>1, <1>2, <2>1, <2>2, <2>3, <2>4, <2>5, SimilarRequest
\* The new one: nothing has been said of it, and it has neither a task nor an effect before.
<1>10. RequestInv(n)'
  <2>1. /\ \A kinds : ~HasSaid(n, kinds)'
        /\ n \notin tasks' /\ n \notin did /\ n \notin spawned
    BY <1>0, <1>1 DEF Typing, HasSaid
  <2>2. OneEach(n)' /\ AckFirst(n)'
    <3>1. \A j \in 1 .. Len(said') : said'[j].of # n
      BY <1>0, <1>1 DEF Typing
    <3>2. QED
      BY <3>1 DEF OneEach, AckFirst
  <2>3. \A kinds : Has(n, kinds)' <=> Awaits(n, kinds)'
    BY <2>1 DEF Has
  <2>4. ASSUME NEW k \in Answers, sending' = <<Msg(n, k)>>
        PROVE  \A kinds : Awaits(n, kinds)' <=> k \in kinds
    BY <1>3, <2>4, OneMessage DEF Awaits
  <2>5. "followup" \notin Answers /\ Answers \cap Laters = {} /\ "ack" \notin {"nack"}
    BY DEF Answers, Laters
  <2>6. CASE /\ did' = did \cup {n} /\ phase' = "sending" /\ next' = "top"
             /\ sending' = <<a>> \/ sending' = <<a, f>>
    <3>1. /\ Awaits(n, Answers)' /\ Awaits(n, {"ack"})' /\ ~Awaits(n, {"nack"})'
      <4>1. CASE sending' = <<a>>
        BY <2>4, <4>1 DEF Answers
      <4>2. CASE sending' = <<a, f>>
        <5> HIDE DEF a, f
        <5>1. Len(sending') = 2 /\ sending'[1] = a /\ sending'[2] = f
          BY <1>4, <4>2, TwoMessages
        <5>2. QED
          BY <1>4, <5>1 DEF Awaits, Answers
      <4>3. QED
        BY <2>6, <4>1, <4>2
    <3>2. ~ToSpawn(n)' /\ phase' # "spawn"
      BY <2>6 DEF ToSpawn
    <3>3. Waiting(n)' /\ Executing(n)' /\ Served(n)'
      BY <2>1, <2>3, <3>1, <3>2 DEF Waiting, Executing, Served
    <3>4. Honest(n)'
      BY <2>3, <2>6, <3>1 DEF Honest
    <3>5. QED
      BY <2>2, <3>3, <3>4 DEF RequestInv
  <2>7. ASSUME /\ UNCHANGED <<did, spawned>> /\ phase' \in {"sending", "sleep"} /\ next' = "top",
               NEW k \in Answers, sending' = <<Msg(n, k)>>, k = "ack" => v \notin Mutating
        PROVE  RequestInv(n)'
    <3>1. /\ Awaits(n, Answers)' /\ ~Awaits(n, Laters)'
          /\ Awaits(n, {"ack"})' => v \notin Mutating
      BY <2>4, <2>5, <2>7
    <3>2. ~ToSpawn(n)' /\ phase' # "spawn"
      BY <2>7 DEF ToSpawn
    <3>3. Waiting(n)' /\ Executing(n)' /\ Served(n)'
      BY <2>1, <2>3, <3>1, <3>2 DEF Waiting, Executing, Served
    <3>4. Honest(n)'
      BY <1>2, <2>1, <2>3, <2>7, <3>1 DEF Honest
    <3>5. QED
      BY <2>2, <3>3, <3>4 DEF RequestInv
  <2>8. CASE /\ UNCHANGED <<did, spawned>> /\ enabled /\ v = "stream"
             /\ phase' = "sending" /\ next' = "spawn" /\ sending' = <<a>>
    <3>1. /\ Awaits(n, Answers)' /\ Awaits(n, {"ack"})' /\ ~Awaits(n, {"nack"})' /\ ~Awaits(n, Laters)'
      BY <2>4, <2>5, <2>8 DEF Answers
    <3>2. asked'[n] = "stream" /\ asked'[n] \notin Mutating
      BY <1>2, <2>8 DEF Mutating
    <3>3. Waiting(n)' /\ Executing(n)' /\ Honest(n)' /\ Served(n)'
      BY <1>1, <2>1, <2>3, <2>8, <3>1, <3>2 DEF Waiting, Executing, Honest, Served
    <3>4. QED
      BY <2>2, <3>3 DEF RequestInv
  <2>9. CASE /\ UNCHANGED <<did, spawned>> /\ enabled /\ v = "exec"
             /\ phase' = "spawn" /\ next' = "top" /\ sending' = <<>>
    <3>1. \A kinds : ~Awaits(n, kinds)'
      BY <2>9, NoMessage DEF Awaits
    <3>2. asked'[n] # "stream" /\ asked'[n] \notin Mutating /\ ToSpawn(n)'
      BY <1>2, <2>9 DEF Mutating, ToSpawn
    <3>3. Waiting(n)' /\ Executing(n)' /\ Honest(n)' /\ Served(n)'
      BY <1>1, <2>1, <2>3, <2>9, <3>1, <3>2 DEF Waiting, Executing, Honest, Served
    <3>4. QED
      BY <2>2, <3>3 DEF RequestInv
  <2>10. QED
    BY <1>1, <2>6, <2>7, <2>8, <2>9
<1>11. QED
  <2>1. \A i \in 1 .. Len(asked)' : i \in 1 .. Len(asked) \/ i = n
    BY <1>0, <1>1, <1>2
  <2>2. QED
    BY <1>6, <1>7, <1>8, <1>9, <1>10, <2>1 DEF IInv

\* The task takes over from the handler what it may still say of its exec.
LEMMA SpawnKeeps ==
    ASSUME IInv, Spawn
    PROVE  IInv'
<1>n. PICK n \in Nat : n = Len(asked)
  BY DEF IInv, Typing
<1>0. /\ Typing /\ Sending /\ Greeted /\ Allowed /\ n \in Nat \ {0} /\ phase = "spawn" /\ sending = <<>>
      /\ \A i \in 1 .. n : RequestInv(i)
  BY <1>n DEF IInv, Typing, Sending, Spawn
<1>1. /\ phase' = "top" /\ sending' = <<>> /\ next' = "top" /\ firm' = TRUE
      /\ tasks' = tasks \cup {n} /\ spawned' = spawned \cup {n}
      /\ UNCHANGED <<enabled, authed, age, writer, queued, cast, asked, did, said>>
  BY <1>n DEF Spawn, Go
<1>2. n \in 1 .. Len(asked) /\ RequestInv(n) /\ ToSpawn(n) /\ n = Len(asked)
  BY <1>n, <1>0 DEF ToSpawn
<1>3. \A i \in 1 .. Len(asked) : \A kinds :
        /\ ~Awaits(i, kinds) /\ ~Awaits(i, kinds)'
        /\ HasSaid(i, kinds)' <=> HasSaid(i, kinds)
        /\ Has(i, kinds)' <=> Has(i, kinds)
  BY <1>0, <1>1, NoMessage DEF Awaits, HasSaid, Has
<1>4. \A i \in 1 .. Len(asked) : OneEach(i)' /\ AckFirst(i)' /\ ~ToSpawn(i)' /\ phase' # "spawn"
  BY <1>0, <1>1, <1>2 DEF RequestInv, OneEach, AckFirst, ToSpawn
<1>5. Typing'
  BY <1>0, <1>1, <1>2, NoMessage DEF Typing, SessionsTypeOK
<1>6. Sending' /\ Greeted'
  BY <1>0, <1>1 DEF Sending, OnItsWay, Greeted
<1>7. enabled /\ Allowed'
  BY <1>1, <1>2 DEF RequestInv, Executing, Allowed
<1>8. RequestInv(n)'
  <2>1. /\ ~Has(n, Laters) /\ ~Has(n, {"nack"}) /\ asked[n] \notin Mutating /\ n \notin tasks
        /\ asked[n] = "stream" => Has(n, {"ack"})
        /\ asked[n] # "stream" => ~Has(n, Answers)
    BY <1>2 DEF RequestInv, Executing
  <2>2. Waiting(n)' /\ Honest(n)'
    BY <1>1, <1>2, <1>3, <2>1 DEF Waiting, Honest
  <2>3. Executing(n)'
    BY <1>1, <1>2, <1>3, <1>4, <1>7, <2>1 DEF Executing
  <2>4. Served(n)'
    BY <1>1, <1>2, <1>3, <2>1 DEF Served, RequestInv
  <2>5. QED
    BY <1>2, <1>4, <2>2, <2>3, <2>4 DEF RequestInv
<1>9. ASSUME NEW i \in 1 .. Len(asked), i # n PROVE RequestInv(i)'
  <2>1. RequestInv(i) /\ ~ToSpawn(i)
    BY <1>n, <1>0, <1>2, <1>9 DEF ToSpawn
  <2>2. i \in tasks' <=> i \in tasks
    BY <1>1, <1>9
  <2>3. i \in spawned' <=> i \in spawned
    BY <1>1, <1>9
  <2>4. QED
    BY <1>1, <1>3, <1>4, <2>1, <2>2, <2>3, SimilarRequest
<1>10. QED
  BY <1>1, <1>5, <1>6, <1>7, <1>8, <1>9 DEF IInv

\* The task says its last word, if there is a channel to say it in.
LEMMA ExecEndsKeeps ==
    ASSUME IInv, NEW t \in tasks, ExecEnds(t)
    PROVE  IInv'
<1>0. /\ Typing /\ Sending /\ Greeted /\ Allowed /\ Len(asked) \in Nat /\ said \in Seq(Message)
      /\ \A i \in 1 .. Len(asked) : RequestInv(i)
      /\ t \in 1 .. Len(asked) /\ t # 0
  BY DEF IInv, Typing
<1>1. /\ tasks' = tasks \ {t} /\ phase # "drain"
      /\ UNCHANGED <<enabled, phase, authed, age, writer, sending, next, firm, cast, asked, did, spawned>>
  BY DEF ExecEnds
<1> DEFINE k == IF asked[t] = "stream" THEN "exit" ELSE "result"
           m == Msg(t, k)
<1>2. m \in Message /\ m.of = t /\ m.kind = k /\ k \in {"exit", "result"}
  BY <1>0, MsgTyped DEF Answers, Laters
<1>3. \/ writer = "gone" /\ UNCHANGED <<queued, said>>
      \/ writer # "gone" /\ queued < OutCap /\ queued' = queued + 1 /\ said' = Append(said, m)
  BY DEF ExecEnds
<1>k. k = IF asked[t] = "stream" THEN "exit" ELSE "result"
  OBVIOUS
<1> HIDE DEF k, m
<1>4. asked # <<>> /\ said # <<>>
  BY <1>0, NoMessage DEF Greeted
<1>5. Typing'
  <2>1. /\ said' \in Seq(Message) /\ \A j \in 1 .. Len(said') : said'[j].of \in 0 .. Len(asked)
    <3>1. \A j \in 1 .. Len(said) : said[j].of \in 0 .. Len(asked)
      BY <1>0 DEF Typing
    <3>2. CASE said' = said
      BY <1>0, <3>1, <3>2
    <3>3. CASE said' = Append(said, m)
      <4>1. \A j \in 1 .. Len(said') : j \in 1 .. Len(said) \/ j = Len(said) + 1
        BY <1>0, <1>2, <3>3, Appended
      <4>2. QED
        BY <1>0, <1>2, <3>1, <3>3, <4>1, Appended
    <3>4. QED
      BY <1>3, <3>2, <3>3
  <2>2. queued' \in 0 .. OutCap
    BY <1>0, <1>3, SessionsAssumption DEF Typing, SessionsTypeOK, SessionsAssumption
  <2>3. SessionsTypeOK'
    BY <1>0, <1>1, <2>2 DEF Typing, SessionsTypeOK
  <2>4. QED
    BY <1>0, <1>1, <2>1, <2>3 DEF Typing
<1>6. said' # <<>> /\ said'[1].kind = "welcome"
  BY <1>0, <1>2, <1>3, <1>4, FirstSaid DEF Greeted
<1>7. Sending' /\ Greeted' /\ Allowed'
  BY <1>0, <1>1, <1>4, <1>6 DEF Sending, OnItsWay, Greeted, Allowed
<1>8. \A i, kinds : Awaits(i, kinds)' <=> Awaits(i, kinds)
  BY <1>1 DEF Awaits
<1>9. \A i : ToSpawn(i)' <=> ToSpawn(i)
  BY <1>1 DEF ToSpawn
<1>10. \A i, kinds : HasSaid(i, kinds)' <=>
          HasSaid(i, kinds) \/ (writer # "gone" /\ i = t /\ k \in kinds)
  <2>1. CASE said' = said /\ writer = "gone"
    BY <2>1 DEF HasSaid
  <2>2. CASE said' = Append(said, m) /\ writer # "gone"
    BY <1>0, <1>2, <2>2, SaidMore
  <2>3. QED
    BY <1>3, <2>1, <2>2
\* What the invariant says of the request of the task.
<1>11. /\ OneEach(t) /\ AckFirst(t)
       /\ ~Has(t, Laters) /\ ~Has(t, {"nack"}) /\ asked[t] \notin Mutating /\ ~ToSpawn(t)
       /\ asked[t] = "stream" => Has(t, {"ack"})
       /\ asked[t] # "stream" => ~Has(t, Answers)
       /\ ~Awaits(t, Answers) /\ ~Awaits(t, Laters) /\ ~Awaits(t, {"ack"}) /\ ~Awaits(t, {"nack"})
  <2>1. Executing(t) /\ OneEach(t) /\ AckFirst(t)
    BY <1>0 DEF RequestInv
  <2>2. ~Awaits(t, Answers)
    BY <2>1 DEF Executing
  <2>3. ~Awaits(t, {"ack"}) /\ ~Awaits(t, {"nack"})
    BY <2>2 DEF Awaits, Answers
  <2>4. QED
    BY <2>1, <2>2, <2>3 DEF Executing, Has
<1>12. \A i \in 1 .. Len(asked) : OneEach(i)' /\ AckFirst(i)'
  <2>1. ASSUME NEW i \in 1 .. Len(asked) PROVE OneEach(i)' /\ AckFirst(i)'
    <3>1. OneEach(i) /\ AckFirst(i)
      BY <1>0 DEF RequestInv
    <3>2. CASE said' = said
      BY <3>1, <3>2 DEF OneEach, AckFirst
    <3>3. CASE said' = Append(said, m)
      <4>1. m.of = i /\ m.kind \in Answers => ~HasSaid(i, Answers)
        BY <1>2, <1>k, <1>11 DEF Answers, Has
      <4>2. m.of = i /\ m.kind \in Laters => ~HasSaid(i, Laters) /\ HasSaid(i, {"ack"})
        BY <1>2, <1>k, <1>11 DEF Laters, Has
      <4>3. QED
        BY <1>0, <1>2, <3>1, <3>3, <4>1, <4>2, SaidInOrder
    <3>4. QED
      BY <1>3, <3>2, <3>3
  <2>2. QED
    BY <2>1
<1>13. RequestInv(t)'
  <2>1. /\ ~Awaits(t, Answers)' /\ ~Awaits(t, Laters)' /\ ~Awaits(t, {"ack"})' /\ ~Awaits(t, {"nack"})'
        /\ t \notin tasks' /\ ~ToSpawn(t)'
    BY <1>1, <1>8, <1>9, <1>11
  <2>2. ~Has(t, {"nack"})' /\ (Has(t, {"ack"})' => Has(t, {"ack"}))
    BY <1>2, <1>10, <1>11, <2>1 DEF Has
  <2>3. Waiting(t)' /\ Executing(t)'
    BY <2>1 DEF Waiting, Executing
  <2>4. Honest(t)'
    BY <1>1, <1>11, <2>2 DEF Honest
  <2>5. Served(t)'
    <3>1. SUFFICES ASSUME writer # "gone" PROVE Has(t, Answers)'
      BY <1>1 DEF Served
    <3>2. CASE asked[t] = "stream"
      <4>1. HasSaid(t, {"ack"})
        BY <1>11, <3>2 DEF Has
      <4>2. HasSaid(t, Answers)
        BY <4>1 DEF HasSaid, Answers
      <4>3. QED
        BY <1>10, <4>2 DEF Has
    <3>3. CASE asked[t] # "stream"
      BY <1>k, <1>10, <3>1, <3>3 DEF Has, Answers
    <3>4. QED
      BY <3>2, <3>3
  <2>6. QED
    BY <1>0, <1>12, <2>3, <2>4, <2>5 DEF RequestInv
<1>14. ASSUME NEW i \in 1 .. Len(asked), i # t PROVE RequestInv(i)'
  <2>1. RequestInv(i) /\ OneEach(i)' /\ AckFirst(i)' /\ \A kinds : HasSaid(i, kinds)' <=> HasSaid(i, kinds)
    BY <1>0, <1>10, <1>12, <1>14
  <2>2. i \in tasks' <=> i \in tasks
    BY <1>1, <1>14
  <2>3. QED
    BY <1>1, <1>8, <1>9, <2>1, <2>2, SimilarRequest
<1>15. QED
  BY <1>1, <1>5, <1>7, <1>13, <1>14 DEF IInv

--------------------------------------------------------------------------------
(* The theorems.                                                               *)

LEMMA Fresh ==
    ASSUME enabled \in BOOLEAN, phase = "none", authed = FALSE, age = 0, writer = "up", queued = 0,
           sending = <<>>, next = "top", firm = TRUE, cast = FALSE, tasks = {},
           asked = <<>>, did = {}, spawned = {}, said = <<>>
    PROVE  IInv
<1>1. /\ <<>> \in Seq(Message) /\ <<>> \in Seq(Verbs \cup {"stream"})
      /\ Len(<<>>) = 0 /\ 1 .. Len(<<>>) = {}
  OBVIOUS
<1>2. Typing
  <2>1. 0 \in 0 .. OutCap /\ 0 \in 0 .. 2
    BY SessionsAssumption DEF SessionsAssumption
  <2>2. SessionsTypeOK
    BY <2>1, Zenon DEF SessionsTypeOK
  <2>3. QED
    BY <1>1, <2>2 DEF Typing
<1>3. Sending /\ Greeted /\ Allowed
  BY DEF Sending, OnItsWay, Greeted, Allowed
<1>4. QED
  BY <1>1, <1>2, <1>3 DEF IInv

\* The slot of a connection is as new.
LEMMA EndKeeps ==
    ASSUME IInv, End
    PROVE  IInv'
<1>1. /\ enabled' \in BOOLEAN /\ phase' = "none" /\ authed' = FALSE /\ age' = 0 /\ writer' = "up"
      /\ queued' = 0 /\ sending' = <<>> /\ next' = "top" /\ firm' = TRUE /\ cast' = FALSE
      /\ tasks' = {} /\ asked' = <<>> /\ did' = {} /\ spawned' = {} /\ said' = <<>>
  BY DEF IInv, Typing, End
<1>2. /\ <<>> \in Seq(Message) /\ <<>> \in Seq(Verbs \cup {"stream"})
      /\ Len(<<>>) = 0 /\ 1 .. Len(<<>>) = {}
  OBVIOUS
<1>3. Typing'
  <2>1. 0 \in 0 .. OutCap /\ 0 \in 0 .. 2
    BY SessionsAssumption DEF SessionsAssumption
  <2>2. SessionsTypeOK'
    BY <1>1, <2>1, Zenon DEF SessionsTypeOK
  <2>3. QED
    BY <1>1, <1>2, <2>2 DEF Typing
<1>4. Sending' /\ Greeted' /\ Allowed'
  BY <1>1 DEF Sending, OnItsWay, Greeted, Allowed
<1>5. QED
  BY <1>1, <1>2, <1>3, <1>4 DEF IInv

LEMMA StutterKeeps ==
    ASSUME IInv, UNCHANGED sessionVars
    PROVE  IInv'
<1>0. Typing /\ Sending /\ Greeted /\ Allowed /\ \A i \in 1 .. Len(asked) : RequestInv(i)
  BY DEF IInv
<1>1. Same /\ UNCHANGED <<phase, authed, age, writer, queued, sending, next, firm, cast>>
  BY DEF sessionVars, Same
<1>2. Typing'
  BY <1>0, <1>1 DEF Typing, SessionsTypeOK, Same
<1>3. Sending' /\ Greeted' /\ Allowed'
  BY <1>0, <1>1 DEF Sending, OnItsWay, Greeted, Allowed, Same
<1>4. ASSUME NEW i \in 1 .. Len(asked) PROVE RequestInv(i)'
  <2>1. \A kinds : Awaits(i, kinds)' <=> Awaits(i, kinds)
    BY <1>1 DEF Awaits
  <2>2. ToSpawn(i)' <=> ToSpawn(i)
    BY <1>1 DEF ToSpawn, Same
  <2>3. QED
    BY <1>0, <1>1, <2>1, <2>2, SameRequest
<1>5. QED
  BY <1>1, <1>2, <1>3, <1>4 DEF IInv, Same

\* IInv is inductive: every step of the loop, of its peer, of the writer and of a task keeps it.
THEOREM SessionInductive == SessionSafety => []IInv
<1>1. SessionsInit => IInv
  BY Fresh DEF SessionsInit
<1>2. ASSUME IInv, [SessionsNext]_sessionVars PROVE IInv'
  <2>1. CASE Upgrade \/ Check \/ Accept \/ Leave \/ Ping \/ Ignore \/ Garbage \/ Hello \/ TimeOut
    BY <1>2, <2>1, HousekeepingKeeps DEF Housekeeping
  <2>2. CASE Write \/ Tick \/ Wake
    BY <1>2, <2>2, WriterKeeps
  <2>3. CASE Put
    BY <1>2, <2>3, PutKeeps
  <2>4. CASE PutFails
    BY <1>2, <2>4, PutFailsKeeps
  <2>5. ASSUME NEW r \in Requests, Handle(r) PROVE IInv'
    BY <1>2, <2>5, HandleKeeps
  <2>6. CASE Spawn
    BY <1>2, <2>6, SpawnKeeps
  <2>7. ASSUME NEW t \in tasks, ExecEnds(t) PROVE IInv'
    BY <1>2, <2>7, ExecEndsKeeps
  <2>8. CASE End
    BY <1>2, <2>8, EndKeeps
  <2>9. CASE UNCHANGED sessionVars
    BY <1>2, <2>9, StutterKeeps
  <2>10. QED
    BY <1>2, <2>1, <2>2, <2>3, <2>4, <2>5, <2>6, <2>7, <2>8, <2>9 DEF SessionsNext, Loop, Peer
<1>3. QED
  BY <1>1, <1>2, PTL DEF SessionSafety

\* The messages of a request, as the properties count them.
LEMMA SaidWhat ==
    ASSUME said \in Seq(Message), NEW i, NEW kinds, "other" \notin kinds
    PROVE  /\ Said(i, kinds) = {j \in 1 .. Len(said) : said[j].of = i /\ said[j].kind \in kinds}
           /\ Said(i, kinds) # {} <=> HasSaid(i, kinds)
<1>1. DOMAIN said = 1 .. Len(said)
  OBVIOUS
<1>2. \A j \in DOMAIN said : Kinds(i)[j] \in kinds <=> said[j].of = i /\ said[j].kind \in kinds
  BY DEF Kinds
<1>3. Said(i, kinds) = {j \in 1 .. Len(said) : said[j].of = i /\ said[j].kind \in kinds}
  BY <1>1, <1>2 DEF Said
<1>4. QED
  BY <1>3 DEF HasSaid

LEMMA SaidOnce ==
    ASSUME said \in Seq(Message), NEW i, OneEach(i), NEW kinds \in {Answers, Laters}
    PROVE  /\ HasSaid(i, kinds) => Cardinality(Said(i, kinds)) = 1
           /\ ~HasSaid(i, kinds) => Cardinality(Said(i, kinds)) = 0
<1>1. "other" \notin kinds
  BY DEF Answers, Laters
<1>2. CASE HasSaid(i, kinds)
  <2>1. PICK j \in 1 .. Len(said) : said[j].of = i /\ said[j].kind \in kinds
    BY <1>2 DEF HasSaid
  <2>2. \A k \in 1 .. Len(said) : said[k].of = i /\ said[k].kind \in kinds => k = j
    BY <2>1 DEF OneEach
  <2>3. Said(i, kinds) = {j}
    BY <1>1, <2>1, <2>2, SaidWhat
  <2>4. QED
    BY <1>2, <2>3, FS_Singleton
<1>3. CASE ~HasSaid(i, kinds)
  BY <1>1, <1>3, SaidWhat, FS_EmptySet
<1>4. QED
  BY <1>2, <1>3

\* What a connection promises follows from the invariant.
LEMMA InvariantSound == IInv => SessionsSound
<1> SUFFICES ASSUME IInv PROVE SessionsSound
  OBVIOUS
<1>0. /\ Typing /\ Sending /\ Greeted /\ Allowed /\ SessionsTypeOK /\ said \in Seq(Message)
      /\ DOMAIN asked = 1 .. Len(asked) /\ Len(asked) \in Nat /\ DOMAIN said = 1 .. Len(said)
      /\ \A i \in 1 .. Len(asked) : RequestInv(i)
  BY DEF IInv, Typing
<1>1. {"ack", "nack", "result"} = Answers /\ {"followup", "exit"} = Laters
  BY DEF Answers, Laters
<1>2. AnsweredOnce
  <2>1. SUFFICES ASSUME NEW i \in 1 .. Len(asked)
                 PROVE  /\ Cardinality(Said(i, Answers)) <= 1
                        /\ phase \in {"top", "wait"} /\ writer = "up"
                             /\ (i \notin tasks \/ asked[i] = "stream")
                             => Cardinality(Said(i, Answers)) = 1
    BY <1>0, <1>1 DEF AnsweredOnce
  <2>2. OneEach(i) /\ Served(i)
    BY <1>0 DEF RequestInv
  <2>3. /\ HasSaid(i, Answers) => Cardinality(Said(i, Answers)) = 1
        /\ ~HasSaid(i, Answers) => Cardinality(Said(i, Answers)) = 0
    BY <1>0, <2>2, SaidOnce
  <2>4. ASSUME phase \in {"top", "wait"}, writer = "up", i \notin tasks \/ asked[i] = "stream"
        PROVE  HasSaid(i, Answers)
    <3>1. sending = <<>> /\ ~ToSpawn(i)
      BY <1>0, <2>4 DEF Sending, ToSpawn
    <3>2. ~Awaits(i, Answers)
      BY <3>1, NoMessage DEF Awaits
    <3>3. QED
      BY <2>2, <2>4, <3>1, <3>2 DEF Served, Has
  <2>5. QED
    BY <2>3, <2>4
<1>3. AnswersHonest
  <2>1. ASSUME NEW i \in 1 .. Len(asked), NEW kind \in {"ack", "nack"}, Said(i, {kind}) # {}
        PROVE  Has(i, {kind})
    BY <1>0, <2>1, SaidWhat DEF Has
  <2>2. QED
    BY <1>0, <2>1 DEF AnswersHonest, RequestInv, Honest
<1>4. FollowupsFollow
  <2>1. SUFFICES ASSUME NEW i \in 1 .. Len(asked), NEW j \in Said(i, Laters)
                 PROVE  /\ \E h \in 1 .. j - 1 : h \in Said(i, {"ack"})
                        /\ Cardinality(Said(i, Laters)) = 1
    BY <1>0, <1>1 DEF FollowupsFollow
  <2>2. OneEach(i) /\ AckFirst(i)
    BY <1>0 DEF RequestInv
  <2>3. j \in 1 .. Len(said) /\ said[j].of = i /\ said[j].kind \in Laters /\ HasSaid(i, Laters)
    BY <1>0, <2>1, SaidWhat DEF Laters
  <2>4. PICK h \in 1 .. j - 1 : said[h].of = i /\ said[h].kind = "ack"
    BY <2>2, <2>3 DEF AckFirst
  <2>5. h \in 1 .. Len(said)
    BY <1>0, <2>3, <2>4
  <2>6. h \in Said(i, {"ack"})
    BY <1>0, <2>4, <2>5, SaidWhat
  <2>7. QED
    BY <1>0, <2>2, <2>3, <2>4, <2>6, SaidOnce
<1>5. WelcomeFirst
  <2>1. asked = <<>> => tasks = {}
    <3>1. SUFFICES ASSUME asked = <<>> PROVE tasks = {}
      OBVIOUS
    <3>2. Len(asked) = 0
      BY <3>1, NoMessage
    <3>3. \A i \in tasks : i \in 1 .. 0
      BY <1>0, <3>2 DEF Typing
    <3>4. QED
      BY <3>3
  <2>2. QED
    BY <1>0, <2>1 DEF WelcomeFirst, Greeted
<1>6. PolicyKept
  <2>1. \A i \in tasks : enabled
    <3>1. ASSUME NEW i \in tasks PROVE enabled
      <4>1. i \in 1 .. Len(asked)
        BY <1>0 DEF Typing
      <4>2. Executing(i)
        BY <1>0, <4>1 DEF RequestInv
      <4>3. QED
        BY <4>2 DEF Executing
    <3>2. QED
      BY <3>1
  <2>2. QED
    BY <1>0, <2>1 DEF PolicyKept, Allowed
<1>7. QED
  BY <1>0, <1>2, <1>3, <1>4, <1>5, <1>6 DEF SessionsSound

\* SessionsSound: on every connection, however many requests it makes and whatever the bound of
\* its channel, a request is answered once and truthfully, an observation follows its ack, nothing
\* comes before the welcome, and no process starts where exec is disabled (connection.rs, Session
\* and dispatch_action; main.rs, serve).
THEOREM SessionsAlwaysSound == SessionSafety => []SessionsSound
<1>1. SessionSafety => []IInv
  BY SessionInductive
<1>2. QED
  BY <1>1, InvariantSound, PTL

--------------------------------------------------------------------------------
(* Captures: a screencast never skips a change, for any number of streams,      *)
(* tiles and contents, any ring and any number of changes, where the X server   *)
(* serves a subtract before a later capture.                                    *)

\* What a stream that has captured up to epoch c has still to hear of tile t.
Unheard(c, t) ==
    \/ broken \/ t \in Hull(notified) \/ c < base
    \/ \E e \in (c + 1) .. epoch : e > base /\ t \in ring[e - base]

\* What stream s owes tile t: a tile shown wrongly is pending or has still to be heard of, one in
\* a frame on its way has still to be heard of.  A tile in the region that is in no unread event
\* draws no new one: then a subtract is on its way, and who has heard of the tile will capture it
\* after that.
Owing(s, t) ==
    /\ at[s] # "off" /\ view[s][t] # screen[t] => t \in pending[s] \/ Unheard(cursor[s], t)
    /\ at[s] = "captured" /\ shot[s][t] # screen[t] => Unheard(cursor[s], t)
    /\ at[s] # "off" /\ t \in region /\ t \notin notified =>
          Unheard(cursor[s], t) \/ (at[s] \in {"idle", "queried"} /\ t \in pending[s])

\* The inductive invariant.
CaptureInv ==
    /\ TypeOK /\ BaselineIsView
    /\ region \subseteq notified \/ subtracting
    /\ \A s \in Streams : cursor[s] <= epoch
    /\ \A s \in Streams, t \in Tiles : Owing(s, t)

--------------------------------------------------------------------------------
(* Rectangles and the log.                                                     *)

LEMMA TilesTyped == Width \in Nat /\ RingMax \in Nat /\ RingMax >= 1 /\ KeyframeInterval \in Nat
                    /\ KeyframeInterval >= 1 /\ MaxDraws \in Nat /\ MaxReconnects \in Nat
                    /\ Tiles \subseteq Int
BY BoundsAssumption DEF BoundsAssumption, Tiles

\* A bounding box covers its tiles.
LEMMA HullCovers ==
    ASSUME NEW S \in SUBSET Tiles
    PROVE  S \subseteq Hull(S) /\ Hull(S) \subseteq Tiles
BY TilesTyped DEF Hull

LEMMA HullGrows ==
    ASSUME NEW S, NEW T, S \subseteq T
    PROVE  Hull(S) \subseteq Hull(T)
BY DEF Hull

\* A full ring loses its oldest batch, and `base` says so.
LEMMA Recorded ==
    ASSUME TypeOK, NEW rect \in SUBSET Tiles, Record(rect)
    PROVE  /\ {epoch', base'} \subseteq Nat /\ epoch' = epoch + 1 /\ base <= base' /\ base' <= base + 1
           /\ ring' \in Seq(SUBSET Tiles) /\ Len(ring') <= RingMax /\ epoch' = base' + Len(ring')
           /\ base' < epoch' /\ ring'[epoch' - base'] = rect
           /\ \A e \in Nat : base' < e /\ e <= epoch => ring'[e - base'] = ring[e - base]
<1>0. /\ epoch \in Nat /\ base \in Nat /\ ring \in Seq(SUBSET Tiles) /\ Len(ring) \in Nat
      /\ Len(ring) <= RingMax /\ epoch = base + Len(ring)
  BY DEF TypeOK
<1>1. epoch' = epoch + 1
  BY DEF Record
<1>2. CASE Len(ring) < RingMax
  <2>1. ring' = Append(ring, rect) /\ base' = base
    BY <1>2 DEF Record
  <2>2. /\ ring' \in Seq(SUBSET Tiles) /\ Len(ring') = Len(ring) + 1 /\ ring'[Len(ring) + 1] = rect
        /\ \A i \in 1 .. Len(ring) : ring'[i] = ring[i]
    BY <1>0, <2>1
  <2>3. Len(ring') <= RingMax /\ epoch' = base' + Len(ring') /\ epoch' - base' = Len(ring) + 1
    BY <1>0, <1>1, <1>2, <2>1, <2>2, TilesTyped
  <2>4. \A e \in Nat : base' < e /\ e <= epoch => e - base \in 1 .. Len(ring)
    BY <1>0, <2>1
  <2>5. \A e \in Nat : base' < e /\ e <= epoch => ring'[e - base'] = ring[e - base]
    BY <2>1, <2>2, <2>4
  <2>6. ring'[epoch' - base'] = rect /\ base' < epoch'
    BY <1>0, <1>1, <2>1, <2>2, <2>3
  <2>7. QED
    BY <1>0, <1>1, <2>1, <2>2, <2>3, <2>5, <2>6
<1>3. CASE ~(Len(ring) < RingMax)
  <2>1. ring' = Append(Tail(ring), rect) /\ base' = base + 1
    BY <1>3 DEF Record
  <2>2. Len(ring) = RingMax /\ Len(ring) >= 1
    BY <1>0, <1>3, TilesTyped
  <2>3. /\ Tail(ring) \in Seq(SUBSET Tiles) /\ Len(Tail(ring)) = Len(ring) - 1
        /\ \A i \in 1 .. Len(ring) - 1 : Tail(ring)[i] = ring[i + 1]
    BY <1>0, <2>2
  <2>4. /\ ring' \in Seq(SUBSET Tiles) /\ Len(ring') = Len(ring) /\ ring'[Len(ring)] = rect
        /\ \A i \in 1 .. Len(ring) - 1 : ring'[i] = ring[i + 1]
    BY <1>0, <2>1, <2>2, <2>3
  <2>5. \A e \in Nat : base' < e /\ e <= epoch => ring'[e - base'] = ring[e - base]
    <3>1. ASSUME NEW e \in Nat, base' < e, e <= epoch PROVE ring'[e - base'] = ring[e - base]
      <4>1. e - base' \in 1 .. Len(ring) - 1 /\ (e - base') + 1 = e - base
        BY <1>0, <2>1, <3>1
      <4>2. QED
        BY <2>4, <4>1
    <3>2. QED
      BY <3>1
  <2>6. ring'[epoch' - base'] = rect /\ base' < epoch' /\ epoch' = base' + Len(ring') /\ Len(ring') <= RingMax
    <3>1. epoch' - base' = Len(ring)
      BY <1>0, <1>1, <2>1
    <3>2. ring'[epoch' - base'] = rect
      BY <2>4, <3>1
    <3>3. base' < epoch' /\ epoch' = base' + Len(ring)
      BY <1>0, <1>1, <2>1, <2>2
    <3>4. QED
      BY <2>2, <2>4, <3>2, <3>3, TilesTyped
  <2>7. QED
    BY <1>0, <1>1, <2>1, <2>4, <2>5, <2>6
<1>4. QED
  BY <1>2, <1>3

\* After a poll nothing is unread: who had not heard of a tile finds it in a batch after its
\* cursor, or has lost its place, or the tracker is broken.
LEMMA PollTells ==
    ASSUME TypeOK, Poll, broken' = broken
    PROVE  /\ {epoch', base'} \subseteq Nat /\ epoch <= epoch' /\ notified' \in SUBSET Tiles
           /\ ring' \in Seq(SUBSET Tiles) /\ Len(ring') <= RingMax /\ epoch' = base' + Len(ring')
           /\ subtracting' \in BOOLEAN
           /\ \A c \in 0 .. epoch, t \in Tiles :
                 Unheard(c, t) => \/ broken \/ c < base'
                                  \/ \E e \in (c + 1) .. epoch' : e > base' /\ t \in Batch(e)
           /\ broken \/ notified' = {}
           /\ (notified' = notified /\ subtracting' = subtracting) \/ subtracting'
<1>0. /\ epoch \in Nat /\ base \in Nat /\ ring \in Seq(SUBSET Tiles) /\ Len(ring) \in Nat
      /\ Len(ring) <= RingMax /\ epoch = base + Len(ring) /\ notified \in SUBSET Tiles
      /\ subtracting \in BOOLEAN
  BY DEF TypeOK
<1>1. CASE broken \/ notified = {}
  <2>1. UNCHANGED <<epoch, base, ring, notified, subtracting>>
    BY <1>1 DEF Poll
  <2>2. notified = {} => Hull(notified) = {}
    BY DEF Hull
  <2>3. QED
    BY <1>0, <1>1, <2>1, <2>2 DEF Unheard, Batch
<1>2. CASE ~(broken \/ notified = {})
  <2>1. Record(Hull(notified)) /\ notified' = {} /\ subtracting' = TRUE
    BY <1>2 DEF Poll
  <2>2. Hull(notified) \in SUBSET Tiles
    BY <1>0, HullCovers
  <2>3. /\ {epoch', base'} \subseteq Nat /\ epoch' = epoch + 1 /\ base <= base' /\ base' <= base + 1
        /\ ring' \in Seq(SUBSET Tiles) /\ Len(ring') <= RingMax /\ epoch' = base' + Len(ring')
        /\ base' < epoch' /\ ring'[epoch' - base'] = Hull(notified)
        /\ \A e \in Nat : base' < e /\ e <= epoch => ring'[e - base'] = ring[e - base]
    BY <2>1, <2>2, Recorded
  <2>4. ASSUME NEW c \in 0 .. epoch, NEW t \in Tiles, Unheard(c, t)
        PROVE  c < base' \/ \E e \in (c + 1) .. epoch' : e > base' /\ t \in ring'[e - base']
    <3>1. CASE t \in Hull(notified)
      <4>1. epoch' \in (c + 1) .. epoch' /\ epoch' > base'
        BY <1>0, <2>3
      <4>2. t \in ring'[epoch' - base']
        BY <2>3, <3>1
      <4>3. QED
        BY <4>1, <4>2
    <3>2. CASE c < base
      BY <1>0, <2>3, <3>2
    <3>3. ASSUME NEW e \in (c + 1) .. epoch, e > base, t \in ring[e - base]
          PROVE  c < base' \/ \E e_ \in (c + 1) .. epoch' : e_ > base' /\ t \in ring'[e_ - base']
      <4>1. CASE e > base'
        <5>1. e \in Nat /\ e <= epoch /\ e \in (c + 1) .. epoch'
          <6>1. c \in Nat /\ epoch' \in Nat /\ epoch' = epoch + 1 /\ epoch \in Nat
            BY <1>0, <2>3
          <6>2. QED
            BY <3>3, <6>1
        <5>2. ring'[e - base'] = ring[e - base]
          BY <2>3, <4>1, <5>1
        <5>3. QED
          BY <3>3, <4>1, <5>1, <5>2
      <4>2. CASE ~(e > base')
        BY <1>0, <2>3, <3>3, <4>2
      <4>3. QED
        BY <4>1, <4>2
    <3>4. QED
      BY <1>2, <2>4, <3>1, <3>2, <3>3 DEF Unheard
  <2>5. QED
    BY <1>0, <2>1, <2>3, <2>4 DEF Batch
<1>3. QED
  BY <1>1, <1>2

\* So what has not been heard of still has to be.
LEMMA PollKeepsUnheard ==
    ASSUME TypeOK, Poll, broken' = broken, NEW c \in 0 .. epoch, NEW t \in Tiles
    PROVE  /\ Unheard(c, t) => Unheard(c, t)'
           /\ t \in notified => Unheard(c, t)
<1>1. Unheard(c, t) => \/ broken \/ c < base'
                       \/ \E e \in (c + 1) .. epoch' : e > base' /\ t \in ring'[e - base']
  BY PollTells DEF Batch
<1>2. t \in notified => t \in Hull(notified)
  BY HullCovers DEF TypeOK
<1>3. QED
  BY <1>1, <1>2 DEF Unheard

--------------------------------------------------------------------------------
(* What a step leaves as it was.                                               *)

\* A stream that does nothing owes what it owed, if what it has not heard of stays so and no
\* other tile is left in the region unannounced.
LEMMA StillOwing ==
    ASSUME NEW s, NEW t, Owing(s, t), NEW c, c = cursor[s],
           at'[s] = at[s], cursor'[s] = cursor[s], pending'[s] = pending[s], shot'[s] = shot[s],
           view'[s] = view[s], screen'[t] = screen[t],
           Unheard(c, t) => Unheard(c, t)',
           t \in region' /\ t \notin notified' => (t \in region /\ t \notin notified) \/ Unheard(c, t)'
    PROVE  Owing(s, t)'
<1>1. cursor'[s] = c
  OBVIOUS
<1>2. Unheard(c, t)' => Unheard(cursor[s], t)'
  BY <1>1 DEF Unheard
<1>3. QED
  BY <1>2 DEF Owing

\* Events are unread until a poll.
LEMMA MoreUnheard ==
    ASSUME notified \subseteq notified', broken => broken', UNCHANGED <<epoch, base, ring>>, NEW c, NEW t
    PROVE  Unheard(c, t) => Unheard(c, t)'
BY HullGrows DEF Unheard

LEMMA DrawKeeps ==
    ASSUME CaptureInv, NEW t \in Tiles, NEW p \in Pixels, Draw(t, p)
    PROVE  CaptureInv'
<1>0. t \in notified' \/ (t \in region /\ t \notin notified)
  BY DEF CaptureInv, Draw
<1>1. TypeOK'
  <2>1. TypeOK /\ draws \in Nat /\ draws + 1 \in 0 .. MaxDraws
    BY TilesTyped DEF CaptureInv, Draw, TypeOK
  <2>2. screen' \in [Tiles -> Pixels] /\ {region', notified'} \subseteq SUBSET Tiles
    BY <2>1 DEF Draw, TypeOK
  <2>3. QED
    BY <2>1, <2>2 DEF Draw, TypeOK, logVars, loopVars
<1>2. notified \subseteq notified' /\ UNCHANGED <<epoch, base, ring, broken, loopVars, view>>
  BY DEF Draw, logVars
<1>3. ASSUME NEW s \in Streams, NEW u \in Tiles PROVE Owing(s, u)'
  <2>1. Owing(s, u)
    BY DEF CaptureInv
  <2>2. Unheard(cursor[s], u) => Unheard(cursor[s], u)'
    BY <1>2, MoreUnheard DEF loopVars, Unheard
  <2>3. u \in region' /\ u \notin notified' => u \in region /\ u \notin notified
    BY DEF Draw
  <2>4. CASE u # t
    <3>1. screen'[u] = screen[u]
      BY <2>4 DEF Draw, CaptureInv, TypeOK
    <3>2. QED
      BY <1>2, <2>1, <2>2, <2>3, <3>1 DEF Owing, loopVars
  <2>5. CASE u = t /\ t \in notified'
    <3>1. t \in Hull(notified)'
      BY <1>1, <2>5, HullCovers DEF TypeOK
    <3>2. Unheard(cursor[s], u)'
      BY <2>5, <3>1 DEF Unheard
    <3>3. QED
      BY <3>2 DEF Owing
  <2>6. CASE u = t /\ t \in region /\ t \notin notified
    <3>1. at[s] # "off" => Unheard(cursor[s], u) \/ (at[s] \in {"idle", "queried"} /\ u \in pending[s])
      BY <2>1, <2>6 DEF Owing
    <3>2. QED
      BY <1>2, <2>2, <3>1 DEF Owing, loopVars
  <2>7. QED
    BY <1>0, <2>4, <2>5, <2>6 DEF Draw
<1>4. region' \subseteq notified' \/ subtracting'
  BY DEF CaptureInv, Draw
<1>5. QED
  BY <1>1, <1>2, <1>3, <1>4 DEF CaptureInv, BaselineIsView, loopVars

LEMMA ServeSubtractKeeps ==
    ASSUME CaptureInv, ServeSubtract
    PROVE  CaptureInv'
<1>1. TypeOK' /\ BaselineIsView' /\ UNCHANGED <<screen, notified, epoch, base, ring, broken, loopVars, view>>
  BY DEF CaptureInv, ServeSubtract, TypeOK, BaselineIsView, logVars, loopVars
<1>2. ASSUME NEW s \in Streams, NEW t \in Tiles PROVE Owing(s, t)'
  BY <1>1 DEF CaptureInv, Owing, Unheard, ServeSubtract, loopVars
<1>3. QED
  BY <1>1, <1>2 DEF CaptureInv, ServeSubtract, loopVars

LEMMA TrackerBreaksKeeps ==
    ASSUME CaptureInv, TrackerBreaks
    PROVE  CaptureInv'
<1>1. TypeOK' /\ BaselineIsView' /\ (region' \subseteq notified' \/ subtracting')
      /\ \A s \in Streams : cursor'[s] <= epoch'
  BY DEF CaptureInv, TrackerBreaks, TypeOK, BaselineIsView, xVars, loopVars
<1>2. ASSUME NEW s \in Streams, NEW t \in Tiles PROVE Owing(s, t)'
  BY DEF TrackerBreaks, Owing, Unheard
<1>3. QED
  BY <1>1, <1>2 DEF CaptureInv

--------------------------------------------------------------------------------
(* The loop of a stream.                                                       *)

\* The part of the state that belongs to stream r.
Own(r) == <<at[r], cursor[r], pending[r], known[r], prev[r], since_key[r], shot[r], view[r]>>

\* Its type, and what the invariant says of it.
StreamTyped(r) ==
    /\ at[r] \in {"off", "idle", "queried", "captured"} /\ known[r] \in BOOLEAN /\ cursor[r] \in Nat
    /\ pending[r] \in SUBSET Tiles /\ since_key[r] \in 0 .. KeyframeInterval - 1
    /\ prev[r] \in Frames /\ shot[r] \in Frames /\ view[r] \in Frames

StreamInv(r) ==
    /\ StreamTyped(r) /\ cursor[r] <= epoch
    /\ at[r] # "off" => prev[r] = view[r]
    /\ \A t \in Tiles : Owing(r, t)

\* The rest of TypeOK.
Shared ==
    /\ screen \in [Tiles -> Pixels]
    /\ draws \in 0 .. MaxDraws /\ reconnects \in 0 .. MaxReconnects
    /\ {region, notified} \subseteq SUBSET Tiles /\ subtracting \in BOOLEAN
    /\ {epoch, base} \subseteq Nat /\ broken \in BOOLEAN
    /\ ring \in Seq(SUBSET Tiles) /\ Len(ring) <= RingMax /\ epoch = base + Len(ring)
    /\ region \subseteq notified \/ subtracting

\* The loops' variables are functions of the streams.
Loops ==
    /\ at = [r \in Streams |-> at[r]] /\ cursor = [r \in Streams |-> cursor[r]]
    /\ pending = [r \in Streams |-> pending[r]] /\ known = [r \in Streams |-> known[r]]
    /\ prev = [r \in Streams |-> prev[r]] /\ since_key = [r \in Streams |-> since_key[r]]
    /\ shot = [r \in Streams |-> shot[r]] /\ view = [r \in Streams |-> view[r]]

LEMMA ByStream == CaptureInv <=> Shared /\ Loops /\ \A r \in Streams : StreamInv(r)
<1>1. CaptureInv => Shared /\ Loops /\ \A r \in Streams : StreamInv(r)
  BY DEF CaptureInv, TypeOK, BaselineIsView, Shared, Loops, StreamInv, StreamTyped
<1>2. ASSUME Shared, Loops, \A r \in Streams : StreamInv(r) PROVE CaptureInv
  <2>1. /\ at \in [Streams -> {"off", "idle", "queried", "captured"}] /\ known \in [Streams -> BOOLEAN]
        /\ cursor \in [Streams -> Nat] /\ pending \in [Streams -> SUBSET Tiles]
        /\ since_key \in [Streams -> 0 .. KeyframeInterval - 1]
    BY <1>2 DEF Loops, StreamInv, StreamTyped
  <2>2. prev \in [Streams -> Frames] /\ shot \in [Streams -> Frames] /\ view \in [Streams -> Frames]
    BY <1>2 DEF Loops, StreamInv, StreamTyped
  <2>3. TypeOK
    BY <1>2, <2>1, <2>2 DEF TypeOK, Shared
  <2>4. QED
    BY <1>2, <2>3 DEF CaptureInv, BaselineIsView, Shared, StreamInv
<1>3. QED
  BY <1>1, <1>2

\* A step of one stream leaves the others as they were.
LEMMA OthersAlone ==
    ASSUME Loops, NEW s \in Streams, CaptureLoop(s) \/ Stop(s) \/ StartStream(s)
    PROVE  /\ Loops' /\ broken' = broken /\ UNCHANGED <<screen, draws, reconnects, region>>
           /\ \A r \in Streams : r # s => UNCHANGED Own(r)
<1> USE DEF Loops, Own
<1>1. CASE Query(s)
  BY <1>1 DEF Query, Merge
<1>2. CASE Capture(s)
  BY <1>2 DEF Capture, xVars, logVars
<1>3. CASE Suppress(s)
  BY <1>3 DEF Suppress, xVars, logVars
<1>4. CASE Sent(s)
  BY <1>4 DEF Sent, xVars, logVars
<1>5. CASE Dropped(s)
  BY <1>5 DEF Dropped, KeepPending, KeepBaseline, xVars, logVars
<1>6. CASE Stop(s)
  BY <1>6 DEF Stop, xVars, logVars
<1>7. CASE StartStream(s)
  BY <1>7 DEF StartStream
<1>8. QED
  BY <1>1, <1>2, <1>3, <1>4, <1>5, <1>6, <1>7 DEF CaptureLoop

\* The log moves with a poll, or not at all; the others keep their part of the invariant.
LEMMA OthersKeep ==
    ASSUME CaptureInv, NEW s \in Streams, CaptureLoop(s) \/ Stop(s) \/ StartStream(s),
           Poll \/ UNCHANGED <<epoch, base, ring, notified, subtracting>>
    PROVE  /\ Shared' /\ Loops' /\ epoch <= epoch'
           /\ \A r \in Streams : r # s => StreamInv(r)'
           /\ \A t \in Tiles : \A c \in 0 .. epoch :
                /\ Unheard(c, t) => Unheard(c, t)'
                /\ t \in region' /\ t \notin notified' =>
                      (t \in region /\ t \notin notified) \/ Unheard(c, t)'
<1>0. TypeOK /\ Shared /\ Loops /\ (\A r \in Streams : StreamInv(r)) /\ epoch \in Nat
  BY ByStream DEF CaptureInv, TypeOK
<1>1. /\ Loops' /\ broken' = broken /\ UNCHANGED <<screen, draws, reconnects, region>>
      /\ \A r \in Streams : r # s => UNCHANGED Own(r)
  BY <1>0, OthersAlone
<1>2. Shared' /\ epoch <= epoch'
  <2>1. CASE Poll
    <3>1. /\ {epoch', base'} \subseteq Nat /\ epoch <= epoch' /\ notified' \in SUBSET Tiles
          /\ ring' \in Seq(SUBSET Tiles) /\ Len(ring') <= RingMax /\ epoch' = base' + Len(ring')
          /\ subtracting' \in BOOLEAN
          /\ (notified' = notified /\ subtracting' = subtracting) \/ subtracting'
      BY <1>0, <1>1, <2>1, PollTells
    <3>2. QED
      BY <1>0, <1>1, <3>1 DEF Shared
  <2>2. CASE UNCHANGED <<epoch, base, ring, notified, subtracting>>
    BY <1>0, <1>1, <2>2 DEF Shared
  <2>3. QED
    BY <2>1, <2>2
<1>3. ASSUME NEW t \in Tiles, NEW c \in 0 .. epoch
      PROVE  /\ Unheard(c, t) => Unheard(c, t)'
             /\ t \in region' /\ t \notin notified' =>
                   (t \in region /\ t \notin notified) \/ Unheard(c, t)'
  <2>1. CASE Poll
    <3>1. (Unheard(c, t) => Unheard(c, t)') /\ (t \in notified => Unheard(c, t))
      BY <1>0, <1>1, <2>1, PollKeepsUnheard
    <3>2. QED
      BY <1>1, <3>1
  <2>2. CASE UNCHANGED <<epoch, base, ring, notified, subtracting>>
    BY <1>1, <2>2 DEF Unheard
  <2>3. QED
    BY <2>1, <2>2
<1>4. ASSUME NEW r \in Streams, r # s PROVE StreamInv(r)'
  <2>1. /\ at'[r] = at[r] /\ cursor'[r] = cursor[r] /\ pending'[r] = pending[r] /\ known'[r] = known[r]
        /\ prev'[r] = prev[r] /\ since_key'[r] = since_key[r] /\ shot'[r] = shot[r] /\ view'[r] = view[r]
    BY <1>1, <1>4 DEF Own
  <2>2. StreamInv(r) /\ cursor[r] \in 0 .. epoch
    BY <1>0 DEF StreamInv, StreamTyped
  <2>3. StreamTyped(r)' /\ cursor'[r] <= epoch' /\ (at'[r] # "off" => prev'[r] = view'[r])
    BY <1>0, <1>2, <2>1, <2>2 DEF StreamInv, StreamTyped, Shared
  <2>4. ASSUME NEW t \in Tiles PROVE Owing(r, t)'
    <3>1. PICK c \in 0 .. epoch : c = cursor[r]
      BY <2>2
    <3>2. Owing(r, t)
      BY <2>2 DEF StreamInv
    <3>3. QED
      BY <1>1, <1>3, <2>1, <3>1, <3>2, StillOwing
  <2>5. QED
    BY <2>3, <2>4 DEF StreamInv
<1>5. QED
  BY <1>1, <1>2, <1>3, <1>4

\* The step of a stream keeps the invariant if it keeps the stream's part of it.
LEMMA StreamStep ==
    ASSUME CaptureInv, NEW s \in Streams, CaptureLoop(s) \/ Stop(s) \/ StartStream(s),
           Poll \/ UNCHANGED <<epoch, base, ring, notified, subtracting>>, StreamInv(s)'
    PROVE  CaptureInv'
<1>1. /\ Shared' /\ Loops' /\ \A r \in Streams : r # s => StreamInv(r)'
  BY OthersKeep
<1>2. (Shared /\ Loops /\ \A r \in Streams : StreamInv(r))'
  BY <1>1
<1>3. QED
  BY <1>2, ByStream, PTL

LEMMA NothingTyped == Unseen \in Frames /\ 0 \in 0 .. KeyframeInterval - 1 /\ Tiles \in SUBSET Tiles
BY TilesTyped DEF Unseen, Frames

\* What a stream does not know it will capture, all of it.
LEMMA StartKeeps ==
    ASSUME CaptureInv, NEW s \in Streams, StartStream(s)
    PROVE  CaptureInv'
<1>0. TypeOK /\ Shared /\ Loops /\ StreamInv(s) /\ Poll /\ broken' = broken
  BY ByStream DEF CaptureInv, StartStream
<1>1. /\ at'[s] = "idle" /\ cursor'[s] = epoch' /\ pending'[s] = Tiles /\ known'[s] = FALSE
      /\ prev'[s] = Unseen /\ since_key'[s] = 0 /\ view'[s] = Unseen /\ shot'[s] = shot[s]
  BY <1>0 DEF StartStream, Loops
<1>2. epoch' \in Nat
  BY <1>0, PollTells
<1>3. StreamTyped(s)'
  BY <1>0, <1>1, <1>2, NothingTyped DEF StreamInv, StreamTyped
<1>4. \A t \in Tiles : Owing(s, t)'
  BY <1>1 DEF Owing
<1>5. StreamInv(s)'
  BY <1>1, <1>2, <1>3, <1>4 DEF StreamInv
<1>6. QED
  BY <1>0, <1>5, StreamStep

LEMMA StopKeeps ==
    ASSUME CaptureInv, NEW s \in Streams, Stop(s)
    PROVE  CaptureInv'
<1>0. TypeOK /\ Shared /\ Loops /\ StreamInv(s) /\ UNCHANGED <<epoch, base, ring, notified, subtracting>>
  BY ByStream DEF CaptureInv, Stop, xVars, logVars
<1>1. /\ at'[s] = "off" /\ cursor'[s] = 0 /\ pending'[s] = {} /\ known'[s] = FALSE
      /\ prev'[s] = Unseen /\ since_key'[s] = 0 /\ view'[s] = Unseen /\ shot'[s] = Unseen
  BY <1>0 DEF Stop, Loops
<1>2. StreamTyped(s)'
  <2>1. 0 \in Nat /\ {} \in SUBSET Tiles
    OBVIOUS
  <2>2. QED
    BY <1>1, <2>1, NothingTyped, Zenon DEF StreamTyped
<1>3. cursor'[s] <= epoch'
  BY <1>0, <1>1 DEF Shared
<1>4. StreamInv(s)'
  BY <1>1, <1>2, <1>3 DEF StreamInv, Owing
<1>5. QED
  BY <1>0, <1>4, StreamStep

\* advance_damage: whatever a stream had not heard of is pending when it has asked.
LEMMA MergedAll ==
    ASSUME CaptureInv, NEW s \in Streams, Query(s), NEW t \in Tiles,
           t \in pending[s] \/ Unheard(cursor[s], t)
    PROVE  t \in pending'[s]
<1>0. /\ TypeOK /\ Loops /\ StreamInv(s) /\ Poll /\ broken' = broken /\ Merge(s)
      /\ cursor[s] \in 0 .. epoch /\ pending[s] \in SUBSET Tiles
  <2>1. Poll /\ broken' = broken /\ Merge(s)
    BY DEF Query
  <2>2. Loops /\ StreamInv(s)
    BY ByStream
  <2>3. cursor[s] \in Nat /\ cursor[s] <= epoch /\ pending[s] \in SUBSET Tiles
    BY <2>2 DEF StreamInv, StreamTyped
  <2>4. TypeOK
    BY DEF CaptureInv
  <2>5. epoch \in Nat
    BY <2>4 DEF TypeOK
  <2>6. QED
    BY <2>1, <2>2, <2>3, <2>4, <2>5
<1>1. /\ {epoch', base'} \subseteq Nat /\ epoch' = base' + Len(ring') /\ ring' \in Seq(SUBSET Tiles)
      /\ Unheard(cursor[s], t) =>
            \/ broken \/ cursor[s] < base'
            \/ \E e \in (cursor[s] + 1) .. epoch' : e > base' /\ t \in Batch(e)
  BY <1>0, PollTells
<1>2. CASE Verdict(cursor[s]) = "clean"
  <2>1. ~broken /\ cursor[s] >= epoch'
    BY <1>2 DEF Verdict
  <2>2. ~Unheard(cursor[s], t)
    BY <1>0, <1>1, <2>1
  <2>3. pending' = pending
    BY <1>0, <1>2 DEF Merge
  <2>4. QED
    BY <2>2, <2>3
<1>3. CASE Verdict(cursor[s]) = "full"
  BY <1>0, <1>3 DEF Merge, Loops
<1>4. CASE Verdict(cursor[s]) = "region"
  <2>1. ~broken /\ ~(cursor[s] < base')
    BY <1>4 DEF Verdict
  <2>2. pending'[s] = Hull(pending[s] \cup Since(cursor[s]))
    BY <1>0, <1>4 DEF Merge, Loops
  <2>3. t \in pending[s] \/ t \in UNION {Batch(e) : e \in (cursor[s] + 1) .. epoch'}
    BY <1>1, <2>1
  <2> DEFINE batches == UNION {Batch(e) : e \in (cursor[s] + 1) .. epoch'}
  <2>4. t \in batches => t \in Hull(batches)
    BY TilesTyped DEF Hull
  <2>5. t \in pending[s] \cup Since(cursor[s])
    BY <2>3, <2>4 DEF Since
  <2>6. t \in Hull(pending[s] \cup Since(cursor[s]))
    BY <2>5, TilesTyped DEF Hull
  <2>7. QED
    BY <2>2, <2>6
<1>5. QED
  BY <1>2, <1>3, <1>4 DEF Verdict

LEMMA QueryKeeps ==
    ASSUME CaptureInv, NEW s \in Streams, Query(s)
    PROVE  CaptureInv'
<1>0. TypeOK /\ Shared /\ Loops /\ StreamInv(s) /\ Poll /\ broken' = broken
  BY ByStream DEF CaptureInv, Query
<1>1. /\ at'[s] \in {"idle", "queried"} /\ cursor'[s] = epoch' /\ at[s] = "idle"
      /\ prev'[s] = prev[s] /\ since_key'[s] = since_key[s] /\ view'[s] = view[s] /\ shot'[s] = shot[s]
      /\ screen' = screen /\ region' = region
  BY <1>0 DEF Query, Loops
<1>2. epoch' \in Nat /\ (broken \/ notified' = {})
  BY <1>0, PollTells
<1>3. pending'[s] \in SUBSET Tiles /\ known'[s] \in BOOLEAN
  <2>1. CASE Verdict(cursor[s]) = "clean"
    BY <1>0, <2>1 DEF Query, Merge, StreamInv, StreamTyped
  <2>2. CASE Verdict(cursor[s]) = "full"
    BY <1>0, <2>2 DEF Query, Merge, Loops
  <2>3. CASE Verdict(cursor[s]) = "region"
    BY <1>0, <2>3 DEF Query, Merge, Loops, Hull, StreamInv, StreamTyped
  <2>4. QED
    BY <2>1, <2>2, <2>3 DEF Verdict
<1>4. StreamTyped(s)'
  BY <1>0, <1>1, <1>2, <1>3 DEF StreamInv, StreamTyped
<1>5. ASSUME NEW t \in Tiles PROVE Owing(s, t)'
  <2>1. Owing(s, t)
    BY <1>0 DEF StreamInv
  <2>2. t \in pending[s] \/ Unheard(cursor[s], t) => t \in pending'[s]
    BY MergedAll
  <2>3. t \in notified => Unheard(cursor[s], t)
    BY <1>0, HullCovers DEF Unheard, TypeOK
  <2>4. QED
    BY <1>1, <2>1, <2>2, <2>3 DEF Owing
<1>6. StreamInv(s)'
  BY <1>0, <1>1, <1>2, <1>4, <1>5 DEF StreamInv
<1>7. QED
  BY <1>0, <1>6, StreamStep DEF CaptureLoop

\* delta_capture: the screen where it is pending, the baseline elsewhere; the server has emptied
\* the region by now.
LEMMA CaptureKeeps ==
    ASSUME InOrder, CaptureInv, NEW s \in Streams, Capture(s)
    PROVE  CaptureInv'
<1>0. /\ TypeOK /\ Shared /\ Loops /\ StreamInv(s) /\ UNCHANGED <<epoch, base, ring, notified, subtracting>>
      /\ UNCHANGED <<broken, region, screen>> /\ region \subseteq notified
  BY ByStream DEF CaptureInv, Capture, xVars, logVars
<1>1. /\ at'[s] = "captured" /\ at[s] = "queried" /\ shot'[s] = Frame(s)
      /\ cursor'[s] = cursor[s] /\ pending'[s] = pending[s] /\ known'[s] = known[s]
      /\ prev'[s] = prev[s] /\ since_key'[s] = since_key[s] /\ view'[s] = view[s] /\ prev[s] = view[s]
  BY <1>0 DEF Capture, Loops, StreamInv
<1>2. Frame(s) \in Frames /\ \A t \in Tiles : Frame(s)[t] = screen[t] \/ (t \notin pending[s] /\ Frame(s)[t] = prev[s][t])
  BY <1>0 DEF Frame, Frames, Shared, StreamInv, StreamTyped
<1>3. StreamTyped(s)'
  BY <1>0, <1>1, <1>2 DEF StreamInv, StreamTyped
<1>4. ASSUME NEW t \in Tiles PROVE Owing(s, t)'
  <2>1. Owing(s, t)
    BY <1>0 DEF StreamInv
  <2>2. Unheard(cursor[s], t)' <=> Unheard(cursor[s], t)
    BY <1>0, <1>1 DEF Unheard
  <2>3. QED
    BY <1>0, <1>1, <1>2, <2>1, <2>2 DEF Owing
<1>5. StreamInv(s)'
  BY <1>0, <1>1, <1>3, <1>4 DEF StreamInv
<1>6. QED
  BY <1>0, <1>5, StreamStep DEF CaptureLoop

\* What is no longer pending after a frame was delivered, or was nothing new, is in the frame; a
\* frame that was dropped has delivered nothing.
LEMMA DeliveryKeeps ==
    ASSUME CaptureInv, NEW s \in Streams, Suppress(s) \/ Sent(s) \/ Dropped(s)
    PROVE  CaptureInv'
<1>0. /\ TypeOK /\ Shared /\ Loops /\ StreamInv(s) /\ UNCHANGED <<epoch, base, ring, notified, subtracting>>
      /\ UNCHANGED <<broken, region, screen>>
  BY ByStream DEF CaptureInv, Suppress, Sent, Dropped, xVars, logVars
<1>1. /\ at'[s] = "idle" /\ at[s] = "captured" /\ prev[s] = view[s]
      /\ cursor'[s] = cursor[s] /\ shot'[s] = Unseen /\ StreamTyped(s)
  BY <1>0 DEF Suppress, Sent, Dropped, Loops, StreamInv
<1>2. \A t \in Tiles : /\ Unheard(cursor[s], t)' <=> Unheard(cursor[s], t)
                       /\ t \in region /\ t \notin notified => Unheard(cursor[s], t)
                       /\ shot[s][t] # screen[t] => Unheard(cursor[s], t)
                       /\ view[s][t] # screen[t] => t \in pending[s] \/ Unheard(cursor[s], t)
  BY <1>0, <1>1 DEF Unheard, StreamInv, Owing
<1>3. Unseen \in Frames
  BY NothingTyped
<1>4. CASE Suppress(s)
  <2>1. /\ pending'[s] = {} /\ known'[s] = FALSE /\ shot[s] = prev[s]
        /\ prev'[s] = prev[s] /\ since_key'[s] = since_key[s] /\ view'[s] = view[s]
    BY <1>0, <1>4 DEF Suppress, Loops
  <2>2. StreamInv(s)'
    BY <1>0, <1>1, <1>2, <1>3, <2>1 DEF StreamInv, StreamTyped, Owing
  <2>3. QED
    BY <1>0, <1>4, <2>2, StreamStep DEF CaptureLoop
<1>5. CASE Sent(s)
  <2>1. /\ pending'[s] = {} /\ known'[s] = FALSE /\ prev'[s] = shot[s] /\ view'[s] = Compose(s)
        /\ since_key'[s] = IF IsKey(s) THEN 0 ELSE since_key[s] + 1
    BY <1>0, <1>5 DEF Sent, Loops
  <2>2. Compose(s) = shot[s]
    <3>1. shot[s] = [t \in Tiles |-> shot[s][t]]
      BY <1>1 DEF StreamTyped, Frames
    <3>2. \A t \in Tiles : shot[s][t] = prev[s][t] => view[s][t] = shot[s][t]
      BY <1>1
    <3>3. QED
      BY <3>1, <3>2 DEF Compose
  <2>3. since_key'[s] \in 0 .. KeyframeInterval - 1
    BY <1>1, <2>1, TilesTyped DEF IsKey, StreamTyped
  <2>4. StreamInv(s)'
    BY <1>0, <1>1, <1>2, <1>3, <2>1, <2>2, <2>3 DEF StreamInv, StreamTyped, Owing
  <2>5. QED
    BY <1>0, <1>5, <2>4, StreamStep DEF CaptureLoop
<1>6. CASE Dropped(s)
  <2>1. /\ pending'[s] = pending[s] /\ known'[s] = known[s] /\ prev'[s] = prev[s] /\ view'[s] = view[s]
        /\ since_key'[s] = since_key[s]
    BY <1>0, <1>6 DEF Dropped, KeepPending, KeepBaseline
  <2>2. StreamInv(s)'
    BY <1>0, <1>1, <1>2, <1>3, <2>1 DEF StreamInv, StreamTyped, Owing
  <2>3. QED
    BY <1>0, <1>6, <2>2, StreamStep DEF CaptureLoop
<1>7. QED
  BY <1>4, <1>5, <1>6

--------------------------------------------------------------------------------
(* The theorems.                                                               *)

LEMMA InitInv == Init => CaptureInv
<1> SUFFICES ASSUME Init PROVE CaptureInv
  OBVIOUS
<1>1. 0 \in 0 .. MaxDraws /\ 0 \in 0 .. MaxReconnects /\ <<>> \in Seq(SUBSET Tiles) /\ Len(<<>>) = 0
  BY TilesTyped
<1>2. Shared
  <2>1. 0 \in Nat /\ 0 = 0 + Len(<<>>) /\ Len(<<>>) <= RingMax /\ {} \in SUBSET Tiles
    BY <1>1, TilesTyped
  <2>2. QED
    BY <1>1, <2>1, Zenon DEF Init, Shared
<1>3. Loops
  BY DEF Init, Loops
<1>4. ASSUME NEW s \in Streams PROVE StreamInv(s)
  BY <1>1, <1>4, NothingTyped DEF Init, StreamInv, StreamTyped, Owing
<1>5. QED
  BY <1>2, <1>3, <1>4, ByStream

LEMMA CaptureStutters ==
    ASSUME CaptureInv, UNCHANGED vars
    PROVE  CaptureInv'
<1>1. UNCHANGED <<screen, draws, reconnects, region, notified, subtracting, epoch, base, ring, broken,
                  at, cursor, pending, known, prev, since_key, shot, view>>
  BY DEF vars, xVars, logVars, loopVars
<1>2. TypeOK' /\ BaselineIsView' /\ (region' \subseteq notified' \/ subtracting')
      /\ \A s \in Streams : cursor'[s] <= epoch'
  BY <1>1 DEF CaptureInv, TypeOK, BaselineIsView
<1>3. \A s \in Streams, t \in Tiles : Owing(s, t)'
  BY <1>1 DEF CaptureInv, Owing, Unheard
<1>4. QED
  BY <1>2, <1>3 DEF CaptureInv

\* CaptureInv is inductive where the X server serves a subtract before a later capture.
THEOREM NothingForgotten == InOrder => (CaptureSafety => []CaptureInv)
<1> SUFFICES ASSUME InOrder PROVE CaptureSafety => []CaptureInv
  OBVIOUS
<1>1. ASSUME CaptureInv, [Next]_vars PROVE CaptureInv'
  <2>1. ASSUME NEW t \in Tiles, NEW p \in Pixels, Draw(t, p) PROVE CaptureInv'
    BY <1>1, <2>1, DrawKeeps
  <2>2. CASE ServeSubtract
    BY <1>1, <2>2, ServeSubtractKeeps
  <2>3. CASE TrackerBreaks
    BY <1>1, <2>3, TrackerBreaksKeeps
  <2>4. ASSUME NEW s \in Streams, CaptureLoop(s) PROVE CaptureInv'
    BY <1>1, <2>4, QueryKeeps, CaptureKeeps, DeliveryKeeps DEF CaptureLoop
  <2>5. ASSUME NEW s \in Streams, Stop(s) PROVE CaptureInv'
    BY <1>1, <2>5, StopKeeps
  <2>6. ASSUME NEW s \in Streams, StartStream(s) PROVE CaptureInv'
    BY <1>1, <2>6, StartKeeps
  <2>7. CASE UNCHANGED vars
    BY <1>1, <2>7, CaptureStutters
  <2>8. QED
    BY <1>1, <2>1, <2>2, <2>3, <2>4, <2>5, <2>6, <2>7 DEF Next, Display
<1>2. QED
  BY <1>1, InitInv, PTL DEF CaptureSafety

\* ChangeNeverSkipped: while subtracts are served before later captures, every tile that a client
\* is shown wrongly is one its stream is still bound to capture, whatever is merged, evicted,
\* drained by another stream or dropped on a full channel (main.rs, the capture loops;
\* executor.rs, DamageLog and DamageTracker).
THEOREM ChangesNeverSkipped == InOrder => (CaptureSafety => []ChangeNeverSkipped)
<1>1. CaptureInv => ChangeNeverSkipped
  BY DEF CaptureInv, Owing, Unheard, ChangeNeverSkipped, OwedTiles
<1>2. QED
  BY <1>1, NothingForgotten, PTL

\* DeltaSound: the baseline of a stream is what its client shows, and a frame put together from a
\* region is wrong nowhere but where more damage has still to be heard of (executor.rs,
\* DeltaState; main.rs, delta_capture).
THEOREM DeltasAlwaysSound == InOrder => (CaptureSafety => []DeltaSound)
<1>1. CaptureInv => DeltaSound
  BY DEF CaptureInv, Owing, Unheard, DeltaSound, ComposedFrameSound
<1>2. QED
  BY <1>1, NothingForgotten, PTL
================================================================================
