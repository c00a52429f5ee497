------------------------------ MODULE AgentsProofs ------------------------------
(***************************************************************************)
(* Proofs about what an agent is told: of the actions of its turns         *)
(* (Turns), of a batch or a step of the SDK (Batches), of a block of       *)
(* pyautogui (Desktops) and of the screen (Shots), in the composition      *)
(* MCAgents.  Each part has an inductive invariant of its own.             *)
(*                                                                         *)
(* Assumed of the constants: AgentsAssumption alone, that the bounds are   *)
(* natural numbers, that a frame cache has room for one frame (FrameCache  *)
(* sees to it) and that "none" names no capture setting and no content.    *)
(* Which actions an agent may want plays no part: Wanted is never          *)
(* expanded.                                                               *)
(***************************************************************************)
EXTENDS MCAgents, SequenceTheorems, FiniteSetTheorems, TLAPS

--------------------------------------------------------------------------------
(* The turns of an agent (Turns).                                               *)

Names == U!Surfaces \cup {a.surface : a \in Wanted}
Entry == [ok : BOOLEAN, source : Names, verb : {a.verb : a \in Wanted}]
Won(s) == {i \in DOMAIN s : s[i].ok}

TurnTyping ==
    /\ phase \in {"observe", "decide", "act", "settle", "end"}
    /\ batch \in Seq(Wanted) /\ results \in Seq(Entry) /\ active \in Names
    /\ total \in Nat /\ acked \in Nat
    /\ feedback \in BOOLEAN /\ owed \in BOOLEAN /\ done \in BOOLEAN

CountOK ==
    /\ phase \in {"act", "settle"} \/ results = <<>>
    /\ phase = "act" => Len(results) < Len(batch)
    /\ acked = total + Cardinality(Won(results))

OwedOK ==
    /\ phase = "observe" /\ owed => feedback
    /\ phase = "decide" => ~owed
    /\ phase \in {"act", "settle"} /\ owed => U!Failed

TurnInv == TurnTyping /\ CountOK /\ OwedOK /\ U!StopsAtFailure /\ U!NoPhantomPress

\* A decision is a sequence of what the agent may want.
LEMMA BatchTyped == ASSUME NEW b \in UNION {[1 .. n -> Wanted] : n \in 0 .. TurnBatch}
                    PROVE  b \in Seq(Wanted)
  <1>1. PICK n \in 0 .. TurnBatch : b \in [1 .. n -> Wanted]
    OBVIOUS
  <1>2. n \in Nat
    BY AgentsAssumption
  <1> QED BY <1>1, <1>2

\* Where nothing was tried nothing was won.
LEMMA WonNone == Cardinality(Won(<<>>)) = 0
  <1>1. Won(<<>>) = {}
    BY DEF Won
  <1> QED BY <1>1, FS_EmptySet

\* One more result is one more acknowledged action, or none.
LEMMA WonGrows ==
    ASSUME NEW s \in Seq(Entry), NEW e \in Entry
    PROVE  /\ Cardinality(Won(s)) \in Nat
           /\ Cardinality(Won(Append(s, e))) = Cardinality(Won(s)) + (IF e.ok THEN 1 ELSE 0)
  <1>1. IsFiniteSet(Won(s)) /\ Len(s) + 1 \notin Won(s)
    <2>1. IsFiniteSet(1 .. Len(s)) /\ Won(s) \subseteq 1 .. Len(s)
      BY FS_Interval DEF Won
    <2> QED BY <2>1, FS_Subset
  <1>2. Won(Append(s, e)) = IF e.ok THEN Won(s) \cup {Len(s) + 1} ELSE Won(s)
    BY DEF Won, Entry
  <1>3. e.ok \in BOOLEAN
    BY DEF Entry
  <1>4. Cardinality(Won(s)) \in Nat /\ Cardinality(Won(s) \cup {Len(s) + 1}) = Cardinality(Won(s)) + 1
    BY <1>1, FS_CardinalityType, FS_AddElement
  <1> QED BY <1>2, <1>3, <1>4

\* An action goes to the surface it names, the browser or the active one.
LEMMA RouteTyped == ASSUME active \in Names, NEW a \in Wanted PROVE U!Route(a) \in Names
  BY DEF Names, U!Route, U!Surfaces

\* Nothing has been tried.
LEMMA TurnInitInv == U!TurnInit => TurnInv
  <1> SUFFICES ASSUME U!TurnInit PROVE TurnInv
    OBVIOUS
  <1>1. batch = <<>> /\ results = <<>>
    BY DEF U!TurnInit
  <1>2. batch \in Seq(Wanted) /\ results \in Seq(Entry)
    BY <1>1
  <1>3. TurnTyping
    BY <1>2 DEF U!TurnInit, TurnTyping, Names
  <1>4. CountOK
    BY <1>1, WonNone DEF U!TurnInit, CountOK
  <1> QED BY <1>1, <1>3, <1>4 DEF U!TurnInit, TurnInv, OwedOK, U!StopsAtFailure, U!NoPhantomPress

\* An action is recorded as what it was.
LEMMA ActInv == ASSUME TurnInv, U!Act PROVE TurnInv'
  <1> USE DEF TurnInv, TurnTyping
  <1> DEFINE a == batch[Len(results) + 1]
             name == U!Route(a)
  <1>1. a \in Wanted
    BY DEF U!Act, CountOK
  <1>2. name \in Names
    BY <1>1, RouteTyped
  <1> HIDE DEF a, name
  <1>3. PICK ok \in BOOLEAN :
          /\ ok => U!Possible(name, a)
          /\ active' = name
          /\ results' = Append(results, [ok |-> ok, source |-> name, verb |-> a.verb])
          /\ acked' = IF ok THEN acked + 1 ELSE acked
          /\ pressed' = IF ok THEN U!Lands(name, a) ELSE pressed
          /\ phase' = IF U!Stops(ok) \/ Len(results') = Len(batch) THEN "settle" ELSE "act"
          /\ owed' = (owed \/ ~ok)
    BY DEF U!Act, a, name
  <1>4. phase = "act" /\ UNCHANGED <<total, feedback, batch, done>>
    BY DEF U!Act
  <1> DEFINE e == [ok |-> ok, source |-> name, verb |-> a.verb]
  <1>5. e \in Entry /\ e.ok = ok
    BY <1>1, <1>2 DEF Entry
  <1> HIDE DEF e
  <1>6. results' = Append(results, e)
    BY <1>3 DEF e
  <1>7. /\ results' \in Seq(Entry) /\ Len(results') = Len(results) + 1
        /\ \A i \in 1 .. Len(results) : results'[i] = results[i]
        /\ results'[Len(results) + 1] = e
    BY <1>5, <1>6
  <1>8. TurnTyping'
    BY <1>2, <1>3, <1>4, <1>7
  <1>9. CountOK'
    <2>1. Cardinality(Won(results')) = Cardinality(Won(results)) + (IF ok THEN 1 ELSE 0)
      BY <1>5, <1>6, WonGrows
    <2>2. Cardinality(Won(results)) \in Nat
      BY <1>5, WonGrows
    <2>3. acked' = total' + Cardinality(Won(results'))
      BY <2>1, <2>2, <1>3, <1>4 DEF CountOK
    <2>4. phase' = "act" => Len(results') < Len(batch')
      BY <1>3, <1>4, <1>7 DEF CountOK
    <2> QED BY <2>3, <2>4, <1>3 DEF CountOK
  <1>10. \A i \in DOMAIN results : results[i].ok
    BY <1>4 DEF U!StopsAtFailure
  <1>11. OwedOK'
    <2>1. ~owed
      BY <1>4, <1>10 DEF OwedOK, U!Failed
    <2>2. ~ok => U!Failed'
      BY <1>5, <1>7 DEF U!Failed
    <2> QED BY <1>3, <2>1, <2>2 DEF OwedOK
  <1>12. U!StopsAtFailure'
    <2> SUFFICES ASSUME NEW i \in DOMAIN results', ~results'[i].ok
                 PROVE  i = Len(results') /\ phase' # "act"
      BY DEF U!StopsAtFailure
    <2>1. i = Len(results) + 1
      BY <1>7, <1>10
    <2>2. ~ok
      BY <2>1, <1>5, <1>7
    <2> QED BY <2>1, <2>2, <1>3, <1>7 DEF U!Stops
  <1>13. U!NoPhantomPress'
    BY <1>3 DEF U!NoPhantomPress, U!Possible, U!Lands, U!Bounded
  <1> QED BY <1>8, <1>9, <1>11, <1>12, <1>13

\* The turn is counted and remembered.
LEMMA SettleInv == ASSUME TurnInv, U!Settle PROVE TurnInv'
  <1> USE DEF TurnInv, TurnTyping
  <1>1. Cardinality(Won(results)) \in Nat
    <2>1. IsFiniteSet(1 .. Len(results)) /\ Won(results) \subseteq 1 .. Len(results)
      BY FS_Interval DEF Won
    <2> QED BY <2>1, FS_Subset, FS_CardinalityType
  <1>2. U!Counted = acked
    <2>1. U!Cardinality(Won(results)) = Cardinality(Won(results))
      BY DEF U!Cardinality, U!IsFiniteSet, Cardinality, IsFiniteSet
    <2>2. U!Counted = total + U!Cardinality(Won(results))
      BY DEF U!Counted, Won
    <2> QED BY <2>1, <2>2 DEF CountOK
  <1>2a. total' = acked /\ acked' = acked /\ results' = <<>> /\ batch' = <<>>
    BY <1>2 DEF U!Settle
  <1>3. phase' \in {"observe", "end"}
    BY DEF U!Settle, U!End
  <1>4. TurnTyping'
    <2>1. batch' \in Seq(Wanted) /\ results' \in Seq(Entry)
      BY <1>2a
    <2> QED BY <1>2a, <1>3, <2>1 DEF U!Settle, U!Lesson, U!Failed
  <1>5. CountOK'
    BY <1>2a, <1>3, WonNone DEF CountOK
  <1>6. OwedOK'
    BY <1>3 DEF U!Settle, U!Lesson, OwedOK
  <1>7. U!StopsAtFailure' /\ U!NoPhantomPress'
    BY <1>2a DEF U!Settle, U!StopsAtFailure, U!NoPhantomPress
  <1> QED BY <1>4, <1>5, <1>6, <1>7

\* The other steps of the loop.
LEMMA TurnNextInv == ASSUME TurnInv, [U!TurnNext]_turnVars PROVE TurnInv'
  <1> USE DEF TurnInv, TurnTyping, CountOK, OwedOK, U!StopsAtFailure, U!NoPhantomPress, U!Failed
  <1>1. CASE UNCHANGED turnVars
    BY <1>1 DEF turnVars
  <1>2. CASE U!StepsOut
    BY <1>2 DEF U!StepsOut, U!End
  <1>3. CASE U!Observe
    BY <1>3 DEF U!Observe
  <1>4. CASE U!ObserveRaises
    BY <1>4 DEF U!ObserveRaises, U!End
  <1>5. CASE U!Unparsed
    BY <1>5 DEF U!Unparsed
  <1>6. CASE U!Decide
    <2>1. batch' \in Seq(Wanted)
      BY <1>6, BatchTyped DEF U!Decide
    <2>2. results = <<>> /\ results' = <<>> /\ ~owed /\ owed' = owed
      BY <1>6 DEF U!Decide
    <2>3. phase' = "act" => Len(batch') > 0
      BY <1>6, <2>1 DEF U!Decide
    <2> QED BY <1>6, <2>1, <2>2, <2>3 DEF U!Decide
  <1>7. CASE U!Act
    BY <1>7, ActInv
  <1>8. CASE U!Settle
    BY <1>8, SettleInv
  <1>9. CASE U!Ended
    BY <1>9 DEF U!Ended, U!tvars
  <1> QED BY <1>1, <1>2, <1>3, <1>4, <1>5, <1>6, <1>7, <1>8, <1>9 DEF U!TurnNext

\* TurnsSound from its invariant.
LEMMA TurnInvSound == TurnInv => U!TurnsSound
  <1> SUFFICES ASSUME TurnInv PROVE U!TurnsSound
    OBVIOUS
  <1>1. U!CountIsHonest
    BY WonNone DEF TurnInv, TurnTyping, CountOK, U!CountIsHonest
  <1> QED BY <1>1 DEF TurnInv, OwedOK, U!FailureIsTaught, U!TurnsSound

--------------------------------------------------------------------------------
(* Several actions in one call (Batches).                                       *)

Statuses == {"none", "ok", "error", "timeout", "sandbox_died", "skipped"}
Answers == [i : DOMAIN acts, kind : {"ack", "nack", "obs", "obsfail"}]

BatchTyping ==
    /\ acts \in Seq(B!Acts) /\ Len(acts) \in B!Index
    /\ form \in {"batch", "step"} /\ stop \in BOOLEAN
    /\ at \in [pc : {"gate", "await", "send", "returned"}, i : Nat \ {0}]
    /\ rows \in [B!Index -> Statuses]
    /\ waits \in [B!Index -> SUBSET {"ack", "obs"}]
    /\ got \in [B!Index -> SUBSET {"ack", "nack", "obs", "obsfail", "lost"}]
    /\ up \in Seq(DOMAIN acts) /\ down \in Seq(Answers) /\ link \in {"up", "dead", "noticed"}
    /\ ran \in [B!Index -> {"no", "ok", "failed"}] /\ order \in Seq(DOMAIN acts)

\* Where the caller can be.
PlaceOK ==
    /\ form = "step" => stop /\ \A k \in DOMAIN acts : ~acts[k].look
    /\ at.pc = "gate" \/ (at.pc = "await" /\ form = "batch") => at.i <= Len(acts)
    /\ at.pc = "send" => form = "step"
    /\ at.pc = "gate" /\ form = "step" => at.i = 1

\* An action that has been sent: executed, or on its way.
Went(k) == ran[k] # "no" \/ \E j \in DOMAIN up : up[j] = k

\* Nothing goes out before its turn, and nothing is executed twice.
WentOK ==
    /\ at.pc \in {"gate", "send"} => \A k \in B!Index : Went(k) => k < at.i
    /\ at.pc = "await" /\ form = "batch" => \A k \in B!Index : Went(k) => k <= at.i
    /\ \A j \in DOMAIN up : ran[up[j]] = "no"
    /\ \A j \in DOMAIN order : ran[order[j]] # "no"

Rising ==
    /\ \A j, k \in DOMAIN up : j < k => up[j] < up[k]
    /\ \A j, k \in DOMAIN order : j < k => order[j] < order[k]
    /\ \A j \in DOMAIN order, k \in DOMAIN up : order[j] < up[k]

\* An answer that is read, or on its way, is true.
Tells(r, k, kind) ==
    /\ kind = "ack" => r[k] = "ok"
    /\ kind = "nack" => r[k] = "failed"
    /\ kind \in {"obs", "obsfail"} => r[k] = "ok" /\ acts[k].look

AnswersOK ==
    /\ \A j \in DOMAIN down : Tells(ran, down[j].i, down[j].kind)
    /\ \A k \in DOMAIN acts : \A kind \in got[k] : Tells(ran, k, kind)

\* A row is true as soon as it is written, and stays so.
RowOK(k) ==
    /\ rows[k] = "ok" => ran[k] = "ok"
    /\ rows[k] = "skipped" => ~Went(k) /\ form = "batch" /\ at.pc = "returned"
    /\ rows[k] = "error" => \/ ran[k] = "failed" \/ (acts[k].look /\ ran[k] = "ok")
                            \/ acts[k].gate # "allow" /\ ~Went(k)

RowsOK == \A k \in DOMAIN acts : RowOK(k)

\* The rows behind the caller are written, those before it are not.
Progress ==
    /\ at.pc \in {"gate", "await"} => \A k \in DOMAIN acts : k < at.i => rows[k] # "none"
    /\ at.pc = "gate" \/ (at.pc = "await" /\ form = "batch") =>
         \A k \in DOMAIN acts : k >= at.i => rows[k] = "none"
    /\ at.pc = "send" => \A k \in DOMAIN acts : rows[k] \in {"none", "error"}
    /\ at.pc = "returned" => \A k \in DOMAIN acts : rows[k] # "none"

\* With stop_on_error nothing has gone out behind a row that is not ok.
StopOK ==
    form = "batch" /\ stop =>
        /\ at.pc \in {"gate", "await"} => \A j \in DOMAIN acts : j < at.i => rows[j] = "ok"
        /\ \A j, k \in DOMAIN acts : j < k /\ Went(k) => rows[j] = "ok"

BatchInv ==
    BatchTyping /\ PlaceOK /\ WentOK /\ Rising /\ AnswersOK /\ RowsOK /\ Progress /\ StopOK

\* The indices of the actions.
LEMMA Indices == ASSUME BatchTyping
                 PROVE  /\ DOMAIN acts = 1 .. Len(acts) /\ DOMAIN acts \subseteq B!Index
                        /\ Len(acts) \in Nat /\ B!N = Len(acts) /\ BatchActs \in Nat
                        /\ B!Index \subseteq Nat
  BY AgentsAssumption DEF BatchTyping, B!Index, B!N

\* What is on its way and what has been executed are actions that went out.
LEMMA SentWent ==
    ASSUME BatchTyping, WentOK
    PROVE  /\ \A j \in DOMAIN up : up[j] \in DOMAIN acts /\ Went(up[j])
           /\ \A j \in DOMAIN order : order[j] \in DOMAIN acts /\ Went(order[j])
           /\ \A j \in DOMAIN down : down[j] \in Answers
  <1>1. ASSUME NEW D, NEW s \in Seq(D), NEW j \in DOMAIN s
        PROVE  s[j] \in D
    BY <1>1
  <1>2. up \in Seq(DOMAIN acts) /\ order \in Seq(DOMAIN acts) /\ down \in Seq(Answers)
    BY DEF BatchTyping
  <1>3. \A j \in DOMAIN up : Went(up[j])
    BY DEF Went
  <1>4. \A j \in DOMAIN order : Went(order[j])
    BY DEF WentOK, Went
  <1> QED BY <1>1, <1>2, <1>3, <1>4

\* Nothing has been sent.
LEMMA BatchInitInv == B!BatchInit => BatchInv
  <1> SUFFICES ASSUME B!BatchInit PROVE BatchInv
    OBVIOUS
  <1>1. acts \in Seq(B!Acts) /\ Len(acts) \in B!Index
    BY AgentsAssumption DEF B!BatchInit, B!Index
  <1>2. up = <<>> /\ down = <<>> /\ order = <<>>
    BY DEF B!BatchInit
  <1>3. up \in Seq(DOMAIN acts) /\ down \in Seq(Answers) /\ order \in Seq(DOMAIN acts)
    BY <1>2
  <1>4. BatchTyping
    BY <1>1, <1>3 DEF B!BatchInit, BatchTyping, Statuses
  <1>5. PlaceOK
    <2>1. form = "step" => stop /\ \A k \in DOMAIN acts : ~acts[k].look
      BY DEF B!BatchInit
    <2>2. at.pc = "gate" /\ at.i = 1 /\ 1 <= Len(acts)
      BY <1>1, AgentsAssumption DEF B!BatchInit, B!Index
    <2> QED BY <2>1, <2>2 DEF PlaceOK
  <1>6. \A k \in B!Index : ~Went(k) /\ rows[k] = "none" /\ got[k] = {}
    BY DEF B!BatchInit, Went
  <1>7. WentOK /\ Rising /\ AnswersOK
    BY <1>2, <1>4, <1>6, Indices DEF WentOK, Rising, AnswersOK
  <1>8. RowsOK /\ Progress /\ StopOK
    BY <1>4, <1>6, Indices DEF B!BatchInit, RowsOK, RowOK, Progress, StopOK
  <1> QED BY <1>4, <1>5, <1>7, <1>8 DEF BatchInv

\* The row of the action at hand is written, and the others are skipped or go on.
LEMMA FinishInv ==
    ASSUME BatchInv, form = "batch", at.pc \in {"gate", "await"},
           NEW status \in {"ok", "error", "timeout", "sandbox_died"}, B!Finish(at.i, status),
           status = "ok" => ran[at.i] = "ok",
           status = "error" => \/ ran[at.i] = "failed" \/ (acts[at.i].look /\ ran[at.i] = "ok")
                               \/ acts[at.i].gate # "allow" /\ ~Went(at.i),
           waits' \in [B!Index -> SUBSET {"ack", "obs"}],
           UNCHANGED <<acts, form, stop, got, up, down, link, ran, order>>
    PROVE  BatchInv'
  <1> USE DEF BatchInv
  <1>1. /\ DOMAIN acts = 1 .. Len(acts) /\ DOMAIN acts \subseteq B!Index
        /\ Len(acts) \in Nat /\ B!N = Len(acts) /\ BatchActs \in Nat
        /\ B!Index \subseteq Nat
    BY Indices
  <1>2. at.i \in DOMAIN acts /\ at.i \in Nat
    BY <1>1 DEF PlaceOK, BatchTyping
  <1>3. \A k : Went(k)' <=> Went(k)
    BY DEF Went
  <1>4. \A k \in B!Index : Went(k) => k <= at.i
    BY <1>1, <1>2 DEF WentOK
  <1>5. WentOK' <=> /\ at'.pc \in {"gate", "send"} => \A k \in B!Index : Went(k) => k < at'.i
                    /\ at'.pc = "await" => \A k \in B!Index : Went(k) => k <= at'.i
    BY <1>3 DEF WentOK
  <1>6. Rising' /\ AnswersOK'
    BY DEF Rising, AnswersOK, Tells
  <1>7. CASE status # "ok" /\ B!Fatal(status)
    <2>1. /\ at' = [pc |-> "returned", i |-> at.i]
          /\ rows' = [k \in B!Index |-> IF k = at.i THEN status
                                        ELSE IF k \in at.i + 1 .. B!N THEN "skipped" ELSE rows[k]]
      BY <1>7 DEF B!Finish, B!SkipRest, B!Goto
    <2>2. \A k \in DOMAIN acts : /\ k < at.i => rows'[k] = rows[k]
                                 /\ k = at.i => rows'[k] = status
                                 /\ k > at.i => rows'[k] = "skipped"
      BY <1>1, <1>2, <2>1
    <2>3. BatchTyping' /\ PlaceOK'
      BY <2>1, <1>2 DEF BatchTyping, PlaceOK, Statuses, Answers
    <2>4. RowsOK'
      <3> SUFFICES ASSUME NEW k \in DOMAIN acts PROVE RowOK(k)'
        BY DEF RowsOK
      <3>1. CASE k < at.i
        BY <3>1, <1>3, <2>1, <2>2 DEF RowsOK, RowOK
      <3>2. CASE k = at.i
        BY <3>2, <1>3, <2>2 DEF RowOK
      <3>3. CASE k > at.i
        BY <3>3, <1>1, <1>2, <1>3, <1>4, <2>1, <2>2 DEF RowOK
      <3> QED BY <3>1, <3>2, <3>3, <1>1, <1>2
    <2>5. Progress'
      BY <1>1, <1>2, <2>1, <2>2 DEF Progress
    <2>6. StopOK'
      BY <1>1, <1>2, <1>3, <1>4, <2>1, <2>2 DEF StopOK
    <2> QED BY <1>5, <1>6, <2>1, <2>3, <2>4, <2>5, <2>6
  <1>8. CASE ~(status # "ok" /\ B!Fatal(status))
    <2>1. /\ at' = [pc |-> IF at.i = B!N THEN "returned" ELSE "gate", i |-> at.i + 1]
          /\ rows' = [rows EXCEPT ![at.i] = status]
      BY <1>8 DEF B!Finish, B!Goto
    <2>2. \A k \in DOMAIN acts : /\ k # at.i => rows'[k] = rows[k]
                                 /\ k = at.i => rows'[k] = status
      BY <1>1, <1>2, <2>1 DEF BatchTyping
    <2>3. BatchTyping'
      <3>1. at' \in [pc : {"gate", "await", "send", "returned"}, i : Nat \ {0}]
        BY <2>1, <1>1, <1>2
      <3>2. rows' \in [B!Index -> Statuses]
        BY <2>1 DEF BatchTyping, Statuses
      <3> QED BY <3>1, <3>2 DEF BatchTyping, Answers
    <2>4. PlaceOK' /\ WentOK'
      BY <1>1, <1>2, <1>4, <1>5, <2>1 DEF PlaceOK
    <2>5. RowsOK'
      <3> SUFFICES ASSUME NEW k \in DOMAIN acts PROVE RowOK(k)'
        BY DEF RowsOK
      <3>1. CASE k # at.i
        BY <3>1, <1>3, <2>2 DEF RowsOK, RowOK
      <3>2. CASE k = at.i
        BY <3>2, <1>3, <2>2 DEF RowOK
      <3> QED BY <3>1, <3>2
    <2>6. Progress'
      BY <1>1, <1>2, <2>1, <2>2 DEF Progress
    <2>7. StopOK'
      <3>1. stop => status = "ok"
        BY <1>8 DEF B!Fatal
      <3> QED BY <1>1, <1>2, <1>3, <1>4, <2>1, <2>2, <3>1 DEF StopOK
    <2> QED BY <1>6, <2>3, <2>4, <2>5, <2>6, <2>7
  <1> QED BY <1>7, <1>8

\* What the futures say is true: an answer read is one that was given.
LEMMA StatusTells ==
    ASSUME BatchInv, NEW i \in DOMAIN acts
    PROVE  /\ B!Status(i) \in {"none", "ok", "error", "sandbox_died"}
           /\ B!Status(i) = "ok" => ran[i] = "ok"
           /\ B!Status(i) = "error" => ran[i] = "failed" \/ (acts[i].look /\ ran[i] = "ok")
  <1>1. \A kind \in got[i] : Tells(ran, i, kind)
    BY DEF BatchInv, AnswersOK
  <1>2. B!Status(i) \in {"none", "ok", "error", "sandbox_died"}
    BY DEF B!Status, B!Classify
  <1>3. B!Status(i) = "ok" => "ack" \in got[i]
    BY DEF B!Status, B!Classify
  <1>4. B!Status(i) = "error" => "nack" \in got[i] \/ "obsfail" \in got[i]
    BY DEF B!Status, B!Classify
  <1> QED BY <1>1, <1>2, <1>3, <1>4 DEF Tells

\* What the gateway refuses is not sent, and never will be.
LEMMA RefusedInv == ASSUME BatchInv, B!Refused PROVE BatchInv'
  <1>1. /\ at.pc = "gate" /\ form = "batch" /\ B!Finish(at.i, "error")
        /\ UNCHANGED <<acts, form, stop, waits, got, up, down, link, ran, order>>
    BY DEF B!Refused, B!Here, B!Classify, B!call, B!wire
  <1>2. acts[at.i].gate # "allow"
    BY DEF B!Refused, B!MayPass
  <1>3. ~Went(at.i)
    <2>1. at.i \in B!Index /\ at.i \in Nat
      BY <1>1, Indices DEF BatchInv, BatchTyping, PlaceOK
    <2> QED BY <1>1, <2>1 DEF BatchInv, WentOK
  <1>4. waits' \in [B!Index -> SUBSET {"ack", "obs"}]
    BY <1>1 DEF BatchInv, BatchTyping
  <1> QED BY <1>1, <1>2, <1>3, <1>4, FinishInv

\* An action is sent when all before it are answered, or the link is found dead.
LEMMA ActBatchInv == ASSUME BatchInv, B!Act PROVE BatchInv'
  <1> USE DEF BatchInv
  <1>1. /\ DOMAIN acts = 1 .. Len(acts) /\ DOMAIN acts \subseteq B!Index
        /\ Len(acts) \in Nat /\ B!N = Len(acts) /\ BatchActs \in Nat
        /\ B!Index \subseteq Nat
    BY Indices
  <1>2. /\ at.pc = "gate" /\ form = "batch"
        /\ UNCHANGED <<acts, form, stop, got, down, link, ran, order>>
    BY DEF B!Act, B!Here, B!call
  <1>3. at.i \in DOMAIN acts /\ at.i \in Nat
    BY <1>1, <1>2 DEF PlaceOK, BatchTyping
  <1>4. CASE B!Finish(at.i, B!Classify("lost")) /\ UNCHANGED <<up, waits>>
    <2>1. B!Finish(at.i, "sandbox_died")
      BY <1>4 DEF B!Classify
    <2>2. waits' \in [B!Index -> SUBSET {"ack", "obs"}]
      BY <1>4 DEF BatchTyping
    <2> QED BY <1>2, <1>4, <2>1, <2>2, FinishInv
  <1>5. CASE /\ up' = Append(up, at.i) /\ waits' = [waits EXCEPT ![at.i] = B!Futures(acts[at.i])]
             /\ B!Goto("await", at.i) /\ UNCHANGED rows
    <2>1. at' = [pc |-> "await", i |-> at.i] /\ rows' = rows
      BY <1>5 DEF B!Goto
    <2>2. /\ up' \in Seq(DOMAIN acts) /\ Len(up') = Len(up) + 1 /\ Len(up) \in Nat
          /\ DOMAIN up = 1 .. Len(up) /\ DOMAIN up' = 1 .. Len(up) + 1
          /\ \A j \in DOMAIN up : up'[j] = up[j]
          /\ up'[Len(up) + 1] = at.i
      BY <1>3, <1>5 DEF BatchTyping
    <2>3. \A k : Went(k)' <=> Went(k) \/ k = at.i
      BY <1>2, <2>2 DEF Went
    <2>4. \A k \in B!Index : Went(k) => k < at.i
      BY <1>2 DEF WentOK
    <2>5. \A j \in DOMAIN up : up[j] \in B!Index /\ Went(up[j])
      BY <1>1, SentWent
    <2>6. \A j \in DOMAIN order : order[j] \in B!Index /\ Went(order[j])
      BY <1>1, SentWent
    <2>7. BatchTyping'
      <3>1. waits' \in [B!Index -> SUBSET {"ack", "obs"}]
        BY <1>5 DEF BatchTyping, B!Futures
      <3>2. at' \in [pc : {"gate", "await", "send", "returned"}, i : Nat \ {0}]
        BY <1>3, <1>1, <2>1
      <3> QED BY <1>2, <2>1, <2>2, <3>1, <3>2 DEF BatchTyping, Answers
    <2>8. PlaceOK'
      BY <1>1, <1>2, <1>3, <2>1 DEF PlaceOK
    <2>9. WentOK'
      <3>1. \A k \in B!Index : Went(k)' => k <= at.i
        BY <1>1, <1>3, <2>3, <2>4
      <3>2. ran[at.i] = "no"
        BY <1>1, <1>3, <2>4 DEF Went, BatchTyping
      <3>3. \A j \in DOMAIN up' : ran[up'[j]] = "no"
        BY <2>2, <3>2 DEF WentOK
      <3> QED BY <1>2, <2>1, <3>1, <3>3 DEF WentOK
    <2>10. Rising'
      <3>1. \A j \in DOMAIN up : up[j] < at.i
        BY <2>4, <2>5
      <3>2. \A j \in DOMAIN order : order[j] < at.i
        BY <2>4, <2>6
      <3> QED BY <1>2, <2>2, <3>1, <3>2 DEF Rising
    <2>11. AnswersOK'
      BY <1>2 DEF AnswersOK, Tells
    <2>12. rows[at.i] = "none"
      BY <1>2, <1>3 DEF Progress
    <2>13. RowsOK'
      BY <1>2, <2>1, <2>3, <2>12 DEF RowsOK, RowOK
    <2>14. Progress'
      BY <1>2, <2>1 DEF Progress
    <2>15. StopOK'
      BY <1>1, <1>2, <1>3, <2>1, <2>3 DEF StopOK
    <2> QED BY <2>7, <2>8, <2>9, <2>10, <2>11, <2>13, <2>14, <2>15
  <1> QED BY <1>4, <1>5 DEF B!Act

\* The answers have come, or the timeout.
LEMMA AnsweredInv == ASSUME BatchInv, B!Answered \/ B!TimedOut PROVE BatchInv'
  <1>1. /\ at.pc = "await" /\ form = "batch" /\ waits' = [waits EXCEPT ![at.i] = {}]
        /\ UNCHANGED <<acts, form, stop, got, up, down, link, ran, order>>
    BY DEF B!Answered, B!TimedOut, B!Here, B!call, B!wire
  <1>2. at.i \in DOMAIN acts
    BY <1>1, Indices DEF BatchInv, BatchTyping, PlaceOK
  <1>3. waits' \in [B!Index -> SUBSET {"ack", "obs"}]
    BY <1>1 DEF BatchInv, BatchTyping
  <1>4. CASE B!Answered
    <2>1. B!Finish(at.i, B!Status(at.i)) /\ B!Status(at.i) # "none"
      BY <1>4 DEF B!Answered
    <2> DEFINE status == B!Status(at.i)
    <2>2. /\ status \in {"ok", "error", "timeout", "sandbox_died"}
          /\ status = "ok" => ran[at.i] = "ok"
          /\ status = "error" => ran[at.i] = "failed" \/ (acts[at.i].look /\ ran[at.i] = "ok")
      BY <1>2, <2>1, StatusTells
    <2>3. B!Finish(at.i, status)
      BY <2>1
    <2> HIDE DEF status
    <2> QED BY <1>1, <1>3, <2>2, <2>3, FinishInv
  <1>5. CASE B!TimedOut
    <2>1. B!Finish(at.i, "timeout")
      BY <1>5 DEF B!TimedOut, B!Classify
    <2> QED BY <1>1, <1>3, <2>1, FinishInv
  <1> QED BY <1>4, <1>5

\* A step writes the rows of what is refused before it sends anything.
LEMMA ComposeInv == ASSUME BatchInv, B!Compose PROVE BatchInv'
  <1> USE DEF BatchInv
  <1>1. /\ DOMAIN acts = 1 .. Len(acts) /\ DOMAIN acts \subseteq B!Index
        /\ Len(acts) \in Nat /\ B!N = Len(acts) /\ BatchActs \in Nat
        /\ B!Index \subseteq Nat
    BY Indices
  <1>2. /\ at.pc = "gate" /\ form = "step" /\ at' = [pc |-> "send", i |-> 1] /\ at.i = 1
        /\ UNCHANGED <<acts, form, stop, got, up, down, link, ran, order>>
    BY DEF B!Compose, B!Here, B!Goto, B!call, B!wire, PlaceOK
  <1>3. PICK approved \in [B!Index -> BOOLEAN] :
          LET ships == {k \in 1 .. B!N : B!MayPass(acts[k], approved[k])} IN
          /\ rows' = [k \in B!Index |-> IF k \in 1 .. B!N \ ships THEN B!Classify("denied") ELSE rows[k]]
          /\ waits' = [k \in B!Index |-> IF k \in ships THEN {"ack"} ELSE {}]
    BY DEF B!Compose
  <1>4. \A k : Went(k)' <=> Went(k)
    BY <1>2 DEF Went
  <1>5. \A k \in B!Index : k >= 1 /\ ~Went(k)
    <2>1. \A k \in B!Index : Went(k) => k < 1
      BY <1>2 DEF WentOK
    <2>2. \A k \in B!Index : k >= 1
      BY DEF B!Index
    <2> QED BY <2>1, <2>2, <1>1
  <1>6. \A k \in DOMAIN acts : rows[k] = "none"
    BY <1>1, <1>2, <1>5 DEF Progress
  <1>7. \A k \in DOMAIN acts : \/ rows'[k] = "none"
                               \/ rows'[k] = "error" /\ acts[k].gate # "allow"
    BY <1>1, <1>3, <1>6 DEF B!MayPass, B!Classify
  <1>8. BatchTyping'
    <2>1. rows' \in [B!Index -> Statuses]
      BY <1>3 DEF BatchTyping, Statuses, B!Classify
    <2>2. waits' \in [B!Index -> SUBSET {"ack", "obs"}]
      BY <1>3
    <2> QED BY <1>2, <2>1, <2>2 DEF BatchTyping, Answers
  <1>9. PlaceOK' /\ WentOK' /\ Rising' /\ AnswersOK'
    BY <1>2, <1>4, <1>5 DEF PlaceOK, WentOK, Rising, AnswersOK, Tells
  <1>10. RowsOK'
    BY <1>1, <1>2, <1>4, <1>5, <1>7 DEF RowsOK, RowOK
  <1>11. Progress' /\ StopOK'
    BY <1>2, <1>7 DEF Progress, StopOK
  <1> QED BY <1>8, <1>9, <1>10, <1>11

\* The next action of a step is passed over, sent, or fails all that wait.
LEMMA SendInv == ASSUME BatchInv, B!Send PROVE BatchInv'
  <1> USE DEF BatchInv
  <1>1. /\ DOMAIN acts = 1 .. Len(acts) /\ DOMAIN acts \subseteq B!Index
        /\ Len(acts) \in Nat /\ B!N = Len(acts) /\ BatchActs \in Nat
        /\ B!Index \subseteq Nat
    BY Indices
  <1>2. /\ at.pc = "send" /\ form = "step" /\ at.i \in Nat \ {0}
        /\ UNCHANGED <<acts, form, stop, rows, down, link, ran, order>>
    BY DEF B!Send, B!Here, B!call, PlaceOK, BatchTyping
  <1>3. \A k \in B!Index : Went(k) => k < at.i
    BY <1>2 DEF WentOK
  <1>4. CASE /\ UNCHANGED up
             /\ waits' \in [B!Index -> SUBSET {"ack", "obs"}]
             /\ got' \in [B!Index -> SUBSET {"ack", "nack", "obs", "obsfail", "lost"}]
             /\ \A k \in B!Index : got'[k] \subseteq got[k] \cup {"lost"}
             /\ at' \in {[pc |-> "await", i |-> 1], [pc |-> "send", i |-> at.i + 1]}
    <2>1. \A k : Went(k)' <=> Went(k)
      BY <1>2, <1>4 DEF Went
    <2>2. BatchTyping'
      BY <1>2, <1>4 DEF BatchTyping, Answers
    <2>3. PlaceOK'
      BY <1>2, <1>4 DEF PlaceOK
    <2>4. WentOK' /\ Rising'
      BY <1>1, <1>2, <1>3, <1>4, <2>1 DEF WentOK, Rising
    <2>5. AnswersOK'
      BY <1>1, <1>2, <1>4 DEF AnswersOK, Tells
    <2>6. RowsOK'
      BY <1>2, <2>1 DEF RowsOK, RowOK
    <2>7. Progress' /\ StopOK'
      BY <1>1, <1>2, <1>4 DEF Progress, StopOK
    <2> QED BY <2>2, <2>3, <2>4, <2>5, <2>6, <2>7
  <1>5. CASE at.i > B!N /\ B!Goto("await", 1) /\ UNCHANGED <<up, waits, got>>
    BY <1>4, <1>5 DEF B!Goto, BatchTyping
  <1>6. CASE at.i <= B!N /\ rows[at.i] # "none" /\ B!Goto("send", at.i + 1) /\ UNCHANGED <<up, waits, got>>
    BY <1>4, <1>6 DEF B!Goto, BatchTyping
  <1>7. CASE /\ at.i <= B!N /\ rows[at.i] = "none" /\ link = "up"
             /\ up' = Append(up, at.i) /\ B!Goto("send", at.i + 1) /\ UNCHANGED <<waits, got>>
    <2>1. at' = [pc |-> "send", i |-> at.i + 1] /\ at.i \in DOMAIN acts
      BY <1>1, <1>2, <1>7 DEF B!Goto
    <2>2. /\ up' \in Seq(DOMAIN acts) /\ Len(up') = Len(up) + 1 /\ Len(up) \in Nat
          /\ DOMAIN up = 1 .. Len(up) /\ DOMAIN up' = 1 .. Len(up) + 1
          /\ \A j \in DOMAIN up : up'[j] = up[j]
          /\ up'[Len(up) + 1] = at.i
      BY <2>1, <1>7 DEF BatchTyping
    <2>3. \A k : Went(k)' <=> Went(k) \/ k = at.i
      BY <1>2, <2>2 DEF Went
    <2>4. BatchTyping'
      BY <1>2, <1>7, <2>1, <2>2 DEF BatchTyping, Answers
    <2>5. PlaceOK' /\ AnswersOK' /\ Progress' /\ StopOK'
      BY <1>2, <1>7, <2>1 DEF PlaceOK, AnswersOK, Tells, Progress, StopOK
    <2>6. WentOK'
      <3>1. \A k \in B!Index : Went(k)' => k < at.i + 1
        BY <1>1, <1>2, <1>3, <2>3
      <3>2. ran[at.i] = "no"
        BY <1>1, <1>3, <2>1 DEF Went, BatchTyping
      <3>3. \A j \in DOMAIN up' : ran[up'[j]] = "no"
        BY <2>2, <3>2 DEF WentOK
      <3> QED BY <1>2, <2>1, <3>1, <3>3 DEF WentOK
    <2>7. Rising'
      <3>1. \A j \in DOMAIN up : up[j] < at.i
        BY <1>1, <1>3, SentWent
      <3>2. \A j \in DOMAIN order : order[j] < at.i
        BY <1>1, <1>3, SentWent
      <3> QED BY <1>2, <2>2, <3>1, <3>2 DEF Rising
    <2>8. RowsOK'
      BY <1>2, <1>7, <2>3 DEF RowsOK, RowOK
    <2> QED BY <2>4, <2>5, <2>6, <2>7, <2>8
  <1>8. CASE /\ at.i <= B!N /\ rows[at.i] = "none" /\ link # "up"
             /\ got' = [k \in B!Index |-> IF waits[k] # {} THEN got[k] \cup {"lost"} ELSE got[k]]
             /\ waits' = [k \in B!Index |-> {}]
             /\ B!Goto("await", 1) /\ UNCHANGED up
    <2>1. got' \in [B!Index -> SUBSET {"ack", "nack", "obs", "obsfail", "lost"}]
      BY <1>8 DEF BatchTyping
    <2> QED BY <1>4, <1>8, <2>1 DEF B!Goto, BatchTyping
  <1> QED BY <1>5, <1>6, <1>7, <1>8 DEF B!Send

\* The next row of a step is what its future says.
LEMMA CollectInv == ASSUME BatchInv, B!Collect PROVE BatchInv'
  <1> USE DEF BatchInv
  <1>1. /\ DOMAIN acts = 1 .. Len(acts) /\ DOMAIN acts \subseteq B!Index
        /\ Len(acts) \in Nat /\ B!N = Len(acts) /\ BatchActs \in Nat
        /\ B!Index \subseteq Nat
    BY Indices
  <1>2. /\ at.pc = "await" /\ form = "step" /\ at.i \in Nat \ {0}
        /\ UNCHANGED <<acts, form, stop, got, up, down, link, ran, order>>
    BY DEF B!Collect, B!Here, B!call, B!wire, BatchTyping
  <1>3. \A k : Went(k)' <=> Went(k)
    BY <1>2 DEF Went
  <1>4. CASE at.i > B!N /\ B!Goto("returned", B!N) /\ UNCHANGED <<rows, waits>>
    <2>1. at' = [pc |-> "returned", i |-> Len(acts)] /\ Len(acts) # 0
      BY <1>1, <1>4 DEF B!Goto, BatchTyping, B!Index
    <2>2. BatchTyping' /\ PlaceOK' /\ WentOK' /\ Rising' /\ AnswersOK'
      BY <1>1, <1>2, <1>4, <2>1 DEF BatchTyping, PlaceOK, WentOK, Rising, AnswersOK, Tells, Answers
    <2>3. RowsOK' /\ Progress' /\ StopOK'
      BY <1>1, <1>2, <1>3, <1>4, <2>1 DEF RowsOK, RowOK, Progress, StopOK
    <2> QED BY <2>2, <2>3
  <1>5. CASE at.i <= B!N /\ rows[at.i] # "none" /\ B!Goto("await", at.i + 1) /\ UNCHANGED <<rows, waits>>
    <2>1. at' = [pc |-> "await", i |-> at.i + 1]
      BY <1>5 DEF B!Goto
    <2>2. BatchTyping' /\ PlaceOK' /\ WentOK' /\ Rising' /\ AnswersOK'
      BY <1>2, <1>5, <2>1 DEF BatchTyping, PlaceOK, WentOK, Rising, AnswersOK, Tells, Answers
    <2>3. RowsOK' /\ Progress' /\ StopOK'
      BY <1>1, <1>2, <1>3, <1>5, <2>1 DEF RowsOK, RowOK, Progress, StopOK
    <2> QED BY <2>2, <2>3
  <1>6. CASE /\ at.i <= B!N /\ rows[at.i] = "none"
             /\ rows' = [rows EXCEPT ![at.i] = IF B!Status(at.i) = "none" THEN B!Classify("late")
                                               ELSE B!Status(at.i)]
             /\ waits' = [waits EXCEPT ![at.i] = {}] /\ B!Goto("await", at.i + 1)
    <2>1. at' = [pc |-> "await", i |-> at.i + 1] /\ at.i \in DOMAIN acts /\ at.i \in B!Index
      BY <1>1, <1>2, <1>6 DEF B!Goto
    <2> DEFINE status == IF B!Status(at.i) = "none" THEN "timeout" ELSE B!Status(at.i)
    <2>2. /\ status \in {"ok", "error", "timeout", "sandbox_died"}
          /\ status = "ok" => ran[at.i] = "ok"
          /\ status = "error" => ran[at.i] = "failed" \/ (acts[at.i].look /\ ran[at.i] = "ok")
      BY <2>1, StatusTells
    <2>3. rows' = [rows EXCEPT ![at.i] = status]
      BY <1>6 DEF B!Classify
    <2> HIDE DEF status
    <2>4. /\ \A k \in DOMAIN acts : k # at.i => rows'[k] = rows[k]
          /\ rows'[at.i] = status
      BY <1>1, <2>1, <2>3 DEF BatchTyping
    <2>5. BatchTyping'
      <3>1. rows' \in [B!Index -> Statuses]
        BY <2>2, <2>3 DEF BatchTyping, Statuses
      <3>2. waits' \in [B!Index -> SUBSET {"ack", "obs"}]
        BY <1>6 DEF BatchTyping
      <3> QED BY <1>2, <2>1, <3>1, <3>2 DEF BatchTyping, Answers
    <2>6. PlaceOK' /\ WentOK' /\ Rising' /\ AnswersOK'
      BY <1>2, <2>1 DEF PlaceOK, WentOK, Rising, AnswersOK, Tells
    <2>7. RowsOK'
      BY <1>2, <1>3, <2>1, <2>2, <2>4 DEF RowsOK, RowOK
    <2>8. Progress' /\ StopOK'
      BY <1>1, <1>2, <2>1, <2>2, <2>4 DEF Progress, StopOK
    <2> QED BY <2>5, <2>6, <2>7, <2>8
  <1> QED BY <1>4, <1>5, <1>6 DEF B!Collect

\* The reader takes an answer, or fails what waits.
LEMMA ReadInv ==
    ASSUME BatchInv, UNCHANGED <<acts, form, stop, at, rows, up, ran, order>>,
           link' \in {"up", "dead", "noticed"},
           waits' \in [B!Index -> SUBSET {"ack", "obs"}],
           got' \in [B!Index -> SUBSET {"ack", "nack", "obs", "obsfail", "lost"}],
           \A k \in DOMAIN acts : \A kind \in got'[k] : Tells(ran, k, kind),
           down' \in Seq(Answers), \A j \in DOMAIN down' : Tells(ran, down'[j].i, down'[j].kind)
    PROVE  BatchInv'
  <1> USE DEF BatchInv
  <1>1. \A k : Went(k)' <=> Went(k)
    BY DEF Went
  <1>2. AnswersOK'
    BY DEF AnswersOK, Tells
  <1>3. BatchTyping'
    BY DEF BatchTyping, Answers
  <1>4. PlaceOK' /\ WentOK' /\ Rising'
    BY <1>1 DEF PlaceOK, WentOK, Rising
  <1>5. RowsOK' /\ Progress' /\ StopOK'
    BY <1>1 DEF RowsOK, RowOK, Progress, StopOK
  <1> QED BY <1>2, <1>3, <1>4, <1>5

\* An answer is read.
LEMMA DispatchInv == ASSUME BatchInv, B!Dispatch PROVE BatchInv'
  <1>1. /\ down # <<>> /\ down \in Seq(Answers) /\ down' = Tail(down)
        /\ UNCHANGED <<acts, form, stop, at, rows, up, link, ran, order>>
    BY DEF BatchInv, BatchTyping, B!Dispatch, B!call
  <1> DEFINE m == Head(down)
  <1>2. m \in Answers /\ m = down[1] /\ 1 \in DOMAIN down
    BY <1>1
  <1>3. /\ down' \in Seq(Answers)
        /\ \A j \in DOMAIN down' : j + 1 \in DOMAIN down /\ down'[j] = down[j + 1]
    BY <1>1
  <1>4. /\ \A j \in DOMAIN down : Tells(ran, down[j].i, down[j].kind)
        /\ \A k \in DOMAIN acts : \A kind \in got[k] : Tells(ran, k, kind)
    BY DEF BatchInv, AnswersOK
  <1>5. Tells(ran, m.i, m.kind)
    BY <1>2, <1>4
  <1>6. PICK table \in {"ack", "obs"} :
          \/ /\ got' = [got EXCEPT ![m.i] = @ \cup {m.kind}]
             /\ waits' = [waits EXCEPT ![m.i] = @ \ {table}]
          \/ UNCHANGED <<got, waits>>
    BY DEF B!Dispatch
  <1>7. m.i \in DOMAIN acts /\ m.i \in B!Index /\ m.kind \in {"ack", "nack", "obs", "obsfail"}
    BY <1>2, Indices DEF Answers, BatchInv
  <1> HIDE DEF m
  <1>8. waits' \in [B!Index -> SUBSET {"ack", "obs"}]
    <2>1. waits \in [B!Index -> SUBSET {"ack", "obs"}]
      BY DEF BatchInv, BatchTyping
    <2>2. waits[m.i] \ {table} \in SUBSET {"ack", "obs"}
      BY <1>7, <2>1
    <2> QED BY <1>6, <1>7, <2>1, <2>2
  <1>9. got' \in [B!Index -> SUBSET {"ack", "nack", "obs", "obsfail", "lost"}]
    BY <1>6, <1>7 DEF BatchInv, BatchTyping
  <1>10. \A k \in DOMAIN acts : \A kind \in got'[k] : Tells(ran, k, kind)
    <2>1. \A k \in DOMAIN acts : got'[k] \subseteq got[k] \/ (k = m.i /\ got'[k] = got[k] \cup {m.kind})
      BY <1>6, <1>7, Indices DEF BatchInv, BatchTyping
    <2> QED BY <2>1, <1>4, <1>5
  <1>11. \A j \in DOMAIN down' : Tells(ran, down'[j].i, down'[j].kind)
    BY <1>3, <1>4
  <1>12. link' \in {"up", "dead", "noticed"}
    BY <1>1 DEF BatchInv, BatchTyping
  <1> QED BY <1>1, <1>3, <1>8, <1>9, <1>10, <1>11, <1>12, ReadInv

\* The end of the connection is seen.
LEMMA NoticeInv == ASSUME BatchInv, B!Notice PROVE BatchInv'
  <1>1. /\ UNCHANGED <<acts, form, stop, at, rows, up, down, ran, order>> /\ link' = "noticed"
        /\ got' = [k \in B!Index |-> IF waits[k] # {} THEN got[k] \cup {"lost"} ELSE got[k]]
        /\ waits' = [k \in B!Index |-> {}]
    BY DEF B!Notice, B!call
  <1>2. /\ down' \in Seq(Answers) /\ \A j \in DOMAIN down' : Tells(ran, down'[j].i, down'[j].kind)
        /\ \A k \in DOMAIN acts : \A kind \in got[k] : Tells(ran, k, kind)
    BY <1>1 DEF BatchInv, BatchTyping, AnswersOK
  <1>3. \A k \in DOMAIN acts : got'[k] \subseteq got[k] \cup {"lost"}
    BY <1>1, Indices DEF BatchInv
  <1>4. \A k : Tells(ran, k, "lost")
    BY DEF Tells
  <1>5. \A k \in DOMAIN acts : \A kind \in got'[k] : Tells(ran, k, kind)
    BY <1>2, <1>3, <1>4
  <1>6. waits' \in [B!Index -> SUBSET {"ack", "obs"}]
    BY <1>1
  <1>7. got' \in [B!Index -> SUBSET {"ack", "nack", "obs", "obsfail", "lost"}]
    BY <1>1 DEF BatchInv, BatchTyping
  <1> QED BY <1>1, <1>2, <1>5, <1>6, <1>7, ReadInv

\* The runtime executes the first action on its way; what it had answered stays true.
LEMMA RunInv ==
    ASSUME BatchInv, up # <<>>, NEW outcome \in {"ok", "failed"},
           ran' = [ran EXCEPT ![Head(up)] = outcome], order' = Append(order, Head(up)),
           up' \in {Tail(up), <<>>}, link' \in {"up", "dead", "noticed"},
           UNCHANGED <<acts, form, stop, at, rows, waits, got>>,
           down' \in Seq(Answers),
           \A j \in DOMAIN down' : \/ j \in DOMAIN down /\ down'[j] = down[j]
                                   \/ Tells(ran', down'[j].i, down'[j].kind)
    PROVE  BatchInv'
  <1> USE DEF BatchInv
  <1>1. /\ DOMAIN acts = 1 .. Len(acts) /\ DOMAIN acts \subseteq B!Index
        /\ Len(acts) \in Nat /\ B!N = Len(acts) /\ BatchActs \in Nat
        /\ B!Index \subseteq Nat
    BY Indices
  <1> DEFINE a == Head(up)
  <1>2. /\ DOMAIN up = 1 .. Len(up) /\ Len(up) \in Nat /\ 1 \in DOMAIN up /\ a = up[1]
        /\ up' \in Seq(DOMAIN acts)
        /\ \A j \in DOMAIN up' : j \in Nat /\ j + 1 \in DOMAIN up /\ j + 1 # 1 /\ up'[j] = up[j + 1]
    <2>1. ASSUME NEW D, NEW s \in Seq(D), s # <<>>
          PROVE  /\ DOMAIN s = 1 .. Len(s) /\ Len(s) \in Nat /\ 1 \in DOMAIN s /\ Head(s) = s[1]
                 /\ Tail(s) \in Seq(D) /\ <<>> \in Seq(D)
                 /\ \A j \in DOMAIN Tail(s) : /\ j \in Nat /\ j + 1 \in DOMAIN s /\ j + 1 # 1
                                              /\ Tail(s)[j] = s[j + 1]
      BY <2>1
    <2>2. up \in Seq(DOMAIN acts) /\ DOMAIN <<>> = {}
      BY DEF BatchTyping
    <2> QED BY <2>1, <2>2
  <1>3. a \in DOMAIN acts /\ a \in B!Index /\ ran[a] = "no" /\ Went(a)
    BY <1>1, <1>2, SentWent DEF WentOK
  <1> HIDE DEF a
  <1>4. /\ ran' \in [B!Index -> {"no", "ok", "failed"}] /\ ran'[a] = outcome
        /\ \A k \in B!Index : k # a => ran'[k] = ran[k]
    BY <1>3 DEF BatchTyping, a
  <1>5. /\ order' \in Seq(DOMAIN acts) /\ Len(order') = Len(order) + 1 /\ Len(order) \in Nat
        /\ DOMAIN order = 1 .. Len(order) /\ DOMAIN order' = 1 .. Len(order) + 1
        /\ \A j \in DOMAIN order : order'[j] = order[j]
        /\ order'[Len(order) + 1] = a
    BY <1>3 DEF BatchTyping, a
  <1>6. \A k \in B!Index : Went(k)' => Went(k)
    BY <1>2, <1>3, <1>4 DEF Went
  <1>7. \A j \in DOMAIN up' : a < up'[j] /\ up'[j] # a /\ up'[j] \in B!Index
    <2>1. \A j \in DOMAIN up' : a < up'[j] /\ up'[j] \in DOMAIN acts
      <3> SUFFICES ASSUME NEW j \in DOMAIN up' PROVE a < up'[j] /\ up'[j] \in DOMAIN acts
        OBVIOUS
      <3>1. j + 1 \in DOMAIN up /\ 1 < j + 1 /\ up'[j] = up[j + 1]
        BY <1>2
      <3> QED BY <3>1, <1>2, SentWent DEF Rising
    <2>2. a \in Nat /\ DOMAIN acts \subseteq Nat
      BY <1>1, <1>3
    <2> QED BY <2>1, <2>2, <1>1
  <1>8. BatchTyping'
    BY <1>2, <1>4, <1>5 DEF BatchTyping, Answers
  <1>9. PlaceOK' /\ Progress'
    BY DEF PlaceOK, Progress
  <1>10. WentOK'
    <2>1. \A j \in DOMAIN up' : ran'[up'[j]] = "no"
      BY <1>2, <1>4, <1>7 DEF WentOK
    <2>2. \A j \in DOMAIN order' : ran'[order'[j]] # "no"
      BY <1>1, <1>4, <1>5, SentWent DEF WentOK
    <2>3. at.pc \in {"gate", "send"} => \A k \in B!Index : Went(k)' => k < at.i
      BY <1>6 DEF WentOK
    <2>4. at.pc = "await" /\ form = "batch" => \A k \in B!Index : Went(k)' => k <= at.i
      BY <1>6 DEF WentOK
    <2> QED BY <2>1, <2>2, <2>3, <2>4 DEF WentOK
  <1>11. Rising'
    <2>1. \A j, k \in DOMAIN up' : j < k => up'[j] < up'[k]
      BY <1>2 DEF Rising
    <2>2. \A j \in DOMAIN order : order[j] < a
      BY <1>2 DEF Rising
    <2>3. \A j, k \in DOMAIN order' : j < k => order'[j] < order'[k]
      BY <1>5, <2>2 DEF Rising
    <2>4. \A j \in DOMAIN order', k \in DOMAIN up' : order'[j] < up'[k]
      BY <1>2, <1>5, <1>7 DEF Rising
    <2> QED BY <2>1, <2>3, <2>4 DEF Rising
  <1>12. \A k \in DOMAIN acts, kind \in {"ack", "nack", "obs", "obsfail", "lost"} :
           Tells(ran, k, kind) => Tells(ran', k, kind)
    BY <1>1, <1>3, <1>4 DEF Tells
  <1>13. AnswersOK'
    <2>1. \A j \in DOMAIN down : Tells(ran', down[j].i, down[j].kind)
      <3> SUFFICES ASSUME NEW j \in DOMAIN down PROVE Tells(ran', down[j].i, down[j].kind)
        OBVIOUS
      <3>1. down[j] \in Answers /\ Tells(ran, down[j].i, down[j].kind)
        BY SentWent DEF AnswersOK
      <3> QED BY <3>1, <1>12 DEF Answers
    <2>2. \A j \in DOMAIN down' : Tells(ran', down'[j].i, down'[j].kind)
      BY <2>1
    <2>3. \A k \in DOMAIN acts : \A kind \in got[k] : Tells(ran', k, kind)
      <3> SUFFICES ASSUME NEW k \in DOMAIN acts, NEW kind \in got[k] PROVE Tells(ran', k, kind)
        OBVIOUS
      <3>1. kind \in {"ack", "nack", "obs", "obsfail", "lost"} /\ Tells(ran, k, kind)
        BY <1>1 DEF AnswersOK, BatchTyping
      <3> QED BY <3>1, <1>12
    <2> QED BY <2>2, <2>3 DEF AnswersOK, Tells
  <1>14. RowsOK'
    BY <1>1, <1>3, <1>4, <1>6 DEF RowsOK, RowOK
  <1>15. StopOK'
    BY <1>1, <1>6 DEF StopOK
  <1> QED BY <1>8, <1>9, <1>10, <1>11, <1>13, <1>14, <1>15

\* An action is executed and answered.
LEMMA ExecuteInv == ASSUME BatchInv, B!Execute PROVE BatchInv'
  <1>1. /\ up # <<>> /\ order' = Append(order, Head(up)) /\ up' = Tail(up)
        /\ UNCHANGED <<acts, form, stop, at, rows, waits, got, link>>
    BY DEF B!Execute, B!call
  <1>2. Head(up) \in DOMAIN acts /\ Head(up) \in B!Index
    BY <1>1, Indices DEF BatchInv, BatchTyping
  <1>3. link' \in {"up", "dead", "noticed"} /\ down \in Seq(Answers)
    BY <1>1 DEF BatchInv, BatchTyping
  <1> DEFINE a == Head(up)
  <1> HIDE DEF a
  <1>4. ASSUME NEW outcome \in {"ok", "failed"}, ran' = [ran EXCEPT ![a] = outcome]
        PROVE  ran'[a] = outcome
    BY <1>2, <1>4 DEF BatchInv, BatchTyping, a
  <1>5. ASSUME NEW outcome \in {"ok", "failed"}, ran' = [ran EXCEPT ![a] = outcome],
               NEW k1 \in {"ack", "nack"}, Tells(ran', a, k1), down' = Append(down, [i |-> a, kind |-> k1])
        PROVE  BatchInv'
    <2> DEFINE m == [i |-> a, kind |-> k1]
    <2>1. m \in Answers /\ Tells(ran', m.i, m.kind)
      BY <1>2, <1>5 DEF Answers, a
    <2> HIDE DEF m
    <2>2. down' = Append(down, m)
      BY <1>5 DEF m
    <2>3. /\ down' \in Seq(Answers)
          /\ \A j \in DOMAIN down' : (j \in DOMAIN down /\ down'[j] = down[j]) \/ down'[j] = m
      BY <1>3, <2>1, <2>2
    <2>4. \A j \in DOMAIN down' : \/ j \in DOMAIN down /\ down'[j] = down[j]
                                  \/ Tells(ran', down'[j].i, down'[j].kind)
      BY <2>1, <2>3 DEF Tells
    <2> QED BY <1>1, <1>3, <1>5, <2>3, <2>4, RunInv DEF a
  <1>6. ASSUME NEW outcome \in {"ok", "failed"}, ran' = [ran EXCEPT ![a] = outcome],
               NEW k2 \in {"obs", "obsfail"}, Tells(ran', a, "ack"), Tells(ran', a, k2),
               down' = down \o <<[i |-> a, kind |-> "ack"], [i |-> a, kind |-> k2]>>
        PROVE  BatchInv'
    <2> DEFINE m == [i |-> a, kind |-> "ack"]
               n == [i |-> a, kind |-> k2]
    <2>1. m \in Answers /\ n \in Answers /\ Tells(ran', m.i, m.kind) /\ Tells(ran', n.i, n.kind)
      BY <1>2, <1>6 DEF Answers, a
    <2> HIDE DEF m, n
    <2>2. down' = down \o <<m, n>>
      BY <1>6 DEF m, n
    <2>3. /\ down' \in Seq(Answers)
          /\ \A j \in DOMAIN down' : (j \in DOMAIN down /\ down'[j] = down[j]) \/ down'[j] \in {m, n}
      BY <1>3, <2>1, <2>2
    <2>4. \A j \in DOMAIN down' : \/ j \in DOMAIN down /\ down'[j] = down[j]
                                  \/ Tells(ran', down'[j].i, down'[j].kind)
      BY <2>1, <2>3 DEF Tells
    <2> QED BY <1>1, <1>3, <1>6, <2>3, <2>4, RunInv DEF a
  <1>7. CASE ran' = [ran EXCEPT ![a] = "failed"] /\ down' = Append(down, B!Msg(a, "nack"))
    BY <1>4, <1>5, <1>7 DEF B!Msg, Tells
  <1>8. CASE /\ ran' = [ran EXCEPT ![a] = "ok"] /\ ~acts[a].look
             /\ down' = Append(down, B!Msg(a, "ack"))
    BY <1>4, <1>5, <1>8 DEF B!Msg, Tells
  <1>9. ASSUME NEW took \in {"obs", "obsfail"}, ran' = [ran EXCEPT ![a] = "ok"], acts[a].look,
               down' = down \o <<B!Msg(a, "ack"), B!Msg(a, took)>>
        PROVE  BatchInv'
    <2>1. Tells(ran', a, "ack") /\ Tells(ran', a, took)
      BY <1>1, <1>4, <1>9 DEF Tells
    <2> QED BY <1>6, <1>9, <2>1 DEF B!Msg
  <1> QED BY <1>7, <1>8, <1>9 DEF B!Execute, a

\* The sandbox dies, and what was on its way is lost.
LEMMA DieInv == ASSUME BatchInv, B!Die PROVE BatchInv'
  <1>1. /\ link' = "dead" /\ up' = <<>>
        /\ UNCHANGED <<acts, form, stop, at, rows, waits, got, down>>
    BY DEF B!Die, B!call
  <1>2. CASE UNCHANGED <<ran, order>>
    <2>1. \A k : Went(k)' => Went(k)
      BY <1>1, <1>2 DEF Went
    <2>2. BatchTyping'
      BY <1>1, <1>2 DEF BatchInv, BatchTyping, Answers
    <2>3. PlaceOK' /\ WentOK' /\ Rising' /\ AnswersOK'
      BY <1>1, <1>2, <2>1 DEF BatchInv, PlaceOK, WentOK, Rising, AnswersOK, Tells
    <2>4. RowsOK' /\ Progress' /\ StopOK'
      BY <1>1, <1>2, <2>1 DEF BatchInv, RowsOK, RowOK, Progress, StopOK
    <2> QED BY <2>2, <2>3, <2>4 DEF BatchInv
  <1>3. CASE up # <<>> /\ ran' = [ran EXCEPT ![Head(up)] = "ok"] /\ order' = Append(order, Head(up))
    <2>1. down' \in Seq(Answers) /\ \A j \in DOMAIN down' : j \in DOMAIN down /\ down'[j] = down[j]
      BY <1>1 DEF BatchInv, BatchTyping
    <2> QED BY <1>1, <1>3, <2>1, RunInv
  <1> QED BY <1>2, <1>3 DEF B!Die

\* Every step keeps the batch in order.
LEMMA BatchNextInv == ASSUME BatchInv, [B!BatchNext]_batchVars PROVE BatchInv'
  <1>1. CASE UNCHANGED batchVars
    <2>1. \A k : Went(k)' <=> Went(k)
      BY <1>1 DEF batchVars, Went
    <2>2. BatchTyping' /\ PlaceOK' /\ WentOK' /\ Rising' /\ AnswersOK'
      BY <1>1, <2>1 DEF batchVars, BatchInv, BatchTyping, PlaceOK, WentOK, Rising, AnswersOK, Tells, Answers
    <2>3. RowsOK' /\ Progress' /\ StopOK'
      BY <1>1, <2>1 DEF batchVars, BatchInv, RowsOK, RowOK, Progress, StopOK
    <2> QED BY <2>2, <2>3 DEF BatchInv
  <1>2. CASE B!BatchNext
    BY <1>2, RefusedInv, ActBatchInv, AnsweredInv, ComposeInv, SendInv, CollectInv, DispatchInv,
       NoticeInv, ExecuteInv, DieInv DEF B!BatchNext
  <1> QED BY <1>1, <1>2

\* BatchesHonest from its invariant.
LEMMA BatchInvSound == BatchInv => B!BatchesHonest
  <1> SUFFICES ASSUME BatchInv PROVE B!BatchesHonest
    OBVIOUS
  <1>1. \A k \in DOMAIN acts : ~Went(k) => ran[k] = "no" /\ ~B!Contains(up, k)
    BY DEF BatchInv, BatchTyping, Went, B!Contains
  <1>2. B!RowsAreReal
    BY <1>1 DEF BatchInv, RowsOK, RowOK, Progress, B!RowsAreReal, B!Returned, B!Here
  <1>3. B!OrderIsKept
    BY DEF BatchInv, Rising, StopOK, Went, B!OrderIsKept
  <1> QED BY <1>2, <1>3 DEF B!BatchesHonest

--------------------------------------------------------------------------------
(* Blocks of pyautogui (Desktops).                                              *)

HeldKeys == DeskKeys \cup {"none"}

DeskTyping ==
    /\ lastXY = cursor
    /\ code \in Seq(X!Lines) /\ pending \in Seq(HeldKeys) /\ held \in Seq(HeldKeys)
    /\ sent \in Seq(HeldKeys)
    /\ claimed \in BOOLEAN /\ verdict \in [passed : BOOLEAN, evaluated : BOOLEAN]

DesktopInv == DeskTyping /\ (terminal = "DONE" => claimed) /\ X!DesktopsSound

\* Every line has a key or none.
LEMMA LineKeys == \A l \in X!Lines : l.key \in HeldKeys
  BY DEF X!Lines, X!Line, HeldKeys

\* A block is a sequence of lines.
LEMMA CodeTyped == ASSUME NEW c \in UNION {[1 .. n -> X!Lines] : n \in 1 .. DeskLines}
                   PROVE  c \in Seq(X!Lines)
  <1>1. PICK n \in 1 .. DeskLines : c \in [1 .. n -> X!Lines]
    OBVIOUS
  <1>2. n \in Nat
    BY AgentsAssumption
  <1> QED BY <1>1, <1>2

\* There is no episode yet.
LEMMA DesktopInitInv == X!DesktopInit => DesktopInv
  <1> SUFFICES ASSUME X!DesktopInit PROVE DesktopInv
    OBVIOUS
  <1>1. X!ChordsAreWhole
    BY DEF X!DesktopInit, X!ChordsAreWhole
  <1>2. code = <<>> /\ pending = <<>> /\ held = <<>> /\ sent = <<>>
    BY DEF X!DesktopInit
  <1>3. code \in Seq(X!Lines) /\ pending \in Seq(HeldKeys) /\ held \in Seq(HeldKeys) /\ sent \in Seq(HeldKeys)
    BY <1>2
  <1>4. DeskTyping
    BY <1>3 DEF X!DesktopInit, X!Unverified, DeskTyping
  <1> QED BY <1>1, <1>4 DEF X!DesktopInit, X!Unverified, DesktopInv, X!DesktopsSound,
     X!DragsFromTheCursor, X!PassIsClaimed

\* Every step of an episode, and of a block, keeps the wrapper in order.
LEMMA DesktopNextInv == ASSUME DesktopInv, [X!DesktopNext]_desktopVars PROVE DesktopInv'
  <1> USE DEF DesktopInv, DeskTyping, X!DesktopsSound, X!DragsFromTheCursor, X!PassIsClaimed,
     X!ChordsAreWhole
  <1>1. CASE UNCHANGED desktopVars
    BY <1>1 DEF desktopVars
  <1>2. CASE X!Reset
    <2>1. UNCHANGED <<lastXY, code, pending, cursor, drags, held, sent>>
      BY <1>2 DEF X!Reset
    <2>2. CASE env'
      <3>1. terminal' = "none" /\ claimed' = FALSE /\ verdict' = [passed |-> FALSE, evaluated |-> FALSE]
        BY <1>2, <2>2 DEF X!Reset, X!Fresh, X!Unverified
      <3> QED BY <2>1, <3>1
    <2>3. CASE ~env'
      BY <1>2, <2>1, <2>3 DEF X!Reset
    <2> QED BY <2>2, <2>3
  <1>3. CASE X!Shut
    BY <1>3 DEF X!Shut
  <1>4. CASE X!Evaluate
    BY <1>4 DEF X!Evaluate, X!Unverified
  <1>5. ASSUME NEW token \in {"DONE", "FAIL"}, X!Terminate(token)
        PROVE  DesktopInv'
    BY <1>5 DEF X!Terminate
  <1>6. CASE X!Typed
    BY <1>6 DEF X!Typed, X!Point, X!DragTo
  <1>7. CASE X!StepCode
    <2>1. code' \in Seq(X!Lines)
      BY <1>7, CodeTyped DEF X!StepCode
    <2>2. sent' \o pending' = held'
      BY <1>7 DEF X!StepCode
    <2> QED BY <1>7, <2>1, <2>2 DEF X!StepCode
  <1>8. CASE X!Refused
    BY <1>8 DEF X!Refused
  <1>9. ASSUME X!Advance
        PROVE  X!Next1 \in X!Lines /\ code' \in Seq(X!Lines)
    <2>1. code # <<>>
      BY <1>9 DEF X!Advance
    <2>2. code[1] \in X!Lines /\ Tail(code) \in Seq(X!Lines)
      BY <2>1
    <2> QED BY <1>9, <2>2 DEF X!Advance, X!Next1
  <1>10. CASE X!KeyDown
    <2>1. X!Next1.key \in HeldKeys /\ code' \in Seq(X!Lines)
      BY <1>10, <1>9, LineKeys DEF X!KeyDown
    <2>2. pending' = Append(pending, X!Next1.key) /\ held' = Append(held, X!Next1.key) /\ sent' = sent
      BY <1>10 DEF X!KeyDown
    <2>3. sent \o Append(pending, X!Next1.key) = Append(sent \o pending, X!Next1.key)
      <3> HIDE DEF DesktopInv
      <3>1. DEFINE k == X!Next1.key
      <3> HIDE DEF k
      <3>2. k \in HeldKeys /\ sent \in Seq(HeldKeys) /\ pending \in Seq(HeldKeys)
        BY <2>1 DEF k, DesktopInv
      <3>3. sent \o Append(pending, k) = Append(sent \o pending, k)
        BY <3>2
      <3> QED BY <3>3 DEF k
    <2>4. sent' \o pending' = held'
      BY <2>2, <2>3
    <2>5. pending' \in Seq(HeldKeys) /\ held' \in Seq(HeldKeys)
      BY <2>1, <2>2
    <2> QED BY <1>10, <2>1, <2>4, <2>5 DEF X!KeyDown
  <1>11. CASE X!KeyUp
    <2>1. code' \in Seq(X!Lines)
      BY <1>11, <1>9 DEF X!KeyUp
    <2>2. sent' = sent \o pending /\ pending' = <<>> /\ held' = held
      BY <1>11 DEF X!KeyUp
    <2>3. sent' \in Seq(HeldKeys) /\ sent' \o pending' = held' /\ pending' \in Seq(HeldKeys)
      BY <2>2, ConcatProperties, ConcatEmptySeq
    <2> QED BY <1>11, <2>1, <2>3 DEF X!KeyUp
  <1>12. CASE X!Pointer
    <2>1. code' \in Seq(X!Lines)
      BY <1>12, <1>9 DEF X!Pointer
    <2> QED BY <1>12, <2>1 DEF X!Pointer
  <1>13. CASE X!Other
    <2>1. code' \in Seq(X!Lines)
      BY <1>13, <1>9 DEF X!Other
    <2> QED BY <1>13, <2>1 DEF X!Other
  <1>14. CASE X!BlockEnd
    <2>1. (sent' = sent \o pending /\ pending' = <<>>) \/ (sent' = sent /\ pending' = pending)
      BY <1>14 DEF X!BlockEnd, X!Flushed
    <2>2. held' = held
      BY <1>14 DEF X!BlockEnd
    <2>3. sent' \in Seq(HeldKeys) /\ sent' \o pending' = held' /\ pending' \in Seq(HeldKeys)
      <3>1. CASE sent' = sent \o pending /\ pending' = <<>>
        BY <3>1, <2>2, ConcatProperties, ConcatEmptySeq
      <3>2. CASE sent' = sent /\ pending' = pending
        BY <3>2, <2>2
      <3> QED BY <2>1, <3>1, <3>2
    <2> QED BY <1>14, <2>3 DEF X!BlockEnd
  <1> QED BY <1>1, <1>2, <1>3, <1>4, <1>5, <1>6, <1>7, <1>8, <1>10, <1>11, <1>12, <1>13, <1>14
     DEF X!DesktopNext

--------------------------------------------------------------------------------
(* The conditional screenshots (Shots).                                         *)

Spots == {0, -1}
Pictures == [params : Settings, hash : Contents, pointer : Spots]
Pictured == Pictures \cup {S!NoFrame}
Stored == {e \in [key : Settings, hash : Contents, frame : Pictures] :
             e.frame.params = e.key /\ e.frame.hash = e.hash}
Asked == [pc : {"idle", "sent", "answered", "returned"}, params : Settings \cup {"none"},
          dedup : BOOLEAN, held : Pictured, out : Pictured, modified : BOOLEAN, truth : Pictured]

\* A frame is held under what it encodes.
ShotTyping ==
    /\ screen \in [ShotPeers -> Contents] /\ pointer \in [ShotPeers -> Spots]
    /\ cache \in [entries : Seq(Stored), last : [Settings -> Contents \cup {"none"}]]
    /\ lastShot \in [ShotPeers -> [Settings -> Pictured]]
    /\ shot \in [ShotPeers -> Asked]

Holds(es, k, h) == \E i \in DOMAIN es : es[i].key = k /\ es[i].hash = h

\* The cache is a dictionary: a key and a hash are at one place.
Apart(es) == \A i, j \in DOMAIN es : es[i].key = es[j].key /\ es[i].hash = es[j].hash => i = j

\* A cache is in its limit, and what it would offer it has.
CacheOK(c) ==
    /\ c \in [entries : Seq(Stored), last : [Settings -> Contents \cup {"none"}]]
    /\ Apart(c.entries) /\ Len(c.entries) <= Entries
    /\ \A k \in Settings : c.last[k] # "none" => Holds(c.entries, k, c.last[k])

OfKey(f, k) == f = S!NoFrame \/ f.params = k

\* What a screenshot has offered, and what it was answered.
CallOK(s) ==
    /\ shot[s].pc # "idle" => shot[s].params \in Settings /\ OfKey(shot[s].held, shot[s].params)
    /\ shot[s].pc \in {"answered", "returned"} =>
         shot[s].out.params = shot[s].params /\ shot[s].out.hash = shot[s].truth.hash
    /\ shot[s].pc = "answered" =>
         /\ shot[s].out \in Pictures
         /\ ~shot[s].modified => shot[s].held.hash = shot[s].truth.hash

SeenOK(s) == \A k \in Settings : OfKey(lastShot[s][k], k)

ShotInv == ShotTyping /\ CacheOK(cache) /\ \A s \in ShotPeers : CallOK(s) /\ SeenOK(s)

\* No frame is none of the frames.
LEMMA NoPicture == S!NoFrame \notin Pictures /\ S!NoFrame.hash \notin Contents /\ S!Keys = Settings
  BY AgentsAssumption DEF Pictures, S!NoFrame, S!Keys, S!KeyOf

\* The place of what is held.
LEMMA PlaceIs ==
    ASSUME NEW es \in Seq(Stored), NEW k, NEW h
    PROVE  /\ S!Places(es, k, h) = {} <=> ~Holds(es, k, h)
           /\ Holds(es, k, h) => LET i == S!Place(es, k, h)
                                 IN  i \in 1 .. Len(es) /\ es[i].key = k /\ es[i].hash = h
  <1>1. S!Places(es, k, h) = {i \in 1 .. Len(es) : es[i].key = k /\ es[i].hash = h}
    BY DEF S!Places
  <1>2. DOMAIN es = 1 .. Len(es)
    OBVIOUS
  <1>3. S!Places(es, k, h) = {} <=> ~Holds(es, k, h)
    BY <1>1, <1>2 DEF Holds
  <1>4. ASSUME Holds(es, k, h) PROVE S!Place(es, k, h) \in S!Places(es, k, h)
    BY <1>3, <1>4 DEF S!Place
  <1> QED BY <1>1, <1>3, <1>4

\* The frame found is one that was put there, for that key and hash.
LEMMA UnderIs ==
    ASSUME NEW es \in Seq(Stored), NEW k, NEW h
    PROVE  /\ S!Under(es, k, h) = S!NoFrame <=> ~Holds(es, k, h)
           /\ Holds(es, k, h) => LET f == S!Under(es, k, h)
                                 IN  f \in Pictures /\ f.params = k /\ f.hash = h
  <1>1. CASE Holds(es, k, h)
    <2> DEFINE i == S!Place(es, k, h)
    <2>1. S!Under(es, k, h) = es[i].frame /\ i \in 1 .. Len(es) /\ es[i].key = k /\ es[i].hash = h
      BY <1>1, PlaceIs DEF S!Under
    <2> HIDE DEF i
    <2>2. es[i] \in Stored
      BY <2>1
    <2>3. es[i].frame \in Pictures /\ es[i].frame.params = k /\ es[i].frame.hash = h
      BY <2>1, <2>2 DEF Stored
    <2> QED BY <1>1, <2>1, <2>3, NoPicture
  <1>2. CASE ~Holds(es, k, h)
    BY <1>2, PlaceIs DEF S!Under
  <1> QED BY <1>1, <1>2

\* A sequence without the element of one place.
LEMMA Removed ==
    ASSUME NEW D, NEW es \in Seq(D), NEW i \in 1 .. Len(es)
    PROVE  LET r == S!RemoveAt(es, i)
           IN  /\ r \in Seq(D) /\ Len(r) = Len(es) - 1
               /\ \A j \in 1 .. Len(es) - 1 : r[j] = IF j < i THEN es[j] ELSE es[j + 1]
  <1> DEFINE a == SubSeq(es, 1, i - 1)
             b == SubSeq(es, i + 1, Len(es))
  <1>1. a \in Seq(D) /\ Len(a) = i - 1 /\ \A j \in 1 .. i - 1 : a[j] = es[j]
    OBVIOUS
  <1>2. b \in Seq(D) /\ Len(b) = Len(es) - i /\ \A j \in 1 .. Len(es) - i : b[j] = es[j + i]
    OBVIOUS
  <1>3. S!RemoveAt(es, i) = a \o b
    BY DEF S!RemoveAt
  <1> HIDE DEF a, b
  <1>4. /\ a \o b \in Seq(D) /\ Len(a \o b) = Len(es) - 1
        /\ \A j \in 1 .. Len(es) - 1 : (a \o b)[j] = IF j < i THEN a[j] ELSE b[j - (i - 1)]
    <2>1. /\ a \o b \in Seq(D) /\ Len(a \o b) = Len(a) + Len(b)
          /\ \A j \in 1 .. Len(a) + Len(b) : (a \o b)[j] = IF j <= Len(a) THEN a[j] ELSE b[j - Len(a)]
      BY <1>1, <1>2, ConcatProperties
    <2>2. Len(a) + Len(b) = Len(es) - 1 /\ Len(a) = i - 1 /\ Len(es) \in Nat
      BY <1>1, <1>2
    <2>3. \A j \in 1 .. Len(es) - 1 : j <= i - 1 <=> j < i
      BY <2>2
    <2> QED BY <2>1, <2>2, <2>3
  <1>5. \A j \in 1 .. Len(es) - 1 : j >= i => j - (i - 1) \in 1 .. Len(es) - i /\ j - (i - 1) + i = j + 1
    OBVIOUS
  <1>6. \A j \in 1 .. Len(es) - 1 : (a \o b)[j] = IF j < i THEN es[j] ELSE es[j + 1]
    BY <1>1, <1>2, <1>4, <1>5
  <1> QED BY <1>3, <1>4, <1>6

\* A frame is put last, where it was or not; all others stay.
LEMMA RefreshedIs ==
    ASSUME NEW es \in Seq(Stored), Apart(es), NEW k \in Settings, NEW h \in Contents,
           NEW f \in Pictures, f.params = k, f.hash = h
    PROVE  LET r == S!Refreshed(es, k, h, f)
           IN  /\ r \in Seq(Stored) /\ Apart(r)
               /\ Len(r) = IF Holds(es, k, h) THEN Len(es) ELSE Len(es) + 1
               /\ r[Len(r)].key = k /\ r[Len(r)].hash = h
               /\ \A k1, h1 : Holds(es, k1, h1) => Holds(r, k1, h1)
  <1> DEFINE w == S!Without(es, k, h)
             e == [key |-> k, hash |-> h, frame |-> f]
  <1>1. S!Refreshed(es, k, h, f) = Append(w, e)
    BY DEF S!Refreshed
  <1>2. e \in Stored /\ e.key = k /\ e.hash = h
    BY DEF Stored
  <1>3. /\ w \in Seq(Stored) /\ Apart(w) /\ ~Holds(w, k, h)
        /\ Len(w) = IF Holds(es, k, h) THEN Len(es) - 1 ELSE Len(es)
        /\ \A k1, h1 : Holds(es, k1, h1) => Holds(w, k1, h1) \/ (k1 = k /\ h1 = h)
    <2>1. CASE ~Holds(es, k, h)
      BY <2>1, PlaceIs DEF S!Without
    <2>2. CASE Holds(es, k, h)
      <3> DEFINE i == S!Place(es, k, h)
      <3>1. i \in 1 .. Len(es) /\ es[i].key = k /\ es[i].hash = h
        BY <2>2, PlaceIs
      <3>2. w = S!RemoveAt(es, i)
        BY <2>2, PlaceIs DEF S!Without
      <3> HIDE DEF w, i
      <3>3. /\ w \in Seq(Stored) /\ Len(w) = Len(es) - 1
            /\ \A j \in 1 .. Len(es) - 1 : w[j] = IF j < i THEN es[j] ELSE es[j + 1]
        BY <3>1, <3>2, Removed
      <3>4. DOMAIN w = 1 .. Len(es) - 1 /\ DOMAIN es = 1 .. Len(es) /\ Len(es) \in Nat
        BY <3>3
      <3>5. Apart(w)
        <4> SUFFICES ASSUME NEW j \in 1 .. Len(es) - 1, NEW m \in 1 .. Len(es) - 1,
                            w[j].key = w[m].key, w[j].hash = w[m].hash
                     PROVE  j = m
          BY <3>4 DEF Apart
        <4>1. PICK p \in DOMAIN es : w[j] = es[p] /\ p = IF j < i THEN j ELSE j + 1
          BY <3>1, <3>3, <3>4
        <4>2. PICK q \in DOMAIN es : w[m] = es[q] /\ q = IF m < i THEN m ELSE m + 1
          BY <3>1, <3>3, <3>4
        <4>3. p = q
          BY <4>1, <4>2 DEF Apart
        <4> QED BY <3>1, <3>4, <4>1, <4>2, <4>3
      <3>6. ~Holds(w, k, h)
        BY <3>1, <3>3, <3>4 DEF Apart, Holds
      <3>7. ASSUME NEW k1, NEW h1, Holds(es, k1, h1) PROVE Holds(w, k1, h1) \/ (k1 = k /\ h1 = h)
        <4>1. PICK j \in 1 .. Len(es) : es[j].key = k1 /\ es[j].hash = h1
          BY <3>4, <3>7 DEF Holds
        <4>2. CASE j = i
          BY <3>1, <4>1, <4>2
        <4>3. CASE j < i
          BY <3>1, <3>3, <3>4, <4>1, <4>3 DEF Holds
        <4>4. CASE j > i
          <5>1. j - 1 \in DOMAIN w /\ w[j - 1] = es[j]
            BY <3>1, <3>3, <3>4, <4>1, <4>4
          <5> QED BY <4>1, <5>1 DEF Holds
        <4> QED BY <3>1, <4>1, <4>2, <4>3, <4>4
      <3> QED BY <2>2, <3>3, <3>5, <3>6, <3>7
    <2> QED BY <2>1, <2>2
  <1> HIDE DEF w, e
  <1> DEFINE r == Append(w, e)
  <1>4. /\ r \in Seq(Stored) /\ Len(r) = Len(w) + 1 /\ Len(w) \in Nat
        /\ DOMAIN r = 1 .. Len(w) + 1 /\ DOMAIN w = 1 .. Len(w)
        /\ \A j \in DOMAIN w : r[j] = w[j]
        /\ r[Len(w) + 1] = e
    BY <1>2, <1>3
  <1> HIDE DEF r
  <1>5. Apart(r)
    <2> SUFFICES ASSUME NEW j \in DOMAIN r, NEW m \in DOMAIN r, r[j].key = r[m].key, r[j].hash = r[m].hash
                 PROVE  j = m
      BY DEF Apart
    <2>1. CASE j \in DOMAIN w /\ m \in DOMAIN w
      BY <2>1, <1>3, <1>4 DEF Apart
    <2>2. \A n \in DOMAIN w : ~(w[n].key = k /\ w[n].hash = h)
      BY <1>3 DEF Holds
    <2>3. CASE j \notin DOMAIN w
      <3>1. j = Len(w) + 1 /\ r[j] = e
        BY <2>3, <1>4
      <3>2. m \notin DOMAIN w
        BY <3>1, <2>2, <1>2, <1>4
      <3> QED BY <3>1, <3>2, <1>4
    <2>4. CASE m \notin DOMAIN w
      <3>1. m = Len(w) + 1 /\ r[m] = e
        BY <2>4, <1>4
      <3>2. j \notin DOMAIN w
        BY <3>1, <2>2, <1>2, <1>4
      <3> QED BY <3>1, <3>2, <1>4
    <2> QED BY <2>1, <2>3, <2>4
  <1>6. \A k1, h1 : Holds(es, k1, h1) => Holds(r, k1, h1)
    <2> SUFFICES ASSUME NEW k1, NEW h1, Holds(w, k1, h1) \/ (k1 = k /\ h1 = h)
                 PROVE  Holds(r, k1, h1)
      BY <1>3
    <2>1. CASE Holds(w, k1, h1)
      BY <2>1, <1>4 DEF Holds
    <2>2. CASE k1 = k /\ h1 = h
      BY <2>2, <1>2, <1>4 DEF Holds
    <2> QED BY <2>1, <2>2
  <1>7. Len(es) \in Nat
    OBVIOUS
  <1>8. Len(r) = IF Holds(es, k, h) THEN Len(es) ELSE Len(es) + 1
    BY <1>3, <1>4, <1>7
  <1> QED BY <1>1, <1>2, <1>4, <1>5, <1>6, <1>8 DEF r

\* What a cache would offer it has, after every operation.
LEMMA MovedIs == ASSUME ShotTyping, CacheOK(cache), NEW k \in Settings PROVE CacheOK(S!CandidateMoved(k))
  <1> DEFINE es == cache.entries
             h == cache.last[k]
             f == S!Candidate(k)
             r == S!Refreshed(es, k, h, f)
  <1>1. CASE f = S!NoFrame
    BY <1>1 DEF S!CandidateMoved
  <1>2. CASE f # S!NoFrame
    <2>1. es \in Seq(Stored) /\ Apart(es) /\ Len(es) <= Entries /\ h \in Contents \cup {"none"}
      BY DEF CacheOK
    <2>2. Holds(es, k, h) /\ f \in Pictures /\ f.params = k /\ f.hash = h
      BY <1>2, <2>1, UnderIs DEF S!Candidate
    <2>3. h \in Contents
      BY <2>2 DEF Pictures
    <2>4. S!CandidateMoved(k) = [cache EXCEPT !.entries = r]
      BY <1>2 DEF S!CandidateMoved
    <2> HIDE DEF es, h, f
    <2>5. /\ r \in Seq(Stored) /\ Apart(r) /\ Len(r) = Len(es)
          /\ \A k1, h1 : Holds(es, k1, h1) => Holds(r, k1, h1)
      BY <2>1, <2>2, <2>3, RefreshedIs
    <2> HIDE DEF r
    <2>6. S!CandidateMoved(k).entries = r /\ S!CandidateMoved(k).last = cache.last
      BY <2>4 DEF CacheOK
    <2>7. S!CandidateMoved(k) \in [entries : Seq(Stored), last : [Settings -> Contents \cup {"none"}]]
      BY <2>4, <2>5 DEF CacheOK
    <2> QED BY <2>1, <2>5, <2>6, <2>7 DEF CacheOK, es
  <1> QED BY <1>1, <1>2

\* A frame that is touched is where the pointer of its key points.
LEMMA TouchIs ==
    ASSUME CacheOK(cache), NEW k \in Settings, NEW h \in Contents
    PROVE  CacheOK(S!Touch(cache, k, h))
  <1> DEFINE es == cache.entries
             f == S!Under(es, k, h)
             r == S!Refreshed(es, k, h, f)
             c == S!Touch(cache, k, h)
  <1>1. CASE f = S!NoFrame
    BY <1>1 DEF S!Touch
  <1>2. CASE f # S!NoFrame
    <2>1. es \in Seq(Stored) /\ Apart(es) /\ Len(es) <= Entries
      BY DEF CacheOK
    <2>2. Holds(es, k, h) /\ f \in Pictures /\ f.params = k /\ f.hash = h
      BY <1>2, <2>1, UnderIs
    <2>3. c = [entries |-> r, last |-> [cache.last EXCEPT ![k] = h]]
      BY <1>2 DEF S!Touch
    <2> HIDE DEF es, f, c
    <2>4. /\ r \in Seq(Stored) /\ Apart(r) /\ Len(r) = Len(es)
          /\ \A k1, h1 : Holds(es, k1, h1) => Holds(r, k1, h1)
      BY <2>1, <2>2, RefreshedIs
    <2> HIDE DEF r
    <2>5. c.entries = r /\ c.last = [cache.last EXCEPT ![k] = h]
      BY <2>3
    <2>6. cache.last \in [Settings -> Contents \cup {"none"}]
      BY DEF CacheOK
    <2>7. c \in [entries : Seq(Stored), last : [Settings -> Contents \cup {"none"}]]
      BY <2>3, <2>4, <2>6
    <2>8. ASSUME NEW k1 \in Settings, c.last[k1] # "none" PROVE Holds(r, k1, c.last[k1])
      <3>1. CASE k1 = k
        BY <3>1, <2>2, <2>4, <2>5, <2>6
      <3>2. CASE k1 # k
        BY <3>2, <2>4, <2>5, <2>6, <2>8 DEF CacheOK, es
      <3> QED BY <3>1, <3>2
    <2>9. CacheOK(c)
      BY <2>1, <2>4, <2>5, <2>7, <2>8 DEF CacheOK
    <2> QED BY <2>9 DEF c
  <1> QED BY <1>1, <1>2

\* What is evicted is not offered any more, and the frame that is put is not evicted.
LEMMA PutIs ==
    ASSUME CacheOK(cache), NEW f \in Pictures
    PROVE  CacheOK(S!Put(cache, f.params, f.hash, f))
  <1> DEFINE k == f.params
             h == f.hash
             es == cache.entries
             r == S!Refreshed(es, k, h, f)
             n == Len(r)
             over == IF n > Entries THEN n - Entries ELSE 0
             out == SubSeq(r, 1, over)
             left == SubSeq(r, over + 1, n)
             last == [cache.last EXCEPT ![k] = h]
             c == S!Put(cache, k, h, f)
  <1>1. k \in Settings /\ h \in Contents
    BY DEF Pictures
  <1>2. es \in Seq(Stored) /\ Apart(es) /\ Len(es) <= Entries
    BY DEF CacheOK
  <1>3. c = [entries |-> left, last |-> S!DanglingDropped(last, out)]
    BY DEF S!Put
  <1> HIDE DEF k, h, es, c
  <1>4. /\ r \in Seq(Stored) /\ Apart(r) /\ Len(r) = IF Holds(es, k, h) THEN Len(es) ELSE Len(es) + 1
        /\ r[Len(r)].key = k /\ r[Len(r)].hash = h
        /\ \A k1, h1 : Holds(es, k1, h1) => Holds(r, k1, h1)
    BY <1>1, <1>2, RefreshedIs DEF k, h
  <1> HIDE DEF r
  <1>5. Len(es) \in Nat /\ n \in Nat /\ n > 0
    <2>1. Holds(es, k, h) => Len(es) > 0
      BY <1>2 DEF Holds
    <2> QED BY <1>2, <1>4, <2>1
  <1>6. over \in 0 .. n - 1 /\ n - over <= Entries
    BY <1>5, AgentsAssumption
  <1> HIDE DEF over, n
  <1>7. /\ left \in Seq(Stored) /\ Len(left) = n - over
        /\ DOMAIN left = 1 .. n - over /\ \A j \in 1 .. n - over : left[j] = r[over + j]
    BY <1>4, <1>5, <1>6 DEF n
  <1>8. DOMAIN out = 1 .. over /\ Len(out) = over /\ \A j \in 1 .. over : out[j] = r[j]
    BY <1>4, <1>5, <1>6 DEF n
  <1>9. DOMAIN r = 1 .. n
    BY <1>4 DEF n
  <1> HIDE DEF left, out
  <1>10. Apart(left)
    <2> SUFFICES ASSUME NEW i \in 1 .. n - over, NEW j \in 1 .. n - over,
                        left[i].key = left[j].key, left[i].hash = left[j].hash
                 PROVE  i = j
      BY <1>7 DEF Apart
    <2>1. over + i \in DOMAIN r /\ over + j \in DOMAIN r
      BY <1>5, <1>6, <1>9
    <2>2. over + i = over + j
      BY <2>1, <1>4, <1>7 DEF Apart
    <2> QED BY <2>2, <1>5, <1>6
  <1>11. last \in [Settings -> Contents \cup {"none"}] /\ last[k] = h
         /\ \A k1 \in Settings : k1 # k => last[k1] = cache.last[k1]
    BY <1>1 DEF CacheOK
  <1> HIDE DEF last
  <1>12. c.entries = left /\ c.last = S!DanglingDropped(last, out)
    BY <1>3
  <1>13. /\ c.last \in [Settings -> Contents \cup {"none"}]
         /\ \A k1 \in Settings : c.last[k1] # "none" => c.last[k1] = last[k1] /\ ~Holds(out, k1, last[k1])
    BY <1>8, <1>11, <1>12, NoPicture DEF S!DanglingDropped, Holds
  <1>14. ASSUME NEW k1 \in Settings, c.last[k1] # "none" PROVE Holds(left, k1, c.last[k1])
    <2>1. Holds(r, k1, last[k1])
      <3>1. CASE k1 = k
        BY <3>1, <1>4, <1>5, <1>9, <1>11 DEF Holds, n
      <3>2. CASE k1 # k
        BY <3>2, <1>4, <1>11, <1>13, <1>14 DEF CacheOK, es
      <3> QED BY <3>1, <3>2
    <2>2. PICK j \in 1 .. n : r[j].key = k1 /\ r[j].hash = last[k1]
      BY <2>1, <1>9 DEF Holds
    <2>3. ~(j \in 1 .. over)
      BY <2>2, <1>8, <1>13, <1>14 DEF Holds
    <2>4. j - over \in 1 .. n - over /\ over + (j - over) = j
      BY <2>3, <1>5, <1>6
    <2>5. left[j - over] = r[j]
      BY <2>4, <1>7
    <2> QED BY <2>2, <2>4, <2>5, <1>7, <1>13, <1>14 DEF Holds
  <1>15. c \in [entries : Seq(Stored), last : [Settings -> Contents \cup {"none"}]]
    BY <1>3, <1>7, <1>12, <1>13
  <1>16. Len(c.entries) <= Entries
    BY <1>6, <1>7, <1>12
  <1>17. CacheOK(c)
    BY <1>10, <1>12, <1>14, <1>15, <1>16 DEF CacheOK
  <1> QED BY <1>17 DEF c, k, h

\* Nothing has been asked for.
LEMMA ShotInitInv == S!ShotInit => ShotInv
  <1> SUFFICES ASSUME S!ShotInit PROVE ShotInv
    OBVIOUS
  <1>1. cache = [entries |-> <<>>, last |-> [k \in Settings |-> "none"]]
    BY NoPicture DEF S!ShotInit
  <1>2. <<>> \in Seq(Stored) /\ Len(<<>>) <= Entries /\ DOMAIN <<>> = {}
    BY AgentsAssumption
  <1>3. CacheOK(cache)
    BY <1>1, <1>2 DEF CacheOK, Apart
  <1>4. S!Idle \in Asked /\ S!Idle.pc = "idle"
    BY DEF S!Idle, Asked, Pictured
  <1>5. lastShot = [s \in ShotPeers |-> [k \in Settings |-> S!NoFrame]]
    BY NoPicture DEF S!ShotInit
  <1>6. ShotTyping
    BY <1>3, <1>4, <1>5 DEF S!ShotInit, ShotTyping, CacheOK, Pictured, Spots
  <1>7. \A s \in ShotPeers : CallOK(s) /\ SeenOK(s)
    BY <1>4, <1>5 DEF S!ShotInit, CallOK, SeenOK, OfKey
  <1> QED BY <1>3, <1>6, <1>7 DEF ShotInv

\* A step of one session, given what it leaves that session with.
LEMMA OneSteps ==
    ASSUME ShotInv, NEW s \in ShotPeers, NEW v \in Asked, shot' = [shot EXCEPT ![s] = v],
           screen' \in [ShotPeers -> Contents], pointer' \in [ShotPeers -> Spots], CacheOK(cache'),
           lastShot' \in [ShotPeers -> [Settings -> Pictured]],
           \A t \in ShotPeers : t # s => lastShot'[t] = lastShot[t],
           CallOK(s)', SeenOK(s)'
    PROVE  ShotInv'
  <1>1. ShotTyping'
    BY DEF ShotInv, ShotTyping, CacheOK
  <1>2. ASSUME NEW t \in ShotPeers, t # s PROVE CallOK(t)' /\ SeenOK(t)'
    <2>1. shot'[t] = shot[t] /\ lastShot'[t] = lastShot[t]
      BY <1>2 DEF ShotInv, ShotTyping
    <2> QED BY <2>1 DEF ShotInv, CallOK, SeenOK
  <1>3. CacheOK(cache)'
    BY DEF CacheOK
  <1> QED BY <1>1, <1>2, <1>3 DEF ShotInv

\* What is offered is a frame of the parameters asked for, or none.
LEMMA AskInv ==
    ASSUME ShotInv, NEW s \in ShotPeers, NEW params \in Settings, NEW dedup \in BOOLEAN,
           S!Ask(s, params, dedup)
    PROVE  ShotInv'
  <1> USE DEF ShotInv
  <1> DEFINE held0 == IF dedup THEN S!Offered(s, params) ELSE S!NoFrame
             v == [S!Idle EXCEPT !.pc = "sent", !.params = params, !.dedup = dedup, !.held = held0]
  <1>1. held0 \in Pictured /\ OfKey(held0, params)
    <2>1. lastShot[s][params] \in Pictured /\ OfKey(lastShot[s][params], params)
      BY DEF ShotTyping, SeenOK
    <2>2. S!Candidate(params) \in Pictured /\ OfKey(S!Candidate(params), params)
      <3>1. cache.entries \in Seq(Stored)
        BY DEF CacheOK
      <3> QED BY <3>1, UnderIs DEF S!Candidate, Pictured, OfKey
    <2> QED BY <2>1, <2>2 DEF S!Offered, S!KeyOf, Pictured, OfKey
  <1> HIDE DEF held0
  <1>2. v \in Asked /\ v.pc = "sent" /\ v.params = params /\ v.held = held0
    BY <1>1 DEF S!Idle, Asked, Pictured
  <1>3. shot' = [shot EXCEPT ![s] = v] /\ UNCHANGED <<screen, pointer, lastShot>>
    BY DEF S!Ask, held0
  <1> HIDE DEF v
  <1>4. shot'[s] = v
    BY <1>3 DEF ShotTyping
  <1>5. CacheOK(cache')
    <2>1. cache' = cache \/ cache' = S!CandidateMoved(params)
      BY DEF S!Ask, S!KeyOf
    <2> QED BY <2>1, MovedIs
  <1>6. CallOK(s)' /\ SeenOK(s)'
    BY <1>1, <1>2, <1>3, <1>4 DEF CallOK, SeenOK
  <1> QED BY <1>2, <1>3, <1>5, <1>6, OneSteps DEF ShotTyping

\* The runtime answers for the screen of this moment.
LEMMA AnswerInv == ASSUME ShotInv, NEW s \in ShotPeers, S!Answer(s) PROVE ShotInv'
  <1> USE DEF ShotInv
  <1>1. /\ shot[s].pc = "sent" /\ shot[s] \in Asked /\ screen[s] \in Contents /\ pointer[s] \in Spots
        /\ shot[s].params \in Settings /\ shot[s].held \in Pictured /\ OfKey(shot[s].held, shot[s].params)
    BY DEF S!Answer, ShotTyping, Asked, CallOK
  <1>2. PICK told \in BOOLEAN :
          LET frame0 == [params |-> shot[s].params, hash |-> screen[s],
                         pointer |-> IF told THEN pointer[s] ELSE -1] IN
          shot' = [shot EXCEPT ![s].pc = "answered", ![s].out = frame0,
                               ![s].modified = shot[s].held.hash # screen[s],
                               ![s].truth = [frame0 EXCEPT !.pointer = pointer[s]]]
    BY DEF S!Answer
  <1> DEFINE f == [params |-> shot[s].params, hash |-> screen[s],
                   pointer |-> IF told THEN pointer[s] ELSE -1]
             truth0 == [f EXCEPT !.pointer = pointer[s]]
             v == [shot[s] EXCEPT !.pc = "answered", !.out = f,
                                  !.modified = shot[s].held.hash # screen[s], !.truth = truth0]
  <1>3. f \in Pictures /\ f.params = shot[s].params /\ f.hash = screen[s]
    BY <1>1 DEF Pictures, Spots
  <1>4. truth0 \in Pictures /\ truth0.hash = screen[s]
    BY <1>1 DEF Pictures, Spots
  <1>5. shot' = [shot EXCEPT ![s] = v]
    BY <1>2 DEF ShotTyping
  <1> HIDE DEF f, truth0
  <1>6. /\ v \in Asked /\ v.pc = "answered" /\ v.params = shot[s].params /\ v.held = shot[s].held
        /\ v.out = f /\ v.truth = truth0 /\ v.modified = (shot[s].held.hash # screen[s])
    BY <1>1, <1>3, <1>4 DEF Asked, Pictured
  <1> HIDE DEF v
  <1>7. shot'[s] = v
    BY <1>5 DEF ShotTyping
  <1>8. UNCHANGED <<screen, pointer, cache, lastShot>>
    BY DEF S!Answer
  <1>9. CallOK(s)' /\ SeenOK(s)'
    BY <1>1, <1>3, <1>4, <1>6, <1>7, <1>8 DEF CallOK, SeenOK
  <1> QED BY <1>5, <1>6, <1>8, <1>9, OneSteps DEF ShotTyping

\* not_modified: the frame that was offered shows what the screen showed.
LEMMA UnmodifiedInv == ASSUME ShotInv, NEW s \in ShotPeers, S!Unmodified(s) PROVE ShotInv'
  <1> USE DEF ShotInv
  <1> DEFINE k == shot[s].params
             f == shot[s].held
             reply == shot[s].out
             out0 == IF reply.pointer = -1 THEN f ELSE [f EXCEPT !.pointer = reply.pointer]
             v == [shot[s] EXCEPT !.pc = "returned", !.out = out0]
  <1>1. /\ shot[s] \in Asked /\ k \in Settings /\ f \in Pictured /\ OfKey(f, k) /\ reply \in Pictures
        /\ reply.hash = shot[s].truth.hash /\ f.hash = shot[s].truth.hash
    BY DEF S!Unmodified, ShotTyping, Asked, CallOK
  <1>2. f \in Pictures /\ f.params = k /\ f.hash \in Contents
    <2>1. f.hash \in Contents
      BY <1>1 DEF Pictures
    <2> QED BY <1>1, <2>1, NoPicture DEF Pictured, OfKey
  <1>3. /\ lastShot' = [lastShot EXCEPT ![s][k] = f] /\ cache' = S!Touch(cache, k, f.hash)
        /\ shot' = [shot EXCEPT ![s].pc = "returned", ![s].out = out0]
        /\ UNCHANGED <<screen, pointer>>
    BY DEF S!Unmodified, S!KeyOf
  <1>4. out0 \in Pictures /\ out0.params = k /\ out0.hash = f.hash
    BY <1>1, <1>2 DEF Pictures
  <1>5. shot' = [shot EXCEPT ![s] = v]
    BY <1>3 DEF ShotTyping
  <1> HIDE DEF out0
  <1>6. v \in Asked /\ v.pc = "returned" /\ v.params = k /\ v.held = f /\ v.out = out0 /\ v.truth = shot[s].truth
    BY <1>1, <1>4 DEF Asked, Pictured
  <1> HIDE DEF v, k, f, reply
  <1>7. shot'[s] = v
    BY <1>5 DEF ShotTyping
  <1>8. /\ lastShot' \in [ShotPeers -> [Settings -> Pictured]]
        /\ \A t \in ShotPeers : t # s => lastShot'[t] = lastShot[t]
        /\ SeenOK(s)'
    BY <1>1, <1>2, <1>3 DEF ShotTyping, SeenOK, OfKey, Pictured
  <1>9. CacheOK(cache')
    BY <1>1, <1>2, <1>3, TouchIs
  <1>10. CallOK(s)'
    BY <1>1, <1>2, <1>4, <1>6, <1>7 DEF CallOK
  <1> QED BY <1>3, <1>5, <1>6, <1>8, <1>9, <1>10, OneSteps DEF ShotTyping

\* A full frame is kept, where it was offered to keep.
LEMMA ModifiedInv == ASSUME ShotInv, NEW s \in ShotPeers, S!Modified(s) PROVE ShotInv'
  <1> USE DEF ShotInv
  <1> DEFINE k == shot[s].params
             f == shot[s].out
             v == [shot[s] EXCEPT !.pc = "returned"]
  <1>1. /\ shot[s] \in Asked /\ k \in Settings /\ f \in Pictures /\ f.params = k /\ OfKey(shot[s].held, k)
        /\ f.hash = shot[s].truth.hash
    BY DEF S!Modified, ShotTyping, Asked, CallOK
  <1>2. shot' = [shot EXCEPT ![s] = v] /\ UNCHANGED <<screen, pointer>>
    BY DEF S!Modified, ShotTyping
  <1>3. /\ v \in Asked /\ v.pc = "returned" /\ v.params = k /\ v.held = shot[s].held /\ v.out = f
        /\ v.truth = shot[s].truth
    BY <1>1 DEF Asked
  <1>4. \/ UNCHANGED <<lastShot, cache>>
        \/ lastShot' = [lastShot EXCEPT ![s][k] = f] /\ cache' = S!Put(cache, k, f.hash, f)
    BY DEF S!Modified, S!KeyOf
  <1> HIDE DEF v, k, f
  <1>5. shot'[s] = v
    BY <1>2 DEF ShotTyping
  <1>6. /\ lastShot' \in [ShotPeers -> [Settings -> Pictured]]
        /\ \A t \in ShotPeers : t # s => lastShot'[t] = lastShot[t]
        /\ SeenOK(s)'
    <2>1. CASE UNCHANGED lastShot
      BY <2>1 DEF ShotTyping, SeenOK
    <2>2. CASE lastShot' = [lastShot EXCEPT ![s][k] = f]
      BY <1>1, <2>2 DEF ShotTyping, SeenOK, OfKey, Pictured
    <2> QED BY <1>4, <2>1, <2>2
  <1>7. CacheOK(cache')
    BY <1>1, <1>4, PutIs
  <1>8. CallOK(s)'
    BY <1>1, <1>3, <1>5 DEF CallOK, k
  <1> QED BY <1>2, <1>3, <1>6, <1>7, <1>8, OneSteps DEF ShotTyping

\* Every step of a session keeps the cache and the calls in order.
LEMMA ShotNextInv == ASSUME ShotInv, [S!ShotNext]_shotVars PROVE ShotInv'
  <1>1. CASE UNCHANGED shotVars
    BY <1>1 DEF shotVars, ShotInv, ShotTyping, CacheOK, CallOK, SeenOK
  <1>2. ASSUME NEW s \in ShotPeers, S!Fail(s) \/ S!Finish(s) PROVE ShotInv'
    <2>1. shot' = [shot EXCEPT ![s] = S!Idle] /\ UNCHANGED <<screen, pointer, cache, lastShot>>
      BY <1>2 DEF S!Fail, S!Finish
    <2>2. S!Idle \in Asked /\ S!Idle.pc = "idle"
      BY DEF S!Idle, Asked, Pictured
    <2>3. CallOK(s)' /\ SeenOK(s)'
      BY <2>1, <2>2 DEF CallOK, SeenOK, ShotInv, ShotTyping
    <2> QED BY <2>1, <2>2, <2>3, OneSteps DEF ShotInv, ShotTyping
  <1>3. ASSUME NEW s \in ShotPeers, S!Repaint(s) PROVE ShotInv'
    <2>1. UNCHANGED <<cache, lastShot, shot>>
      BY <1>3 DEF S!Repaint
    <2>2. screen' \in [ShotPeers -> Contents] /\ pointer' \in [ShotPeers -> Spots]
      BY <1>3 DEF S!Repaint, ShotInv, ShotTyping, Spots
    <2> QED BY <2>1, <2>2 DEF ShotInv, ShotTyping, CacheOK, CallOK, SeenOK
  <1> QED BY <1>1, <1>2, <1>3, AskInv, AnswerInv, UnmodifiedInv, ModifiedInv DEF S!ShotNext

\* ShotsSound from its invariant.
LEMMA ShotInvSound == ShotInv => S!ShotsSound
  <1> SUFFICES ASSUME ShotInv PROVE S!ShotsSound
    OBVIOUS
  <1>1. S!DedupFaithful
    BY DEF ShotInv, CallOK, S!DedupFaithful
  <1>2. ASSUME NEW k \in Settings, cache.last[k] # "none" PROVE S!Candidate(k) # S!NoFrame
    <2>1. cache.entries \in Seq(Stored) /\ Holds(cache.entries, k, cache.last[k])
      BY <1>2 DEF ShotInv, CacheOK
    <2> QED BY <2>1, UnderIs DEF S!Candidate
  <1> QED BY <1>1, <1>2, NoPicture DEF ShotInv, CacheOK, S!CandidateHonest, S!ShotsSound

--------------------------------------------------------------------------------
(* The composition.                                                             *)

AgentsInv == TurnInv /\ BatchInv /\ DesktopInv /\ ShotInv

\* In the beginning every part is in order, and every step of the composition is a step of each
\* part or none of its.
LEMMA AgentsInductive == AgentSpec => []AgentsInv
  <1>1. AgentInit => AgentsInv
    BY TurnInitInv, BatchInitInv, DesktopInitInv, ShotInitInv DEF AgentInit, AgentsInv
  <1>2. AgentsInv /\ [AgentNext]_agentVars => AgentsInv'
    <2>1. [AgentNext]_agentVars =>
             [U!TurnNext]_turnVars /\ [B!BatchNext]_batchVars /\ [X!DesktopNext]_desktopVars
             /\ [S!ShotNext]_shotVars
      BY DEF AgentNext, Rest, agentVars
    <2> QED BY <2>1, TurnNextInv, BatchNextInv, DesktopNextInv, ShotNextInv DEF AgentsInv
  <1> QED BY <1>1, <1>2, PTL DEF AgentSpec

\* TurnsSound: what an agent is told of its turn, what is counted as done and what was done are
\* the same: a failure ends its batch and is taught once, at the next decision, and no press of
\* the browser lands on an element without a place; for any actions, bound of the turns and
\* size of a decision (operator.py, drive; routed.py, act_batch; browser_runtime.py).
THEOREM TurnsAlwaysSound == AgentSpec => []TurnsSound
  <1>1. AgentsInv => TurnsSound
    BY TurnInvSound DEF AgentsInv, TurnsSound
  <1> QED BY <1>1, AgentsInductive, PTL

\* BatchesHonest: every row of a batch or a step tells what became of its action, also when the
\* action is executed after its timeout or the sandbox dies; actions are executed in their
\* order, each once, and with stop_on_error none behind one that is not ok; for any number of
\* actions (client.py, act_batch and step).
THEOREM BatchesAlwaysHonest == AgentSpec => []BatchesHonest
  <1>1. AgentsInv => BatchesHonest
    BY BatchInvSound DEF AgentsInv, BatchesHonest
  <1> QED BY <1>1, AgentsInductive, PTL

\* DesktopsSound: a drag starts where the pointer is, an episode passes only if its own agent
\* said DONE and it was evaluated, and the chords press the keys that were held down, in
\* their order and each once; for any points, keys, blocks and steps (osworld.py, DesktopEnv).
THEOREM DesktopsAlwaysSound == AgentSpec => []DesktopsSound
  <1>1. AgentsInv => DesktopsSound
    BY DEF AgentsInv, DesktopInv, DesktopsSound
  <1> QED BY <1>1, AgentsInductive, PTL

\* ShotsSound: a screenshot shows what the screen showed when the runtime answered it, also
\* when not_modified stands for the frame, and in the encoding asked for; what the cache offers
\* it has; for any sessions that share it, settings, contents and size (client.py, FrameCache
\* and screenshot).
THEOREM ShotsAlwaysSound == AgentSpec => []ShotsSound
  <1>1. AgentsInv => ShotsSound
    BY ShotInvSound DEF AgentsInv, ShotsSound
  <1> QED BY <1>1, AgentsInductive, PTL
================================================================================
