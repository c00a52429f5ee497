--------------------------- MODULE EnvironmentsProofs ---------------------------
(***************************************************************************)
(* Episodes: what a collection (Gym) keeps for any number of environments, *)
(* batch size, budget, steps and faults, and what the engine of NeMo Gym   *)
(* (NemoGym) keeps for any number of callers, sessions, tasks, calls and   *)
(* failures of its provider.                                               *)
(***************************************************************************)
EXTENDS Integers, Gym, NemoGym, FiniteSetTheorems, SequenceTheorems, WellFoundedInduction, TLAPS

--------------------------------------------------------------------------------
(* Gym: the inductive invariant.                                                *)

\* Rows are what Row made them: the observation of the episode and step they name.
GoodRow(r) == r.env \in Envs /\ r.saw = <<r.env, r.ep, r.step>>

GymEnvs(ids) == [open : BOOLEAN, done : BOOLEAN, replica : BOOLEAN, ep : ids, steps : Nat]

\* Episode ids are only told apart: which set they come from is left open.
EnvsTyped == \E ids : gymEnv \in [Envs -> GymEnvs(ids)]

\* The environments and the loader.
GymTyping ==
    /\ EnvsTyped
    /\ live \in [Envs -> {0, 1}]
    /\ DOMAIN pending = Envs /\ DOMAIN recorded = Envs
    /\ completed \in Nat /\ collected \in [Reasons -> Nat]
    /\ loader \in {"idle", "filling", "applying", "renewing", "stopped", "closed"}
    /\ IsFiniteSet(out) /\ IsFiniteSet(sent) /\ \A r \in out \cup sent : GoodRow(r)
    /\ queue \in Seq(sent)

\* An environment: one whose episode goes on has its replica, what is pending is its present
\* observation, and what was recorded was seen.
EnvOK(e) ==
    /\ gymEnv[e].open => gymEnv[e].replica /\ ~gymEnv[e].done
    /\ live[e] = IF gymEnv[e].replica THEN 1 ELSE 0
    /\ pending[e] # <<>> => pending[e] = Obs(e)
    /\ recorded[e].at = recorded[e].saw

\* The queue is empty but while a batch is applied, has one row of an environment, and each is
\* still current, but for the first once its episode is over.
QueueOK ==
    /\ loader \in {"applying", "renewing"} <=> queue # <<>>
    /\ \A i, j \in 1 .. Len(queue) : queue[i].env = queue[j].env => i = j
    /\ \A i \in 1 .. Len(queue) :
         IF i = 1 /\ loader = "renewing"
         THEN pending[queue[i].env] = <<>> /\ ~gymEnv[queue[i].env].open
         ELSE Valid(queue[i])

\* Who waits for whom: an episode that goes on is pending, with the policy, or in the queue.
Covered(e) ==
    gymEnv[e].open =>
        \/ pending[e] = Obs(e)
        \/ \E r \in out : r.env = e /\ Valid(r)
        \/ \E i \in 1 .. Len(queue) : queue[i].env = e

CountsOK ==
    /\ completed + InFlight <= Total
    /\ completed = collected["complete"] + collected["agent_error"]
    /\ loader = "closed" => golden # "here" /\ \A e \in Envs : ~gymEnv[e].replica

GymInv == GymTyping /\ (\A e \in Envs : EnvOK(e) /\ Covered(e)) /\ QueueOK /\ CountsOK

--------------------------------------------------------------------------------
(* Sequences and counts.                                                        *)

\* A batch in any order: each row has one place.
LEMMA SetInOrder ==
    ASSUME NEW S, IsFiniteSet(S), S # {}, NEW f \in SetToSeqs(S)
    PROVE  /\ f \in Seq(S) /\ f # <<>> /\ Len(f) = Cardinality(S)
           /\ \A i, j \in 1 .. Len(f) : f[i] = f[j] => i = j
           /\ \A s \in S : \E i \in 1 .. Len(f) : f[i] = s
  <1> DEFINE n == Cardinality(S)
  <1>1. n \in Nat /\ n # 0
    BY FS_CardinalityType, FS_EmptySet
  <1>2. f \in [1 .. n -> S] /\ \A i, j \in 1 .. n : i # j => f[i] # f[j]
    BY DEF SetToSeqs
  <1> HIDE DEF n
  <1>3. f \in Seq(S) /\ Len(f) = n /\ f # <<>>
    BY <1>1, <1>2
  <1>4. IsFiniteSet(1 .. n) /\ Cardinality(1 .. n) = n
    BY <1>1, FS_Interval
  <1>5. f \in Injection(1 .. n, S)
    BY <1>2 DEF Injection, IsInjective
  <1>6. f \in Surjection(1 .. n, S)
    BY <1>4, <1>5, FS_Injection DEF n
  <1>7. \A s \in S : \E i \in 1 .. n : f[i] = s
    BY <1>6 DEF Surjection
  <1> QED BY <1>2, <1>3, <1>7 DEF n

LEMMA RestOfQueue ==
    ASSUME NEW S, NEW q \in Seq(S), q # <<>>
    PROVE  /\ Tail(q) \in Seq(S) /\ Len(q) \in Nat /\ Len(q) >= 1 /\ Head(q) = q[1] /\ q[1] \in S
           /\ Len(Tail(q)) = Len(q) - 1
           /\ \A i \in 1 .. Len(Tail(q)) : Tail(q)[i] = q[i + 1] /\ i + 1 \in 2 .. Len(q)
           /\ \A j \in 1 .. Len(q) : q[j] \in S /\ (j # 1 => j - 1 \in 1 .. Len(Tail(q)) /\ Tail(q)[j - 1] = q[j])
  OBVIOUS

LEMMA EnvsFinite == IsFiniteSet(Envs) /\ Envs \subseteq Nat
  <1>1. 0 \in Int /\ NumEnvs - 1 \in Int
    BY GymAssumption
  <1> QED BY <1>1, FS_Interval DEF Envs

LEMMA InFlightCounts ==
    /\ InFlight \in Nat
    /\ IsFiniteSet({e \in Envs : gymEnv[e].open})
  <1>1. {e \in Envs : gymEnv[e].open} \in SUBSET Envs
    OBVIOUS
  <1> QED BY <1>1, EnvsFinite, FS_Subset, FS_CardinalityType DEF InFlight

LEMMA InFlightStays ==
    ASSUME \A d \in Envs : gymEnv'[d].open <=> gymEnv[d].open
    PROVE  InFlight' = InFlight
  <1>1. {d \in Envs : gymEnv[d].open}' = {d \in Envs : gymEnv[d].open}
    OBVIOUS
  <1> QED BY <1>1 DEF InFlight

LEMMA InFlightFalls ==
    ASSUME NEW e \in Envs, gymEnv[e].open, ~gymEnv'[e].open,
           \A d \in Envs \ {e} : gymEnv'[d] = gymEnv[d]
    PROVE  InFlight' = InFlight - 1
  <1> DEFINE S == {d \in Envs : gymEnv[d].open}
             T == {d \in Envs : gymEnv'[d].open}
  <1>1. T = S \ {e} /\ e \in S
    OBVIOUS
  <1>2. IsFiniteSet(S)
    BY InFlightCounts
  <1>3. InFlight = Cardinality(S) /\ InFlight' = Cardinality(T)
    BY DEF InFlight
  <1> HIDE DEF S, T
  <1> QED BY <1>1, <1>2, <1>3, FS_RemoveElement

LEMMA InFlightRises ==
    ASSUME NEW e \in Envs, ~gymEnv[e].open, gymEnv'[e].open,
           \A d \in Envs \ {e} : gymEnv'[d] = gymEnv[d]
    PROVE  InFlight' = InFlight + 1
  <1> DEFINE S == {d \in Envs : gymEnv[d].open}
             T == {d \in Envs : gymEnv'[d].open}
  <1>1. T = S \cup {e} /\ e \notin S
    OBVIOUS
  <1>2. IsFiniteSet(S)
    BY InFlightCounts
  <1>3. InFlight = Cardinality(S) /\ InFlight' = Cardinality(T)
    BY DEF InFlight
  <1> HIDE DEF S, T
  <1> QED BY <1>1, <1>2, <1>3, FS_AddElement

--------------------------------------------------------------------------------
(* What a part of a step does to the environment it is about.                   *)

LEMMA ResetDoes ==
    ASSUME GymTyping, NEW e \in Envs, EnvOK(e), Reset(e)
    PROVE  /\ EnvsTyped' /\ live' \in [Envs -> {0, 1}] /\ DOMAIN pending' = Envs
           /\ gymEnv'[e].open /\ gymEnv'[e].replica /\ ~gymEnv'[e].done /\ live'[e] = 1
           /\ pending'[e] = Obs(e)'
           /\ \A d \in Envs \ {e} :
                gymEnv'[d] = gymEnv[d] /\ pending'[d] = pending[d] /\ live'[d] = live[d]
  <1>1. PICK ids : gymEnv \in [Envs -> GymEnvs(ids)]
    BY DEF GymTyping, EnvsTyped
  <1>2. PICK n : n = Episodes + 1
    OBVIOUS
  <1>3. NoEpisode \in GymEnvs({0}) /\ NoEpisode.steps = 0 /\ ~NoEpisode.done
    BY DEF NoEpisode, GymEnvs
  <1>4. PICK r : r = Fresh
    OBVIOUS
  <1>5. /\ gymEnv' = [gymEnv EXCEPT ![e] = r] /\ pending' = [pending EXCEPT ![e] = <<e, n, 0>>]
        /\ live' = [Teardown(e) EXCEPT ![e] = @ + 1]
    BY <1>2, <1>4 DEF Reset
  <1>6. r \in GymEnvs(ids \cup {n})
    BY <1>2, <1>3, <1>4 DEF GymEnvs, Fresh
  <1>7. GymEnvs(ids) \subseteq GymEnvs(ids \cup {n})
    BY DEF GymEnvs
  <1>8. gymEnv' \in [Envs -> GymEnvs(ids \cup {n})]
    BY <1>1, <1>5, <1>6, <1>7
  <1>9. gymEnv'[e] = r /\ \A d \in Envs \ {e} : gymEnv'[d] = gymEnv[d]
    BY <1>1, <1>5
  <1>10. r.open /\ ~r.done /\ r.replica /\ r.ep = n /\ r.steps = 0
    BY <1>2, <1>3, <1>4 DEF GymEnvs, Fresh
  <1>11. /\ DOMAIN pending' = Envs /\ pending'[e] = <<e, n, 0>>
         /\ \A d \in Envs \ {e} : pending'[d] = pending[d]
    BY <1>5 DEF GymTyping
  <1>12. pending'[e] = Obs(e)'
    BY <1>9, <1>10, <1>11 DEF Obs
  <1>13. /\ live' \in [Envs -> {0, 1}] /\ live'[e] = 1
         /\ \A d \in Envs \ {e} : live'[d] = live[d]
    <2>1. live \in [Envs -> {0, 1}] /\ live[e] = IF gymEnv[e].replica THEN 1 ELSE 0
      BY DEF GymTyping, EnvOK
    <2>2. /\ Teardown(e) \in [Envs -> {0, 1}] /\ Teardown(e)[e] = 0
          /\ \A d \in Envs \ {e} : Teardown(e)[d] = live[d]
      BY <2>1 DEF Teardown
    <2> QED BY <1>5, <2>1, <2>2
  <1> QED BY <1>8, <1>9, <1>10, <1>11, <1>12, <1>13 DEF EnvsTyped

LEMMA ResetFailsDoes ==
    ASSUME GymTyping, NEW e \in Envs, EnvOK(e), ResetFails(e)
    PROVE  /\ EnvsTyped' /\ live' \in [Envs -> {0, 1}]
           /\ ~gymEnv'[e].open /\ ~gymEnv'[e].replica /\ live'[e] = 0
           /\ gymEnv'[e].ep = gymEnv[e].ep /\ gymEnv'[e].steps = 0
           /\ \A d \in Envs \ {e} : gymEnv'[d] = gymEnv[d] /\ live'[d] = live[d]
  <1>1. PICK ids : gymEnv \in [Envs -> GymEnvs(ids)]
    BY DEF GymTyping, EnvsTyped
  <1>2. PICK b \in BOOLEAN : gymEnv' = [gymEnv EXCEPT ![e] = [NoEpisode EXCEPT !.ep = gymEnv[e].ep, !.done = b]]
    BY DEF ResetFails
  <1>3. PICK n \in ids : n = gymEnv[e].ep
    BY <1>1 DEF GymEnvs
  <1>4. PICK r : r = [NoEpisode EXCEPT !.ep = n, !.done = b]
    OBVIOUS
  <1>5. /\ NoEpisode \in GymEnvs({0}) /\ NoEpisode.steps = 0
        /\ ~NoEpisode.open /\ ~NoEpisode.replica
    BY DEF NoEpisode, GymEnvs
  <1>6. gymEnv' = [gymEnv EXCEPT ![e] = r]
    BY <1>2, <1>3, <1>4
  <1>7. r \in GymEnvs(ids) /\ ~r.open /\ ~r.replica /\ r.ep = n /\ r.steps = 0
    BY <1>4, <1>5 DEF GymEnvs
  <1>8. gymEnv' \in [Envs -> GymEnvs(ids)] /\ gymEnv'[e] = r /\ \A d \in Envs \ {e} : gymEnv'[d] = gymEnv[d]
    BY <1>1, <1>6, <1>7
  <1>9. /\ live' \in [Envs -> {0, 1}] /\ live'[e] = 0
        /\ \A d \in Envs \ {e} : live'[d] = live[d]
    <2>1. live \in [Envs -> {0, 1}] /\ live[e] = IF gymEnv[e].replica THEN 1 ELSE 0
      BY DEF GymTyping, EnvOK
    <2>2. live' = Teardown(e)
      BY DEF ResetFails
    <2> QED BY <2>1, <2>2 DEF Teardown
  <1> QED BY <1>3, <1>7, <1>8, <1>9 DEF EnvsTyped

LEMMA FinalizedDoes ==
    ASSUME GymTyping, NEW e \in Envs, gymEnv[e].open, NEW reason \in Reasons, Finalized(e, reason)
    PROVE  /\ EnvsTyped'
           /\ ~gymEnv'[e].open /\ gymEnv'[e].replica = gymEnv[e].replica
           /\ gymEnv'[e].ep = gymEnv[e].ep /\ gymEnv'[e].steps = gymEnv[e].steps
           /\ \A d \in Envs \ {e} : gymEnv'[d] = gymEnv[d]
           /\ collected' \in [Reasons -> Nat]
           /\ collected'[reason] = collected[reason] + 1
           /\ \A o \in Reasons \ {reason} : collected'[o] = collected[o]
  <1>1. PICK ids : gymEnv \in [Envs -> GymEnvs(ids)]
    BY DEF GymTyping, EnvsTyped
  <1>2. gymEnv' = [gymEnv EXCEPT ![e].open = FALSE, ![e].done = TRUE]
    BY DEF Finalized
  <1>3. PICK r : r = [gymEnv[e] EXCEPT !.open = FALSE, !.done = TRUE]
    OBVIOUS
  <1>4. gymEnv[e] \in GymEnvs(ids)
    BY <1>1
  <1>5. /\ r \in GymEnvs(ids) /\ ~r.open
        /\ r.replica = gymEnv[e].replica /\ r.ep = gymEnv[e].ep /\ r.steps = gymEnv[e].steps
    BY <1>3, <1>4 DEF GymEnvs
  <1>6. gymEnv' = [gymEnv EXCEPT ![e] = r]
    BY <1>1, <1>2, <1>3
  <1>7. gymEnv' \in [Envs -> GymEnvs(ids)] /\ gymEnv'[e] = r /\ \A d \in Envs \ {e} : gymEnv'[d] = gymEnv[d]
    BY <1>1, <1>5, <1>6
  <1>8. collected' = [collected EXCEPT ![reason] = @ + 1] /\ collected \in [Reasons -> Nat]
    BY DEF Finalized, GymTyping
  <1> QED BY <1>5, <1>7, <1>8 DEF EnvsTyped

--------------------------------------------------------------------------------
(* What a part of a step does to the queue.                                     *)

Apart(d) ==
    /\ gymEnv'[d] = gymEnv[d] /\ pending'[d] = pending[d]
    /\ live'[d] = live[d] /\ recorded'[d] = recorded[d]

\* An environment the step is not about is as it was, and so are the rows of its own.
LEMMA ApartIsSame ==
    ASSUME NEW d \in Envs, Apart(d)
    PROVE  /\ EnvOK(d) => EnvOK(d)'
           /\ Obs(d)' = Obs(d)
           /\ \A r : r.env = d => (Valid(r)' <=> Valid(r))
  BY DEF Apart, EnvOK, Obs, Valid

\* The head of the queue.
LEMMA HeadRow ==
    ASSUME GymTyping, QueueOK, loader \in {"applying", "renewing"}
    PROVE  /\ queue # <<>> /\ Len(queue) \in Nat /\ Len(queue) >= 1 /\ Current = queue[1]
           /\ Current \in sent /\ Current.env \in Envs
           /\ Current.saw = <<Current.env, Current.ep, Current.step>>
           /\ \A i \in 1 .. Len(queue) : queue[i] \in sent /\ queue[i].env \in Envs
           /\ \A i \in 2 .. Len(queue) : queue[i].env # Current.env /\ Valid(queue[i])
           /\ loader = "applying" => Valid(Current)
           /\ loader = "renewing" => pending[Current.env] = <<>> /\ ~gymEnv[Current.env].open
  <1>1. queue # <<>> /\ queue \in Seq(sent)
    BY DEF QueueOK, GymTyping
  <1>2. /\ Len(queue) \in Nat /\ Len(queue) >= 1 /\ Current = queue[1]
        /\ \A i \in 1 .. Len(queue) : queue[i] \in sent
    BY <1>1, RestOfQueue DEF Current
  <1>3. \A r \in sent : r.env \in Envs /\ r.saw = <<r.env, r.ep, r.step>>
    BY DEF GymTyping, GoodRow
  <1>4. 1 \in 1 .. Len(queue) /\ \A i \in 2 .. Len(queue) : i \in 1 .. Len(queue) /\ i # 1
    BY <1>2
  <1> QED BY <1>1, <1>2, <1>3, <1>4 DEF QueueOK

\* The head is done with, and the step has concerned nobody else.
LEMMA QueueAdvances ==
    ASSUME GymTyping, QueueOK, loader \in {"applying", "renewing"}, NextRow, sent' = sent,
           \A d \in Envs \ {Current.env} : Apart(d)
    PROVE  /\ queue' \in Seq(sent') /\ QueueOK' /\ loader' \in {"idle", "applying"}
           /\ \A d \in Envs \ {Current.env} :
                (\E i \in 1 .. Len(queue) : queue[i].env = d) =>
                    \E i \in 1 .. Len(queue') : queue'[i].env = d
  <1>1. /\ queue # <<>> /\ queue \in Seq(sent) /\ Current = queue[1]
        /\ \A i \in 2 .. Len(queue) : queue[i].env # Current.env /\ Valid(queue[i])
        /\ \A i \in 1 .. Len(queue) : queue[i].env \in Envs
    BY HeadRow DEF GymTyping
  <1>2. PICK q : q = Tail(queue)
    OBVIOUS
  <1>3. /\ q \in Seq(sent) /\ Len(q) = Len(queue) - 1 /\ Len(queue) \in Nat
        /\ \A i \in 1 .. Len(q) : q[i] = queue[i + 1] /\ i + 1 \in 2 .. Len(queue)
        /\ \A j \in 1 .. Len(queue) : j # 1 => j - 1 \in 1 .. Len(q) /\ q[j - 1] = queue[j]
    BY <1>1, <1>2, RestOfQueue
  <1>4. queue' = q /\ loader' = IF q = <<>> THEN "idle" ELSE "applying"
    BY <1>2 DEF NextRow
  <1>5. \A i \in 1 .. Len(q) : Valid(q[i])'
    <2> TAKE i \in 1 .. Len(q)
    <2>1. PICK r : r = q[i]
      OBVIOUS
    <2>2. Valid(r) /\ r.env \in Envs \ {Current.env}
      BY <1>1, <1>3, <2>1
    <2>3. Valid(r)'
      BY <2>2, ApartIsSame
    <2> QED BY <2>1, <2>3 DEF Valid
  <1>6. \A i, j \in 1 .. Len(q) : q[i].env = q[j].env => i = j
    <2> SUFFICES ASSUME NEW i \in 1 .. Len(q), NEW j \in 1 .. Len(q), q[i].env = q[j].env PROVE i = j
      OBVIOUS
    <2>1. i + 1 \in 1 .. Len(queue) /\ j + 1 \in 1 .. Len(queue) /\ queue[i + 1].env = queue[j + 1].env
      BY <1>3
    <2>2. i + 1 = j + 1
      BY <2>1 DEF QueueOK
    <2> QED BY <2>2, <1>3
  <1>7. \A d \in Envs \ {Current.env} :
          (\E i \in 1 .. Len(queue) : queue[i].env = d) => \E i \in 1 .. Len(q) : q[i].env = d
    BY <1>1, <1>3
  <1> HIDE <1>2
  <1>8. (\A i \in 1 .. Len(queue) : Valid(queue[i]))'
    BY <1>4, <1>5 DEF Valid
  <1>9. QueueOK'
    BY <1>4, <1>6, <1>8 DEF QueueOK
  <1> QED BY <1>3, <1>4, <1>7, <1>9

\* The rest of the batch is pending again: nobody who was in the queue is forgotten.
LEMMA QueueGivenBack ==
    ASSUME GymTyping, QueueOK, \A d \in Envs : EnvOK(d) /\ Covered(d),
           loader \in {"applying", "renewing"}, Raise, out' = out,
           \A d \in Envs \ {Current.env} : gymEnv'[d] = gymEnv[d],
           \/ gymEnv'[Current.env] = gymEnv[Current.env]
           \/ ~gymEnv'[Current.env].open
    PROVE  /\ queue' = <<>> /\ loader' = "idle" /\ QueueOK' /\ DOMAIN pending' = Envs
           /\ \A d \in Envs : /\ pending'[d] # <<>> => pending'[d] = Obs(d)'
                              /\ Covered(d)'
  <1>1. /\ queue' = <<>> /\ loader' = "idle" /\ pending' = Requeue(ToSet(queue))
    BY DEF Raise
  <1>2. QueueOK'
    BY <1>1 DEF QueueOK
  <1>3. /\ DOMAIN pending' = Envs
        /\ \A d \in Envs :
             pending'[d] = IF \E r \in ToSet(queue) : r.env = d /\ gymEnv'[d].open
                                 /\ gymEnv'[d].ep = r.ep /\ gymEnv'[d].steps = r.step
                           THEN Obs(d) ELSE pending[d]
    BY <1>1 DEF Requeue
  <1>4. ToSet(queue) = {queue[i] : i \in 1 .. Len(queue)}
    <2>1. DOMAIN queue = 1 .. Len(queue)
      BY DEF GymTyping
    <2> QED BY <2>1 DEF ToSet
  <1>5. ASSUME NEW d \in Envs
        PROVE  (pending'[d] # <<>> => pending'[d] = Obs(d)') /\ Covered(d)'
    <2>1. pending[d] # <<>> => pending[d] = Obs(d)
      BY <1>5 DEF EnvOK
    <2>2. CASE gymEnv'[d] = gymEnv[d]
      <3>1. Obs(d)' = Obs(d)
        BY <2>2 DEF Obs
      <3>2. pending'[d] = Obs(d) \/ pending'[d] = pending[d]
        BY <1>3
      <3>3. Covered(d)'
        <4> SUFFICES ASSUME gymEnv[d].open
                     PROVE  pending'[d] = Obs(d) \/ \E r \in out : r.env = d /\ Valid(r)'
          BY <2>2, <3>1 DEF Covered
        <4>1. CASE pending[d] = Obs(d)
          BY <3>2, <4>1
        <4>2. ASSUME NEW r \in out, r.env = d, Valid(r)
              PROVE  pending'[d] = Obs(d) \/ Valid(r)'
          BY <2>2, <3>2, <4>2 DEF Valid
        <4>3. ASSUME NEW i \in 1 .. Len(queue), queue[i].env = d
              PROVE  pending'[d] = Obs(d)
          <5>1. Valid(queue[i])
            <6>1. CASE i = 1
              <7>1. queue[1] = Current
                BY HeadRow
              <7> QED BY <4>3, <6>1, <7>1, HeadRow
            <6>2. CASE i # 1
              <7>1. i \in 2 .. Len(queue)
                BY <6>2, HeadRow
              <7> QED BY <7>1, HeadRow
            <6> QED BY <6>1, <6>2
          <5>2. queue[i] \in ToSet(queue)
            BY <1>4
          <5>3. gymEnv'[d].open /\ gymEnv'[d].ep = queue[i].ep /\ gymEnv'[d].steps = queue[i].step
            BY <2>2, <4>3, <5>1 DEF Valid
          <5> QED BY <1>3, <4>3, <5>2, <5>3
        <4> QED BY <4>1, <4>2, <4>3, <1>5 DEF Covered
      <3> QED BY <2>1, <3>1, <3>2, <3>3
    <2>3. CASE gymEnv'[d] # gymEnv[d]
      <3>1. d = Current.env /\ ~gymEnv'[d].open
        BY <2>3
      <3>2. pending[d] = <<>>
        BY <3>1, HeadRow DEF Valid
      <3>3. pending'[d] = <<>>
        BY <1>3, <3>1, <3>2
      <3> QED BY <3>1, <3>3 DEF Covered
    <2> QED BY <2>2, <2>3
  <1> QED BY <1>1, <1>2, <1>3, <1>5

--------------------------------------------------------------------------------
(* The steps of the loader.                                                     *)

LEMMA GymInitInv == GymInit => GymInv
  <1> SUFFICES ASSUME GymInit PROVE GymInv
    OBVIOUS
  <1> USE DEF GymInit
  <1>1. NoEpisode \in GymEnvs({0}) /\ ~NoEpisode.open /\ ~NoEpisode.replica
    BY DEF NoEpisode, GymEnvs
  <1>2. \A e \in Envs : gymEnv[e] = NoEpisode
    OBVIOUS
  <1>3. EnvsTyped
    BY <1>1 DEF EnvsTyped
  <1>4. GymTyping
    BY <1>3, FS_EmptySet DEF GymTyping
  <1>5. \A e \in Envs : EnvOK(e) /\ Covered(e)
    BY <1>1, <1>2 DEF EnvOK, Covered, Nothing
  <1>6. QueueOK
    BY DEF QueueOK
  <1>7. InFlight = 0
    <2>1. {e \in Envs : gymEnv[e].open} = {}
      BY <1>1, <1>2
    <2> QED BY <2>1, FS_EmptySet DEF InFlight
  <1>8. CountsOK
    BY <1>7, GymAssumption DEF CountsOK, Reasons
  <1> QED BY <1>4, <1>5, <1>6, <1>8 DEF GymInv

\* A step that leaves the environments alone.
LEMMA EnvsAloneInv ==
    ASSUME GymInv, UNCHANGED <<gymEnv, live, pending, completed, collected, queue, out, sent, recorded>>,
           loader' \in {"idle", "filling", "stopped"}, loader \in {"idle", "filling"}
    PROVE  GymInv'
  <1>1. GymTyping'
    BY DEF GymInv, GymTyping, EnvsTyped, GoodRow
  <1>2. (\A e \in Envs : EnvOK(e) /\ Covered(e))'
    BY DEF GymInv, EnvOK, Covered, Obs, Valid
  <1>3. QueueOK'
    BY DEF GymInv, QueueOK
  <1>4. CountsOK'
    BY DEF GymInv, CountsOK, InFlight
  <1> QED BY <1>1, <1>2, <1>3, <1>4 DEF GymInv

\* A set of numbers has a lowest.
LEMMA LeastOne ==
    ASSUME NEW T \in SUBSET Nat, T # {}
    PROVE  \E e \in T : \A d \in T : e <= d
  <1>1. PICK R : R = OpToRel(<, Nat)
    OBVIOUS
  <1>2. IsWellFoundedOn(R, Nat)
    BY <1>1, NatLessThanWellFounded
  <1>3. \A m, n \in Nat : m < n => <<m, n>> \in R
    BY <1>1 DEF OpToRel
  <1>4. PICK e \in T : \A d \in T : ~(<<d, e>> \in R)
    BY <1>2, WFMin
  <1>5. ASSUME NEW d \in T PROVE e <= d
    <2>1. d \in Nat /\ e \in Nat /\ ~(<<d, e>> \in R)
      BY <1>4
    <2>2. ~(d < e)
      BY <1>3, <2>1
    <2> QED BY <2>1, <2>2
  <1> QED BY <1>5

\* Those that wait to be reset have no episode that goes on.
LEMMA LowestWaits ==
    ASSUME ToReset # {}
    PROVE  Lowest(ToReset) \in Envs /\ Waits(Lowest(ToReset))
  <1>1. ToReset \subseteq Nat
    BY EnvsFinite DEF ToReset
  <1>2. \E e \in ToReset : \A d \in ToReset : e <= d
    BY <1>1, LeastOne
  <1> QED BY <1>2 DEF Lowest, ToReset

LEMMA AskInv == ASSUME GymInv, Ask PROVE GymInv'
  <1>1. /\ UNCHANGED <<gymEnv, live, pending, completed, collected, queue, out, sent, recorded>>
        /\ loader' \in {"idle", "filling"} /\ loader = "idle"
    BY DEF Ask
  <1> QED BY <1>1, EnvsAloneInv

LEMMA StopInv == ASSUME GymInv, Stop PROVE GymInv'
  BY EnvsAloneInv DEF Stop

LEMMA FillInv == ASSUME GymInv, Fill PROVE GymInv'
  <1>1. PICK e \in Envs : /\ e = Lowest(ToReset) /\ Waits(e) /\ MayFork
    BY LowestWaits DEF Fill
  <1>2. /\ GymTyping /\ QueueOK /\ CountsOK /\ loader = "filling" /\ queue = <<>>
        /\ \A d \in Envs : EnvOK(d) /\ Covered(d)
        /\ UNCHANGED <<golden, recreate, completed, collected, queue, out, sent, recorded>>
    BY DEF GymInv, QueueOK, Fill
  <1>3. ~gymEnv[e].open /\ pending[e] = <<>>
    BY <1>1, <1>2 DEF EnvOK, Waits
  <1>4. completed \in Nat /\ Total \in Nat /\ completed + InFlight + 1 <= Total
    BY <1>1, <1>2, InFlightCounts, GymAssumption DEF MayFork, BudgetLeft, CountsOK, GymTyping
  <1>5. CASE Reset(e) /\ UNCHANGED <<faults, loader>>
    <2>1. /\ EnvsTyped' /\ live' \in [Envs -> {0, 1}] /\ DOMAIN pending' = Envs
          /\ gymEnv'[e].open /\ gymEnv'[e].replica /\ ~gymEnv'[e].done /\ live'[e] = 1
          /\ pending'[e] = Obs(e)'
          /\ \A d \in Envs \ {e} :
               gymEnv'[d] = gymEnv[d] /\ pending'[d] = pending[d] /\ live'[d] = live[d]
      BY <1>2, <1>5, ResetDoes
    <2>2. GymTyping'
      BY <1>2, <1>5, <2>1 DEF GymTyping, GoodRow
    <2>3. \A d \in Envs \ {e} : Apart(d)
      BY <1>2, <2>1 DEF Apart
    <2>4. EnvOK(e)' /\ Covered(e)'
      BY <1>2, <2>1 DEF EnvOK, Covered
    <2>5. \A d \in Envs \ {e} : EnvOK(d)' /\ Covered(d)'
      BY <1>2, <2>3, ApartIsSame DEF Covered, Apart
    <2>6. QueueOK'
      BY <1>2, <1>5 DEF QueueOK
    <2>7. InFlight' = InFlight + 1
      BY <1>3, <2>1, InFlightRises
    <2>8. CountsOK'
      BY <1>2, <1>4, <1>5, <2>7, InFlightCounts DEF CountsOK
    <2> QED BY <2>2, <2>4, <2>5, <2>6, <2>8 DEF GymInv
  <1>6. CASE ResetFails(e) /\ loader' = "idle" /\ UNCHANGED pending
    <2>1. /\ EnvsTyped' /\ live' \in [Envs -> {0, 1}]
          /\ ~gymEnv'[e].open /\ ~gymEnv'[e].replica /\ live'[e] = 0
          /\ \A d \in Envs \ {e} : gymEnv'[d] = gymEnv[d] /\ live'[d] = live[d]
      BY <1>2, <1>6, ResetFailsDoes
    <2>2. GymTyping'
      BY <1>2, <1>6, <2>1 DEF GymTyping, GoodRow
    <2>3. \A d \in Envs \ {e} : Apart(d)
      BY <1>2, <1>6, <2>1 DEF Apart
    <2>4. EnvOK(e)' /\ Covered(e)'
      BY <1>2, <1>3, <1>6, <2>1 DEF EnvOK, Covered
    <2>5. \A d \in Envs \ {e} : EnvOK(d)' /\ Covered(d)'
      BY <1>2, <2>3, ApartIsSame DEF Covered, Apart
    <2>6. QueueOK'
      BY <1>2, <1>6 DEF QueueOK
    <2>7. InFlight' = InFlight
      BY <1>3, <2>1, InFlightStays
    <2>8. CountsOK'
      BY <1>2, <1>6, <2>7 DEF CountsOK
    <2> QED BY <2>2, <2>4, <2>5, <2>6, <2>8 DEF GymInv
  <1> QED BY <1>1, <1>5, <1>6 DEF Fill

\* A batch is given out: the rows that were pending.
LEMMA YieldInv == ASSUME GymInv, Yield PROVE GymInv'
  <1>1. /\ GymTyping /\ QueueOK /\ CountsOK /\ loader = "filling" /\ queue = <<>>
        /\ \A d \in Envs : EnvOK(d) /\ Covered(d)
    BY DEF GymInv, QueueOK, Yield
  <1>2. /\ UNCHANGED <<gymEnv, live, golden, recreate, completed, collected, queue, sent, recorded, faults>>
        /\ loader' = "idle"
        /\ pending' = [e \in Envs |-> IF e \in Batch THEN <<>> ELSE pending[e]]
    BY DEF Yield
  <1>3. PICK given : given = {Row(e, pending[e]) : e \in Batch}
    OBVIOUS
  <1>4. out' = out \cup given
    BY <1>3 DEF Yield
  <1>5. Batch \subseteq Envs /\ \A e \in Batch : pending[e] = Obs(e)
    BY <1>1 DEF Batch, Ready, EnvOK
  <1>6. IsFiniteSet(given)
    <2> DEFINE f == [e \in Batch |-> Row(e, pending[e])]
    <2>1. f \in Surjection(Batch, given)
      BY <1>3 DEF Surjection
    <2>2. IsFiniteSet(Batch)
      BY <1>5, EnvsFinite, FS_Subset
    <2> HIDE DEF f
    <2> QED BY <2>1, <2>2, FS_Surjection
  <1>7. \A e \in Batch : \E r \in given : r.env = e /\ r.ep = gymEnv[e].ep /\ r.step = gymEnv[e].steps
    <2> TAKE e \in Batch
    <2>1. PICK r : r = Row(e, pending[e])
      OBVIOUS
    <2>2. r \in given
      BY <1>3, <2>1
    <2>3. r.env = e /\ r.ep = gymEnv[e].ep /\ r.step = gymEnv[e].steps
      BY <2>1 DEF Row
    <2> QED BY <2>2, <2>3
  <1>8. \A r \in given : GoodRow(r)
    BY <1>3, <1>5 DEF Row, GoodRow, Obs
  <1>9. GymTyping'
    <2>1. IsFiniteSet(out')
      BY <1>1, <1>4, <1>6, FS_Union DEF GymTyping
    <2>2. \A r \in out' \cup sent' : GoodRow(r)
      BY <1>1, <1>2, <1>4, <1>8 DEF GymTyping
    <2> QED BY <1>1, <1>2, <2>1, <2>2 DEF GymTyping, EnvsTyped, GoodRow
  <1>10. \A d \in Envs : EnvOK(d)'
    BY <1>1, <1>2 DEF EnvOK, Obs
  <1>11. ASSUME NEW d \in Envs PROVE Covered(d)'
    <2>1. CASE d \in Batch
      <3>1. PICK r \in given : r.env = d /\ r.ep = gymEnv[d].ep /\ r.step = gymEnv[d].steps
        BY <1>7, <2>1
      <3>2. pending'[d] = <<>> /\ gymEnv'[d] = gymEnv[d] /\ r \in out'
        BY <1>2, <1>4, <2>1
      <3>3. gymEnv'[d].open => Valid(r)'
        BY <3>1, <3>2 DEF Valid
      <3> QED BY <3>1, <3>2, <3>3 DEF Covered
    <2>2. CASE d \notin Batch
      <3>1. pending'[d] = pending[d] /\ gymEnv'[d] = gymEnv[d] /\ out \subseteq out'
        BY <1>2, <1>4, <2>2
      <3>2. Obs(d)' = Obs(d) /\ \A r : r.env = d => (Valid(r)' <=> Valid(r))
        BY <3>1 DEF Valid, Obs
      <3>3. Covered(d) /\ UNCHANGED queue
        BY <1>1, <1>2
      <3> QED BY <3>1, <3>2, <3>3 DEF Covered
    <2> QED BY <2>1, <2>2
  <1>12. QueueOK' /\ CountsOK'
    BY <1>1, <1>2 DEF QueueOK, CountsOK, InFlight
  <1> QED BY <1>9, <1>10, <1>11, <1>12 DEF GymInv

LEMMA RespondInv == ASSUME GymInv, NEW rows \in SUBSET (out \cup sent), Respond(rows) PROVE GymInv'
  <1>1. /\ GymTyping /\ QueueOK /\ CountsOK /\ loader = "idle" /\ queue = <<>>
        /\ \A d \in Envs : EnvOK(d) /\ Covered(d)
    BY DEF GymInv, QueueOK, Respond
  <1>2. /\ rows # {} /\ (\A r \in rows : Valid(r)) /\ \A r, q \in rows : r.env = q.env => r = q
        /\ queue' \in SetToSeqs(rows) /\ out' = out \ rows /\ sent' = sent \cup rows
        /\ loader' = "applying"
        /\ UNCHANGED <<gymEnv, live, golden, recreate, pending, completed, collected, recorded, faults>>
    BY DEF Respond
  <1>3. IsFiniteSet(rows) /\ IsFiniteSet(out') /\ IsFiniteSet(sent')
    <2>1. IsFiniteSet(out \cup sent)
      BY <1>1, FS_Union DEF GymTyping
    <2>2. IsFiniteSet(rows)
      BY <2>1, FS_Subset
    <2> QED BY <1>1, <1>2, <2>2, FS_Union, FS_Difference DEF GymTyping
  <1>4. /\ queue' \in Seq(rows) /\ queue' # <<>>
        /\ \A i, j \in 1 .. Len(queue') : queue'[i] = queue'[j] => i = j
        /\ \A r \in rows : \E i \in 1 .. Len(queue') : queue'[i] = r
    BY <1>2, <1>3, SetInOrder
  <1>5. GymTyping'
    <2>1. queue' \in Seq(sent')
      BY <1>2, <1>4
    <2>2. \A r \in out' \cup sent' : GoodRow(r)
      BY <1>1, <1>2 DEF GymTyping
    <2> QED BY <1>1, <1>2, <1>3, <2>1, <2>2 DEF GymTyping, EnvsTyped, GoodRow
  <1>6. \A d \in Envs : EnvOK(d)'
    BY <1>1, <1>2 DEF EnvOK, Obs
  <1>7. ASSUME NEW d \in Envs PROVE Covered(d)'
    <2>1. CASE \E r \in rows : r.env = d
      BY <1>4, <2>1 DEF Covered
    <2>2. CASE ~\E r \in rows : r.env = d
      BY <1>1, <1>2, <2>2 DEF Covered, Valid, Obs
    <2> QED BY <2>1, <2>2
  <1>8. QueueOK'
    <2>1. \A i \in 1 .. Len(queue') : queue'[i] \in rows
      BY <1>4
    <2>2. \A r \in rows : Valid(r)'
      BY <1>2 DEF Valid
    <2>3. \A i, j \in 1 .. Len(queue') : queue'[i].env = queue'[j].env => i = j
      BY <1>2, <1>4, <2>1
    <2>4. (\A i \in 1 .. Len(queue) : Valid(queue[i]))'
      BY <2>1, <2>2 DEF Valid
    <2> QED BY <1>2, <1>4, <2>3, <2>4 DEF QueueOK
  <1>9. CountsOK'
    BY <1>1, <1>2 DEF CountsOK, InFlight
  <1> QED BY <1>5, <1>6, <1>7, <1>8, <1>9 DEF GymInv

--------------------------------------------------------------------------------
(* The steps of a batch.                                                        *)

\* What the invariant says while a batch is applied.
LEMMA WhileApplying ==
    ASSUME GymInv, loader \in {"applying", "renewing"}
    PROVE  /\ GymTyping /\ QueueOK /\ CountsOK /\ Current.env \in Envs
           /\ \A d \in Envs : EnvOK(d) /\ Covered(d)
           /\ Current.saw = <<Current.env, Current.ep, Current.step>>
           /\ pending[Current.env] = <<>>
           /\ loader = "applying" => Valid(Current) /\ gymEnv[Current.env].open
           /\ loader = "renewing" => ~gymEnv[Current.env].open
  <1>1. GymTyping /\ QueueOK /\ CountsOK /\ \A d \in Envs : EnvOK(d) /\ Covered(d)
    BY DEF GymInv
  <1> QED BY <1>1, HeadRow DEF Valid

\* The recorded transition starts where the policy's observation was taken.
LEMMA TransitionDoes ==
    ASSUME GymInv, loader = "applying", Transition(Current.env)
    PROVE  /\ DOMAIN recorded' = Envs
           /\ \A d \in Envs : recorded'[d].at = recorded'[d].saw
           /\ \A d \in Envs \ {Current.env} : recorded'[d] = recorded[d]
  <1>1. PICK e \in Envs : e = Current.env
    BY WhileApplying
  <1>2. Obs(e) = Current.saw
    BY <1>1, WhileApplying DEF Valid, Obs
  <1>3. /\ recorded' = [recorded EXCEPT ![e] = [at |-> Obs(e), saw |-> Current.saw]]
        /\ DOMAIN recorded = Envs /\ \A d \in Envs : recorded[d].at = recorded[d].saw
    BY <1>1, WhileApplying DEF Transition, GymTyping, EnvOK
  <1>4. PICK t : t = [at |-> Obs(e), saw |-> Current.saw]
    OBVIOUS
  <1>5. t.at = t.saw
    BY <1>2, <1>4
  <1>6. recorded' = [recorded EXCEPT ![e] = t]
    BY <1>3, <1>4
  <1> QED BY <1>1, <1>3, <1>5, <1>6

\* An episode that ends is counted at most once, and its row stays for the renewal.
LEMMA EndsInv ==
    ASSUME GymInv, loader = "applying", NEW reason \in {"complete", "agent_error", "sandbox_died"},
           Ends(Current.env, reason), UNCHANGED <<live, golden, recreate, out, sent>>,
           \/ UNCHANGED recorded
           \/ Transition(Current.env)
    PROVE  GymInv'
  <1>1. PICK e \in Envs : e = Current.env
    BY WhileApplying
  <1>2. /\ GymTyping /\ QueueOK /\ CountsOK /\ gymEnv[e].open /\ pending[e] = <<>>
        /\ \A d \in Envs : EnvOK(d) /\ Covered(d)
    BY <1>1, WhileApplying
  <1>3. /\ Finalized(e, reason) /\ loader' = "renewing" /\ UNCHANGED <<queue, pending>>
        /\ completed' = completed + (IF reason = "sandbox_died" THEN 0 ELSE 1)
        /\ UNCHANGED <<live, golden, recreate, out, sent>>
    BY <1>1 DEF Ends
  <1>4. /\ EnvsTyped' /\ ~gymEnv'[e].open /\ gymEnv'[e].replica = gymEnv[e].replica
        /\ \A d \in Envs \ {e} : gymEnv'[d] = gymEnv[d]
        /\ collected' \in [Reasons -> Nat] /\ collected'[reason] = collected[reason] + 1
        /\ \A o \in Reasons \ {reason} : collected'[o] = collected[o]
    BY <1>2, <1>3, FinalizedDoes DEF Reasons
  <1>5. /\ DOMAIN recorded' = Envs
        /\ \A d \in Envs : recorded'[d].at = recorded'[d].saw
        /\ \A d \in Envs \ {e} : recorded'[d] = recorded[d]
    BY <1>1, <1>2, TransitionDoes DEF GymTyping, EnvOK
  <1>6. \A d \in Envs \ {e} : Apart(d)
    BY <1>3, <1>4, <1>5 DEF Apart
  <1>7. completed \in Nat /\ completed' \in Nat
    BY <1>2, <1>3 DEF GymTyping
  <1>8. GymTyping'
    BY <1>2, <1>3, <1>4, <1>5, <1>7 DEF GymTyping, GoodRow
  <1>9. EnvOK(e)' /\ Covered(e)'
    BY <1>2, <1>3, <1>4, <1>5 DEF EnvOK, Covered
  <1>10. \A d \in Envs \ {e} : EnvOK(d)' /\ Covered(d)'
    BY <1>2, <1>3, <1>6, ApartIsSame DEF Covered, Apart
  <1>11. QueueOK'
    <2>1. /\ queue # <<>> /\ Current = queue[1] /\ Len(queue) \in Nat
          /\ \A i \in 1 .. Len(queue) : queue[i].env \in Envs
          /\ \A i \in 2 .. Len(queue) : queue[i].env # e /\ Valid(queue[i])
      BY <1>1, <1>2, HeadRow
    <2>2. \A i \in 2 .. Len(queue) : Valid(queue[i])'
      <3> TAKE i \in 2 .. Len(queue)
      <3>1. i \in 1 .. Len(queue)
        BY <2>1
      <3>2. PICK r : r = queue[i]
        OBVIOUS
      <3>3. r.env \in Envs \ {e} /\ Valid(r)
        BY <2>1, <3>1, <3>2
      <3>4. Valid(r)'
        BY <1>6, <3>3, ApartIsSame
      <3> QED BY <1>3, <3>2, <3>4 DEF Valid
    <2>3. \A i \in 1 .. Len(queue) : i # 1 => i \in 2 .. Len(queue)
      BY <2>1
    <2>4. pending'[queue[1].env] = <<>> /\ ~gymEnv'[queue[1].env].open
      BY <1>1, <1>2, <1>3, <1>4, <2>1
    <2>5. (\A i \in 1 .. Len(queue) : IF i = 1 /\ loader = "renewing"
                                      THEN pending[queue[i].env] = <<>> /\ ~gymEnv[queue[i].env].open
                                      ELSE Valid(queue[i]))'
      BY <1>3, <2>2, <2>3, <2>4
    <2> QED BY <1>2, <1>3, <2>1, <2>5 DEF QueueOK
  <1>12. CountsOK'
    <2>1. InFlight' = InFlight - 1 /\ InFlight \in Nat
      BY <1>2, <1>4, InFlightFalls, InFlightCounts
    <2>2. completed' + InFlight' <= Total
      BY <1>2, <1>3, <1>7, <2>1, GymAssumption DEF CountsOK
    <2>3. completed' = collected'["complete"] + collected'["agent_error"]
      <3>1. /\ completed = collected["complete"] + collected["agent_error"]
            /\ collected["complete"] \in Nat /\ collected["agent_error"] \in Nat
        BY <1>2 DEF CountsOK, GymTyping, Reasons
      <3> QED BY <1>3, <1>4, <1>7, <3>1 DEF Reasons
    <2> QED BY <1>3, <2>2, <2>3 DEF CountsOK
  <1> QED BY <1>8, <1>9, <1>10, <1>11, <1>12 DEF GymInv

LEMMA UnparseableInv == ASSUME GymInv, Unparseable PROVE GymInv'
  BY EndsInv DEF Unparseable

LEMMA LastStepInv == ASSUME GymInv, LastStep PROVE GymInv'
  <1>1. /\ loader = "applying" /\ Transition(Current.env)
        /\ UNCHANGED <<live, golden, recreate, out, sent>>
        /\ Ends(Current.env, "complete") \/ Ends(Current.env, "sandbox_died")
    BY DEF LastStep
  <1> QED BY <1>1, EndsInv

LEMMA RefuseInv == ASSUME GymInv, Refuse PROVE GymInv'
  <1>1. /\ loader = "applying" /\ Raise
        /\ UNCHANGED <<gymEnv, live, golden, recreate, completed, collected, out, sent, recorded>>
    BY DEF Refuse
  <1>2. GymTyping /\ QueueOK /\ CountsOK /\ \A d \in Envs : EnvOK(d) /\ Covered(d)
    BY <1>1, WhileApplying
  <1>3. /\ queue' = <<>> /\ loader' = "idle" /\ QueueOK' /\ DOMAIN pending' = Envs
        /\ \A d \in Envs : (pending'[d] # <<>> => pending'[d] = Obs(d)') /\ Covered(d)'
    BY <1>1, <1>2, QueueGivenBack
  <1>4. GymTyping'
    BY <1>1, <1>2, <1>3 DEF GymTyping, EnvsTyped, GoodRow
  <1>5. \A d \in Envs : EnvOK(d)'
    BY <1>1, <1>2, <1>3 DEF EnvOK
  <1>6. CountsOK'
    BY <1>1, <1>2, <1>3 DEF CountsOK, InFlight
  <1> QED BY <1>3, <1>4, <1>5, <1>6 DEF GymInv

LEMMA DispatchFailsInv == ASSUME GymInv, DispatchFails PROVE GymInv'
  <1>1. PICK e \in Envs : e = Current.env
    BY WhileApplying DEF DispatchFails
  <1>2. loader = "applying" /\ UNCHANGED <<live, golden, recreate, out, sent, recorded>>
    BY DEF DispatchFails
  <1>3. CASE Ends(e, "sandbox_died")
    BY <1>1, <1>2, <1>3, EndsInv
  <1>4. CASE Finalized(e, "raised") /\ Raise /\ UNCHANGED completed
    <2>1. /\ GymTyping /\ QueueOK /\ CountsOK /\ gymEnv[e].open
          /\ \A d \in Envs : EnvOK(d) /\ Covered(d)
      BY <1>1, <1>2, WhileApplying
    <2>2. /\ EnvsTyped' /\ ~gymEnv'[e].open /\ gymEnv'[e].replica = gymEnv[e].replica
          /\ \A d \in Envs \ {e} : gymEnv'[d] = gymEnv[d]
          /\ collected' \in [Reasons -> Nat]
          /\ \A o \in Reasons \ {"raised"} : collected'[o] = collected[o]
      BY <1>4, <2>1, FinalizedDoes DEF Reasons
    <2>3. /\ queue' = <<>> /\ loader' = "idle" /\ QueueOK' /\ DOMAIN pending' = Envs
          /\ \A d \in Envs : (pending'[d] # <<>> => pending'[d] = Obs(d)') /\ Covered(d)'
      BY <1>1, <1>2, <1>4, <2>1, <2>2, QueueGivenBack
    <2>4. GymTyping'
      BY <1>2, <1>4, <2>1, <2>2, <2>3 DEF GymTyping, GoodRow
    <2>5. EnvOK(e)'
      BY <1>2, <2>1, <2>2, <2>3 DEF EnvOK
    <2>6. \A d \in Envs \ {e} : EnvOK(d)'
      BY <1>2, <2>1, <2>2, <2>3 DEF EnvOK
    <2>7. InFlight' = InFlight - 1 /\ InFlight \in Nat
      BY <2>1, <2>2, InFlightFalls, InFlightCounts
    <2>8. completed' + InFlight' <= Total
      <3>1. completed \in Nat /\ Total \in Nat /\ completed + InFlight <= Total /\ completed' = completed
        BY <1>4, <2>1, GymAssumption DEF CountsOK, GymTyping
      <3> QED BY <2>7, <3>1
    <2>9. completed' = collected'["complete"] + collected'["agent_error"]
      BY <1>4, <2>1, <2>2 DEF CountsOK, Reasons
    <2>10. CountsOK'
      BY <2>3, <2>8, <2>9 DEF CountsOK
    <2> QED BY <2>3, <2>4, <2>5, <2>6, <2>10 DEF GymInv
  <1> QED BY <1>1, <1>3, <1>4 DEF DispatchFails

LEMMA StepInv == ASSUME GymInv, Step PROVE GymInv'
  <1>1. PICK e \in Envs : e = Current.env
    BY WhileApplying DEF Step
  <1>2. /\ loader = "applying" /\ Transition(Current.env) /\ NextRow
        /\ gymEnv' = [gymEnv EXCEPT ![e].steps = @ + 1]
        /\ pending' = [pending EXCEPT ![e] = <<e, gymEnv[e].ep, gymEnv[e].steps + 1>>]
        /\ UNCHANGED <<live, golden, recreate, completed, collected, out, sent, faults>>
    BY <1>1 DEF Step
  <1>3. /\ GymTyping /\ QueueOK /\ CountsOK /\ gymEnv[e].open
        /\ \A d \in Envs : EnvOK(d) /\ Covered(d)
    BY <1>1, <1>2, WhileApplying
  <1>4. PICK ids : gymEnv \in [Envs -> GymEnvs(ids)]
    BY <1>3 DEF GymTyping, EnvsTyped
  <1>5. PICK r : r = [gymEnv[e] EXCEPT !.steps = @ + 1]
    OBVIOUS
  <1>6. gymEnv' = [gymEnv EXCEPT ![e] = r]
    BY <1>2, <1>4, <1>5
  <1>7. gymEnv[e] \in GymEnvs(ids)
    BY <1>4
  <1>8. /\ r \in GymEnvs(ids) /\ r.open = gymEnv[e].open /\ r.replica = gymEnv[e].replica
        /\ r.done = gymEnv[e].done /\ r.ep = gymEnv[e].ep /\ r.steps = gymEnv[e].steps + 1
    BY <1>5, <1>7 DEF GymEnvs
  <1>9. /\ gymEnv' \in [Envs -> GymEnvs(ids)] /\ gymEnv'[e] = r
        /\ \A d \in Envs \ {e} : gymEnv'[d] = gymEnv[d]
    BY <1>4, <1>6, <1>8
  <1>10. /\ DOMAIN pending' = Envs /\ pending'[e] = Obs(e)'
         /\ \A d \in Envs \ {e} : pending'[d] = pending[d]
    BY <1>2, <1>3, <1>8, <1>9 DEF GymTyping, Obs
  <1>11. /\ DOMAIN recorded' = Envs
         /\ \A d \in Envs : recorded'[d].at = recorded'[d].saw
         /\ \A d \in Envs \ {e} : recorded'[d] = recorded[d]
    BY <1>1, <1>2, TransitionDoes
  <1>12. \A d \in Envs \ {e} : Apart(d)
    BY <1>2, <1>9, <1>10, <1>11 DEF Apart
  <1>13. /\ queue' \in Seq(sent') /\ QueueOK' /\ loader' \in {"idle", "applying"}
         /\ \A d \in Envs \ {e} : (\E i \in 1 .. Len(queue) : queue[i].env = d) =>
                                     \E i \in 1 .. Len(queue') : queue'[i].env = d
    BY <1>1, <1>2, <1>3, <1>12, QueueAdvances
  <1>14. GymTyping'
    BY <1>2, <1>3, <1>9, <1>10, <1>11, <1>13 DEF GymTyping, EnvsTyped, GoodRow
  <1>15. EnvOK(e)' /\ Covered(e)'
    BY <1>2, <1>3, <1>8, <1>9, <1>10, <1>11 DEF EnvOK, Covered
  <1>16. \A d \in Envs \ {e} : EnvOK(d)' /\ Covered(d)'
    BY <1>2, <1>3, <1>12, <1>13, ApartIsSame DEF Covered, Apart
  <1>17. InFlight' = InFlight
    BY <1>8, <1>9, InFlightStays
  <1>18. CountsOK'
    BY <1>2, <1>3, <1>13, <1>17 DEF CountsOK
  <1> QED BY <1>13, <1>14, <1>15, <1>16, <1>18 DEF GymInv

LEMMA RenewInv == ASSUME GymInv, Renew PROVE GymInv'
  <1>1. PICK e \in Envs : e = Current.env
    BY WhileApplying DEF Renew
  <1>2. /\ loader = "renewing"
        /\ UNCHANGED <<golden, recreate, completed, collected, out, sent, recorded>>
    BY DEF Renew
  <1>3. /\ GymTyping /\ QueueOK /\ CountsOK /\ ~gymEnv[e].open /\ pending[e] = <<>>
        /\ \A d \in Envs : EnvOK(d) /\ Covered(d)
    BY <1>1, <1>2, WhileApplying
  <1>4. InFlight \in Nat /\ completed \in Nat /\ Total \in Nat /\ completed + InFlight <= Total
    BY <1>3, InFlightCounts, GymAssumption DEF GymTyping, CountsOK
  <1>5. CASE MayFork /\ Reset(e) /\ NextRow
    <2>1. /\ EnvsTyped' /\ live' \in [Envs -> {0, 1}] /\ DOMAIN pending' = Envs
          /\ gymEnv'[e].open /\ gymEnv'[e].replica /\ ~gymEnv'[e].done /\ live'[e] = 1
          /\ pending'[e] = Obs(e)'
          /\ \A d \in Envs \ {e} :
               gymEnv'[d] = gymEnv[d] /\ pending'[d] = pending[d] /\ live'[d] = live[d]
      BY <1>3, <1>5, ResetDoes
    <2>2. \A d \in Envs \ {e} : Apart(d)
      BY <1>2, <2>1 DEF Apart
    <2>3. /\ queue' \in Seq(sent') /\ QueueOK' /\ loader' \in {"idle", "applying"}
          /\ \A d \in Envs \ {e} : (\E i \in 1 .. Len(queue) : queue[i].env = d) =>
                                      \E i \in 1 .. Len(queue') : queue'[i].env = d
      BY <1>1, <1>2, <1>3, <1>5, <2>2, QueueAdvances
    <2>4. GymTyping'
      BY <1>2, <1>3, <2>1, <2>3 DEF GymTyping, GoodRow
    <2>5. EnvOK(e)' /\ Covered(e)'
      BY <1>2, <1>3, <2>1 DEF EnvOK, Covered
    <2>6. \A d \in Envs \ {e} : EnvOK(d)' /\ Covered(d)'
      BY <1>2, <1>3, <2>2, <2>3, ApartIsSame DEF Covered, Apart
    <2>7. InFlight' = InFlight + 1
      BY <1>3, <2>1, InFlightRises
    <2>8. CountsOK'
      BY <1>2, <1>3, <1>4, <1>5, <2>3, <2>7 DEF CountsOK, MayFork, BudgetLeft
    <2> QED BY <2>3, <2>4, <2>5, <2>6, <2>8 DEF GymInv
  <1>6. CASE ResetFails(e) /\ Raise
    <2>1. /\ EnvsTyped' /\ live' \in [Envs -> {0, 1}]
          /\ ~gymEnv'[e].open /\ ~gymEnv'[e].replica /\ live'[e] = 0
          /\ \A d \in Envs \ {e} : gymEnv'[d] = gymEnv[d] /\ live'[d] = live[d]
      BY <1>3, <1>6, ResetFailsDoes
    <2>2. /\ queue' = <<>> /\ loader' = "idle" /\ QueueOK' /\ DOMAIN pending' = Envs
          /\ \A d \in Envs : (pending'[d] # <<>> => pending'[d] = Obs(d)') /\ Covered(d)'
      BY <1>1, <1>2, <1>3, <1>6, <2>1, QueueGivenBack
    <2>3. GymTyping'
      BY <1>2, <1>3, <2>1, <2>2 DEF GymTyping, GoodRow
    <2>4. EnvOK(e)'
      BY <1>2, <1>3, <2>1, <2>2 DEF EnvOK
    <2>5. \A d \in Envs \ {e} : EnvOK(d)'
      BY <1>2, <1>3, <2>1, <2>2 DEF EnvOK
    <2>6. InFlight' = InFlight
      BY <1>3, <2>1, InFlightStays
    <2>7. CountsOK'
      BY <1>2, <1>3, <2>2, <2>6 DEF CountsOK
    <2> QED BY <2>2, <2>3, <2>4, <2>5, <2>7 DEF GymInv
  <1>7. CASE NextRow /\ UNCHANGED <<gymEnv, live, pending, faults>>
    <2>1. \A d \in Envs \ {e} : Apart(d)
      BY <1>2, <1>7 DEF Apart
    <2>2. /\ queue' \in Seq(sent') /\ QueueOK' /\ loader' \in {"idle", "applying"}
          /\ \A d \in Envs \ {e} : (\E i \in 1 .. Len(queue) : queue[i].env = d) =>
                                      \E i \in 1 .. Len(queue') : queue'[i].env = d
      BY <1>1, <1>2, <1>3, <1>7, <2>1, QueueAdvances
    <2>3. GymTyping'
      BY <1>2, <1>3, <1>7, <2>2 DEF GymTyping, EnvsTyped, GoodRow
    <2>4. EnvOK(e)' /\ Covered(e)'
      BY <1>2, <1>3, <1>7 DEF EnvOK, Covered, Obs
    <2>5. \A d \in Envs \ {e} : EnvOK(d)' /\ Covered(d)'
      BY <1>2, <1>3, <2>1, <2>2, ApartIsSame DEF Covered, Apart
    <2>6. CountsOK'
      BY <1>2, <1>3, <1>7, <2>2 DEF CountsOK, InFlight
    <2> QED BY <2>2, <2>3, <2>4, <2>5, <2>6 DEF GymInv
  <1> QED BY <1>1, <1>5, <1>6, <1>7 DEF Renew

LEMMA CloseInv == ASSUME GymInv, Close PROVE GymInv'
  <1>1. /\ GymTyping /\ QueueOK /\ CountsOK /\ queue = <<>>
        /\ \A d \in Envs : EnvOK(d) /\ Covered(d)
    BY DEF GymInv, QueueOK, Close
  <1>2. /\ gymEnv' = [e \in Envs |-> [gymEnv[e] EXCEPT !.open = FALSE, !.done = TRUE, !.replica = FALSE]]
        /\ live' = CloseEnvs /\ loader' = "closed" /\ out' = {}
        /\ golden' = IF golden = "here" THEN "deleted" ELSE golden
        /\ UNCHANGED <<recreate, pending, completed, collected, queue, sent, recorded, faults>>
    BY DEF Close
  <1>3. PICK ids : gymEnv \in [Envs -> GymEnvs(ids)]
    BY <1>1 DEF GymTyping, EnvsTyped
  <1>4. ASSUME NEW e \in Envs
        PROVE  /\ gymEnv'[e] \in GymEnvs(ids) /\ ~gymEnv'[e].open /\ ~gymEnv'[e].replica
               /\ gymEnv'[e].ep = gymEnv[e].ep /\ gymEnv'[e].steps = gymEnv[e].steps
    <2>1. PICK r : r = [gymEnv[e] EXCEPT !.open = FALSE, !.done = TRUE, !.replica = FALSE]
      OBVIOUS
    <2>2. gymEnv[e] \in GymEnvs(ids)
      BY <1>3
    <2>3. r \in GymEnvs(ids) /\ ~r.open /\ ~r.replica /\ r.ep = gymEnv[e].ep /\ r.steps = gymEnv[e].steps
      BY <2>1, <2>2 DEF GymEnvs
    <2>4. gymEnv'[e] = r
      BY <1>2, <2>1
    <2> QED BY <2>3, <2>4
  <1>5. EnvsTyped'
    <2>1. \E f : f = gymEnv' /\ f \in [Envs -> GymEnvs(ids)]
      BY <1>2, <1>4
    <2> QED BY <2>1 DEF EnvsTyped
  <1>6. live' = [e \in Envs |-> 0]
    <2>1. \A e \in Envs : Teardown(e)[e] = 0
      BY <1>1 DEF Teardown, EnvOK, GymTyping
    <2> QED BY <1>2, <2>1 DEF CloseEnvs
  <1>7. GymTyping'
    <2>1. \A r \in out' \cup sent' : GoodRow(r)
      BY <1>1, <1>2 DEF GymTyping
    <2>2. live' \in [Envs -> {0, 1}] /\ IsFiniteSet(out')
      BY <1>2, <1>6, FS_EmptySet
    <2>3. completed' \in Nat /\ collected' \in [Reasons -> Nat] /\ IsFiniteSet(sent') /\ queue' \in Seq(sent')
      BY <1>1, <1>2 DEF GymTyping
    <2> QED BY <1>1, <1>2, <1>5, <2>1, <2>2, <2>3 DEF GymTyping, GoodRow
  <1>8. \A e \in Envs : EnvOK(e)' /\ Covered(e)'
    <2> TAKE e \in Envs
    <2>1. live'[e] = 0 /\ pending'[e] = pending[e] /\ recorded'[e] = recorded[e] /\ ~gymEnv'[e].open
      BY <1>2, <1>4, <1>6
    <2>2. Obs(e)' = Obs(e)
      BY <1>4 DEF Obs
    <2>3. ~gymEnv'[e].replica
      BY <1>4
    <2> QED BY <1>1, <2>1, <2>2, <2>3 DEF EnvOK, Covered
  <1>9. QueueOK'
    <2>1. queue' = <<>> /\ Len(queue') = 0 /\ loader' = "closed"
      BY <1>1, <1>2
    <2> QED BY <2>1 DEF QueueOK
  <1>10. InFlight' = 0
    <2>1. {e \in Envs : gymEnv[e].open}' = {}
      BY <1>4
    <2> QED BY <2>1, FS_EmptySet DEF InFlight
  <1>11. CountsOK'
    <2>1. completed + 0 <= Total
      BY <1>1, InFlightCounts, GymAssumption DEF CountsOK, GymTyping
    <2> QED BY <1>1, <1>2, <1>4, <1>10, <2>1 DEF CountsOK
  <1> QED BY <1>7, <1>8, <1>9, <1>11 DEF GymInv

LEMMA GymNextInv == ASSUME GymInv, [GymNext]_gymVars PROVE GymInv'
  <1>1. CASE UNCHANGED gymVars
    <2>1. UNCHANGED <<gymEnv, live, golden, recreate, pending, completed, collected, loader, queue,
                      out, sent, recorded, faults>>
      BY <1>1 DEF gymVars
    <2>2. GymTyping'
      BY <2>1 DEF GymInv, GymTyping, EnvsTyped, GoodRow
    <2>3. (\A e \in Envs : EnvOK(e) /\ Covered(e))'
      BY <2>1 DEF GymInv, EnvOK, Covered, Obs, Valid
    <2>4. QueueOK' /\ CountsOK'
      BY <2>1 DEF GymInv, QueueOK, CountsOK, InFlight, Valid
    <2> QED BY <2>2, <2>3, <2>4 DEF GymInv
  <1>2. CASE Loading
    BY <1>2, AskInv, FillInv, YieldInv, StopInv DEF Loading
  <1>3. CASE Applying
    BY <1>3, RefuseInv, UnparseableInv, DispatchFailsInv, StepInv, LastStepInv, RenewInv DEF Applying
  <1>4. CASE Close
    BY <1>4, CloseInv
  <1>5. CASE \E rows \in SUBSET (out \cup sent) : Respond(rows)
    BY <1>5, RespondInv
  <1> QED BY <1>1, <1>2, <1>3, <1>4, <1>5 DEF GymNext

\* GymSound: between batches no episode that goes on is forgotten, an action is recorded with
\* the observation the policy chose it for, the budget holds with what is under way counted in,
\* and every environment has the one replica it knows of, a closed pool none; for any number of
\* environments, batch size, budget, steps and faults (gym.py, MultiTurnDataloader).
THEOREM CollectionAlwaysSound == GymSpec => []GymSound
  <1>1. GymInv => GymSound
    <2> SUFFICES ASSUME GymInv PROVE GymSound
      OBVIOUS
    <2>1. /\ GymTyping /\ QueueOK /\ CountsOK /\ \A e \in Envs : EnvOK(e) /\ Covered(e)
      BY DEF GymInv
    <2>2. NoneStranded
      <3> SUFFICES ASSUME loader = "idle", NEW e \in Envs, gymEnv[e].open
                   PROVE  pending[e] = Obs(e) \/ \E r \in out : r.env = e /\ Valid(r)
        BY DEF NoneStranded
      <3>1. queue = <<>>
        BY <2>1 DEF QueueOK
      <3>2. ~\E i \in 1 .. Len(queue) : queue[i].env = e
        BY <3>1
      <3> QED BY <2>1, <3>2 DEF Covered
    <2>3. TransitionIsHonest
      BY <2>1 DEF TransitionIsHonest, EnvOK
    <2>4. BudgetIsKept
      BY <2>1 DEF BudgetIsKept, CountsOK
    <2>5. NoReplicaLeft
      BY <2>1 DEF NoReplicaLeft, EnvOK, CountsOK
    <2> QED BY <2>2, <2>3, <2>4, <2>5 DEF GymSound
  <1>2. GymInv /\ [GymNext]_gymVars => GymInv'
    BY GymNextInv
  <1> QED BY <1>1, <1>2, GymInitInv, PTL DEF GymSpec

--------------------------------------------------------------------------------
(* NemoGym: the inductive invariant.                                          *)
(*                                                                            *)
(* Which thread holds what can be read off the list of what it has yet to do: *)
(* whoever has yet to close an environment, and nothing before that gives it  *)
(* one, has it in hand; whoever has yet to give back a lease has one.  So the *)
(* invariant needs to know the lists: in which order their steps may stand.   *)

Steps == {"drain_envs", "drain_snaps", "evict", "reserve", "lease", "build", "reset", "unlease",
          "publish", "close_env", "release", "leave", "evaluate", "detach", "use", "lock", "reap",
          "unlock", "begin", "closed", "drained", "publish_closed", "verdict", "retry_envs",
          "retry_snaps", "close_rollouts", "delete_goldens", "again"}
\* Only these may stand in a list more than once.
Repeats == {"drain_snaps", "evict"}
\* What must come later in a list in which its first is: what is taken is given back.
Follows ==
    {<<"reserve", {"lease", "detach"}>>, <<"lease", {"reset"}>>, <<"lease", {"unlease"}>>,
     <<"build", {"reset"}>>, <<"build", {"unlease"}>>, <<"reset", {"publish"}>>, <<"reset", {"unlease"}>>,
      <<"unlease", {"close_env"}>>,
     <<"publish", {"close_env"}>>, <<"detach", {"close_env"}>>, <<"evaluate", {"detach"}>>,
     <<"close_env", {"release"}>>, <<"retry_envs", {"again"}>>, <<"retry_snaps", {"again"}>>,
     <<"close_rollouts", {"again"}>>, <<"delete_goldens", {"again"}>>}
\* A list of steps, and the rules of order the lists of NemoGym obey.
Has(q, x) == \E i \in 1 .. Len(q) : q[i] = x
Once(q) == \A i, j \in 1 .. Len(q) : i < j /\ q[i] = q[j] => q[i] \in Repeats
Ordered(q) == \A i \in 1 .. Len(q), p \in Follows : q[i] = p[1] => \E j \in i + 1 .. Len(q) : q[j] \in p[2]
Firsts(q) == \A i \in 1 .. Len(q) : q[i] \in {"lock", "build", "begin"} => i = 1
Lasts(q) == \A i \in 1 .. Len(q) : q[i] \in {"leave", "verdict", "lock", "begin"} => i = Len(q)
Reaps(q) == \A i, j \in 1 .. Len(q) : i < j /\ q[i] = "reap" => q[j] \notin {"close_env", "release", "unlock"}
Drains(q) == \A i \in 1 .. Len(q) : q[i] = "drained" => i = 1 \/ (i = 2 /\ q[1] = "closed")

ListOK(q) == q \in Seq(Steps) /\ Once(q) /\ Ordered(q) /\ Firsts(q) /\ Lasts(q) /\ Reaps(q) /\ Drains(q)

\* The steps that may stand in the list of a call, by what it was made for.
Common == {"lock", "drain_envs", "drain_snaps", "evict", "reserve", "close_env", "release", "leave"}
Of == [none |-> {},
       seed |-> Common \cup {"lease", "build", "reset", "unlease", "publish"},
       verify |-> Common \cup {"evaluate", "detach"},
       end |-> Common \cup {"detach"},
       tool |-> {"lock", "use", "leave"},
       maintain |-> {"reap", "evict", "drain_envs", "drain_snaps", "close_env", "release", "unlock", "leave"},
       close |-> {"begin", "closed", "drained", "publish_closed", "verdict", "retry_envs", "retry_snaps",
                  "close_rollouts", "delete_goldens", "again"}]
Ops == {"none", "seed", "verify", "end", "tool", "maintain", "close"}

\* A list a call of that kind may have yet to do.
ListFor(q, op) ==
    /\ ListOK(q)
    /\ \A x \in Steps : Has(q, x) => x \in Of[op]
    /\ Has(q, "build") => ~Has(q, "lease")
    /\ Has(q, "drained") => ~Has(q, "again")

\* Its call has an environment that is nobody else's: it has been made or detached, and is not closed.
Hand(q) == Has(q, "close_env") /\ ~Has(q, "lease") /\ ~Has(q, "reserve") /\ ~Has(q, "detach")
\* Its call has counted itself as a lease of the golden of its task.
Leases(q) == Has(q, "unlease") /\ ~Has(q, "lease") /\ ~Has(q, "build")
\* Its call has resumed an environment and has not published it.
Resumed(q) == Has(q, "publish") /\ ~Has(q, "reset")
\* Its call works on the rollout of its session, under the lock of the session.
Fixed(q) == Has(q, "detach") \/ Has(q, "use")
\* Its call has reserved a place in the backlog that it may yet need.
Owes(q) == Has(q, "close_env") /\ ~Has(q, "reserve")
\* A close that has seen the calls under way to an end, and has yet to say whether anything is left.
Past(r) == r.op = "close" /\ ~Has(r.todo, "begin") /\ ~Has(r.todo, "drained")

\* What a thread is: a call, and the list of what it has yet to do.
Thread == [op : Ops, s : SUBSET Sessions, t : SUBSET Tasks, env : Nat, left : SUBSET Sessions,
           reserved : BOOLEAN, delete : BOOLEAN, round : 0 .. 2, todo : Seq(Steps)]

ThreadOK(r) ==
    /\ r \in Thread
    /\ ListFor(r.todo, r.op)
    /\ \A s \in r.s : r.s = {s}
    /\ r.op \in {"seed", "verify", "end", "tool"} => \E s \in Sessions : r.s = {s}
    /\ r.op = "seed" => \E t \in Tasks : r.t = {t}
    /\ Owes(r.todo) => r.reserved
    /\ r.round > 0 <=> Has(r.todo, "again")

\* What waits to be freed again, what the sessions and tasks have, and what is in the hands of calls.
Queued == ToSet(pendingEnvs) \cup EnvsInRetry
QueuedSnaps == ToSet(pendingSnaps) \cup SnapsInRetry
OutRollouts == {rollouts[s] : s \in Sessions}
InHand == {th[c].env : c \in {d \in Callers : Hand(th[d].todo)}}
Snaps == {goldens[t].snap : t \in Tasks}

\* Types of the variables.
NemoTyping ==
    /\ rollouts \in [Sessions -> Nat] /\ taskOf \in Seq(Tasks)
    /\ goldens \in [Tasks -> [snap : Nat, leases : Int]]
    /\ pendingEnvs \in Seq(Nat) /\ pendingSnaps \in Seq(Nat)
    /\ retrying \in [by : SUBSET Callers, kind : {"envs", "snaps"}, left : Seq(Nat), failed : Seq(Nat)]
    /\ engine \in {"open", "closing", "closed"}
    /\ th \in [Callers -> Thread]
    /\ replicas \subseteq Nat \ {0} /\ stored \subseteq Nat \ {0}
    /\ cleanClose \subseteq BOOLEAN

\* A round of retries is that of a thread that is at it.
Retriers ==
    retrying.by = {} \/ \E c \in Callers : /\ retrying.by = {c} /\ th[c].todo # <<>>
                            /\ Head(th[c].todo) \in {"drain_envs", "drain_snaps", "retry_envs", "retry_snaps"}

\* What threads do agrees with the state of the engine: past the drain of a close nobody is at work.
Control ==
    /\ \A c \in Callers : ThreadOK(th[c])
    /\ \A c \in Callers : th[c].op = "close" /\ ~Has(th[c].todo, "begin") => engine # "open"
    /\ \A c \in Callers : Past(th[c]) => Drained
    /\ Retriers
\* A session is one call's at a time, and so is the building of a golden, which is not there yet.
Locks ==
    /\ \A c, d \in Callers : \A s \in th[c].s \cap th[d].s : c # d => Has(th[c].todo, "lock") \/ Has(th[d].todo, "lock")
    /\ \A c, d \in Callers : c # d /\ Has(th[c].todo, "build") /\ Has(th[d].todo, "build") => th[c].t \cap th[d].t = {}
    /\ \A c \in Callers : Has(th[c].todo, "build") => \A t \in th[c].t : goldens[t].snap = 0
\* No number is of an environment yet to be made.
Numbers ==
    /\ \A e \in Queued \cup QueuedSnaps \cup OutRollouts \cup InHand \cup Snaps : e <= Len(taskOf)
    /\ \A c \in Callers : Hand(th[c].todo) /\ Has(th[c].todo, "reset") => th[c].env # 0
\* Every replica has one owner, a session, a call or the backlog; and what a session has is there.
EnvsOK ==
    /\ \A c \in Callers : Fixed(th[c].todo) => \A s \in th[c].s : rollouts[s] = th[c].env /\ th[c].env # 0
    /\ \A s \in Sessions : rollouts[s] # 0 => rollouts[s] \in replicas /\ rollouts[s] \notin Queued
    /\ \A s, z \in Sessions : s # z /\ rollouts[s] = rollouts[z] => rollouts[s] = 0
    /\ \A c \in Callers : Hand(th[c].todo) /\ th[c].env # 0 =>
          /\ th[c].env \notin OutRollouts \cup Queued
          /\ \A d \in Callers : d # c /\ Hand(th[d].todo) => th[d].env # th[c].env
    /\ \A c \in Callers : Resumed(th[c].todo) => th[c].env \in replicas
    /\ replicas \subseteq OutRollouts \cup Queued \cup InHand
\* So has every snapshot, and what a task has is there; what is being built is nobody's yet.
SnapsOK ==
    /\ \A t \in Tasks : goldens[t].snap # 0 => goldens[t].snap \in stored /\ goldens[t].snap \notin QueuedSnaps
    /\ \A t, u \in Tasks : t # u /\ goldens[t].snap = goldens[u].snap => goldens[t].snap = 0
    /\ \A c \in Callers : Has(th[c].todo, "build") => th[c].env \notin Snaps \cup QueuedSnaps
    /\ stored \subseteq Snaps \cup QueuedSnaps
\* The leases of a golden are the calls that have one, and it is there as long as there are any.
LeasesOK ==
    /\ \A t \in Tasks : goldens[t].leases = Cardinality({c \in Callers : t \in th[c].t /\ Leases(th[c].todo)})
    /\ \A c \in Callers : Leases(th[c].todo) => \A t \in th[c].t : goldens[t].snap # 0
\* What waits to be freed has its place, and so has what calls may yet have to leave behind.
Bounded == Backlog + RetryInflight + Cardinality({c \in Callers : Owes(th[c].todo)}) <= MaxPending
\* What a close that did not raise relies on: nobody at work, no session or golden left, and
\* whatever waits to be freed is that of a close that is yet to report.
Terminal ==
    /\ cleanClose # {} => engine # "open" /\ Drained /\ \A s \in Sessions : rollouts[s] = 0
    /\ TRUE \in cleanClose => \A t \in Tasks : goldens[t].snap = 0
    /\ cleanClose # {} /\ Backlog # 0 => Reporting # {}
NemoInv == /\ NemoTyping /\ Control /\ Locks /\ Numbers /\ EnvsOK /\ SnapsOK /\ LeasesOK /\ Bounded /\ Terminal

\* The rest of a list obeys the rules, and has lost its first step only.
LEMMA Popped ==
    ASSUME NEW q, ListOK(q), q # <<>>
    PROVE  /\ ListOK(Tail(q))
           /\ Has(q, Head(q)) /\ Head(q) \in Steps
           /\ \A x : Has(Tail(q), x) => Has(q, x)
           /\ \A x : Has(q, x) /\ x # Head(q) => Has(Tail(q), x)
           /\ Head(q) \notin Repeats => ~Has(Tail(q), Head(q))
<1>1. /\ q \in Seq(Steps) /\ Len(q) \in Nat \ {0}
      /\ Tail(q) \in Seq(Steps) /\ Len(Tail(q)) = Len(q) - 1
      /\ \A i \in 1 .. Len(q) - 1 : Tail(q)[i] = q[i + 1]
      /\ Head(q) = q[1] /\ q[1] \in Steps
  BY DEF ListOK
<1>2. /\ Has(q, Head(q))
      /\ \A x : Has(Tail(q), x) => Has(q, x)
  BY <1>1 DEF Has
<1>3. ASSUME NEW x, Has(q, x), x # Head(q) PROVE Has(Tail(q), x)
  <2>1. PICK i \in 1 .. Len(q) : q[i] = x
    BY <1>3 DEF Has
  <2>2. i # 1 /\ i - 1 \in 1 .. Len(q) - 1 /\ (i - 1) + 1 = i
    BY <2>1, <1>1, <1>3
  <2> QED BY <2>1, <2>2, <1>1 DEF Has
<1>4. ASSUME Head(q) \notin Repeats, Has(Tail(q), Head(q)) PROVE FALSE
  <2>1. PICK i \in 1 .. Len(q) - 1 : Tail(q)[i] = q[1]
    BY <1>4, <1>1 DEF Has
  <2>2. q[i + 1] = q[1] /\ 1 < i + 1 /\ i + 1 \in 1 .. Len(q) /\ 1 \in 1 .. Len(q)
    BY <2>1, <1>1
  <2> QED BY <2>2, <1>4, <1>1 DEF ListOK, Once
<1>5. ListOK(Tail(q))
  <2>0. \A i \in 1 .. Len(Tail(q)) : i \in 1 .. Len(q) - 1 /\ i + 1 \in 1 .. Len(q) /\ i + 1 # 1
    BY <1>1
  <2>1. Once(Tail(q))
    <3> SUFFICES ASSUME NEW i \in 1 .. Len(Tail(q)), NEW j \in 1 .. Len(Tail(q)), i < j, Tail(q)[i] = Tail(q)[j]
                 PROVE  Tail(q)[i] \in Repeats
      BY DEF Once
    <3>1. i + 1 < j + 1
      BY <1>1
    <3> QED BY <3>1, <2>0, <1>1 DEF ListOK, Once
  <2>2. Ordered(Tail(q))
    <3> SUFFICES ASSUME NEW i \in 1 .. Len(Tail(q)), NEW p \in Follows, Tail(q)[i] = p[1]
                 PROVE  \E j \in i + 1 .. Len(Tail(q)) : Tail(q)[j] \in p[2]
      BY DEF Ordered
    <3>1. i + 1 \in 1 .. Len(q) /\ q[i + 1] = p[1]
      BY <1>1
    <3>2. PICK j \in (i + 1) + 1 .. Len(q) : q[j] \in p[2]
      BY <3>1 DEF ListOK, Ordered
    <3>3. j - 1 \in i + 1 .. Len(Tail(q)) /\ Tail(q)[j - 1] = q[j]
      BY <3>2, <1>1
    <3> QED BY <3>2, <3>3
  <2>3. Firsts(Tail(q))
    BY <2>0, <1>1 DEF ListOK, Firsts
  <2>4. Drains(Tail(q))
    <3> SUFFICES ASSUME NEW i \in 1 .. Len(Tail(q)), Tail(q)[i] = "drained" PROVE i = 1
      BY DEF Drains
    <3>1. i + 1 = 2
      BY <2>0, <1>1 DEF ListOK, Drains
    <3> QED BY <3>1
  <2>5. Reaps(Tail(q))
    <3> SUFFICES ASSUME NEW i \in 1 .. Len(Tail(q)), NEW j \in 1 .. Len(Tail(q)), i < j, Tail(q)[i] = "reap"
                 PROVE  Tail(q)[j] \notin {"close_env", "release", "unlock"}
      BY DEF Reaps
    <3>1. i + 1 < j + 1
      BY <1>1
    <3> QED BY <3>1, <2>0, <1>1 DEF ListOK, Reaps
  <2>6. Lasts(Tail(q))
    <3> SUFFICES ASSUME NEW i \in 1 .. Len(Tail(q)), Tail(q)[i] \in {"leave", "verdict", "lock", "begin"} PROVE i = Len(Tail(q))
      BY DEF Lasts
    <3>1. i + 1 = Len(q)
      BY <2>0, <1>1 DEF ListOK, Lasts
    <3> QED BY <3>1, <1>1
  <2> QED BY <2>1, <2>2, <2>3, <2>4, <2>5, <2>6, <1>1 DEF ListOK
<1> QED BY <1>1, <1>2, <1>3, <1>4, <1>5

\* What must follow a step follows it.
LEMMA AheadOf ==
    ASSUME NEW q, ListOK(q), q # <<>>, NEW p \in Follows
    PROVE  /\ Has(q, p[1]) => \E y \in p[2] : Has(q, y)
           /\ Head(q) = p[1] => \E y \in p[2] : Has(Tail(q), y)
<1>1. /\ q \in Seq(Steps) /\ Len(q) \in Nat \ {0}
      /\ Tail(q) \in Seq(Steps) /\ Len(Tail(q)) = Len(q) - 1
      /\ \A i \in 1 .. Len(q) - 1 : Tail(q)[i] = q[i + 1]
      /\ Head(q) = q[1]
  BY DEF ListOK
<1>2. ASSUME Has(q, p[1]) PROVE \E y \in p[2] : Has(q, y)
  <2>1. PICK i \in 1 .. Len(q) : q[i] = p[1]
    BY <1>2 DEF Has
  <2>2. PICK j \in i + 1 .. Len(q) : q[j] \in p[2]
    BY <2>1 DEF ListOK, Ordered
  <2> QED BY <2>2 DEF Has
<1>3. ASSUME Head(q) = p[1] PROVE \E y \in p[2] : Has(Tail(q), y)
  <2>1. 1 \in 1 .. Len(q) /\ q[1] = p[1]
    BY <1>1, <1>3
  <2>2. PICK j \in 1 + 1 .. Len(q) : q[j] \in p[2]
    BY <2>1 DEF ListOK, Ordered
  <2>3. j - 1 \in 1 .. Len(Tail(q)) /\ Tail(q)[j - 1] = q[j]
    BY <2>2, <1>1
  <2> QED BY <2>2, <2>3 DEF Has
<1> QED BY <1>2, <1>3

\* When the step that must follow is first, what it follows is done.
LEMMA BehindIt ==
    ASSUME NEW q, ListOK(q), q # <<>>, NEW a, <<a, {Head(q)}>> \in Follows, Head(q) \notin Repeats
    PROVE  ~Has(q, a)
<1> SUFFICES ASSUME Has(q, a) PROVE FALSE
  OBVIOUS
<1> DEFINE p == <<a, {Head(q)}>>
<1>1. q \in Seq(Steps) /\ Len(q) \in Nat \ {0} /\ Head(q) = q[1]
  BY DEF ListOK
<1>2. PICK i \in 1 .. Len(q) : q[i] = a
  BY DEF Has
<1>3. PICK j \in i + 1 .. Len(q) : q[j] \in p[2]
  BY <1>2 DEF ListOK, Ordered
<1>4. 1 \in 1 .. Len(q) /\ j \in 1 .. Len(q) /\ 1 < j /\ q[1] = q[j]
  BY <1>1, <1>3
<1> QED BY <1>1, <1>4 DEF ListOK, Once

\* What the rules of order say of the lists that hold a step ...
Chains(q) ==
    /\ Has(q, "reserve") => Has(q, "lease") \/ Has(q, "detach")
    /\ Has(q, "lease") => Has(q, "reset") /\ Has(q, "unlease")
    /\ Has(q, "build") => Has(q, "reset") /\ Has(q, "unlease")
    /\ Has(q, "reset") => Has(q, "publish") /\ Has(q, "unlease")
    /\ Has(q, "unlease") => Has(q, "close_env")
    /\ Has(q, "publish") => Has(q, "close_env")
    /\ Has(q, "evaluate") => Has(q, "detach")
    /\ Has(q, "detach") => Has(q, "close_env")
    /\ Has(q, "close_env") => Has(q, "release")
    /\ Has(q, "retry_envs") => Has(q, "again")
    /\ Has(q, "retry_snaps") => Has(q, "again")
    /\ Has(q, "close_rollouts") => Has(q, "again")
    /\ Has(q, "delete_goldens") => Has(q, "again")

LEMMA Chained ==
    ASSUME NEW q, ListOK(q)
    PROVE  Chains(q)
<1>1. ASSUME NEW p \in Follows, Has(q, p[1]) PROVE \E y \in p[2] : Has(q, y)
  <2>1. q # <<>>
    BY <1>1 DEF Has
  <2> QED BY <1>1, <2>1, AheadOf
<1>2. ASSUME NEW a, NEW b, <<a, {b}>> \in Follows, Has(q, a) PROVE Has(q, b)
  <2> DEFINE p == <<a, {b}>>
  <2>1. p \in Follows /\ Has(q, p[1]) /\ p[2] = {b}
    BY <1>2
  <2>2. \E y \in p[2] : Has(q, y)
    BY <2>1, <1>1
  <2> QED BY <2>1, <2>2
<1>3. Has(q, "reserve") => Has(q, "lease") \/ Has(q, "detach")
  <2> DEFINE p == <<"reserve", {"lease", "detach"}>>
  <2>1. p \in Follows /\ p[1] = "reserve" /\ p[2] = {"lease", "detach"}
    BY DEF Follows
  <2>2. Has(q, p[1]) => \E y \in p[2] : Has(q, y)
    BY <2>1, <1>1
  <2> QED BY <2>1, <2>2
<1> HIDE DEF Has
<1> QED BY <1>2, <1>3 DEF Follows, Chains

\* ... and of the lists that begin with one.
Before(q) ==
    /\ Head(q) \in {"reset", "unlease"} => ~Has(q, "lease") /\ ~Has(q, "build")
    /\ Head(q) = "publish" => ~Has(q, "reset")
    /\ Head(q) = "close_env" => ~Has(q, "unlease") /\ ~Has(q, "publish") /\ ~Has(q, "detach")
    /\ Head(q) = "release" => ~Has(q, "close_env")
    /\ Head(q) = "detach" => ~Has(q, "evaluate")
    /\ Head(q) = "again" => /\ ~Has(q, "retry_envs") /\ ~Has(q, "retry_snaps")
                            /\ ~Has(q, "close_rollouts") /\ ~Has(q, "delete_goldens")

LEMMA Behind ==
    ASSUME NEW q, ListOK(q), q # <<>>
    PROVE  Before(q)
<1>1. \A a : <<a, {Head(q)}>> \in Follows /\ Head(q) \notin Repeats => ~Has(q, a)
  BY BehindIt
<1>2. {"reset", "unlease", "publish", "close_env", "release", "detach", "again"} \cap Repeats = {}
  BY DEF Repeats
<1>3. /\ <<"lease", {"reset"}>> \in Follows /\ <<"build", {"reset"}>> \in Follows
      /\ <<"lease", {"unlease"}>> \in Follows /\ <<"build", {"unlease"}>> \in Follows
      /\ <<"reset", {"publish"}>> \in Follows /\ <<"unlease", {"close_env"}>> \in Follows
      /\ <<"publish", {"close_env"}>> \in Follows /\ <<"detach", {"close_env"}>> \in Follows
      /\ <<"close_env", {"release"}>> \in Follows /\ <<"evaluate", {"detach"}>> \in Follows
      /\ <<"retry_envs", {"again"}>> \in Follows /\ <<"retry_snaps", {"again"}>> \in Follows
      /\ <<"close_rollouts", {"again"}>> \in Follows /\ <<"delete_goldens", {"again"}>> \in Follows
  BY DEF Follows
<1> QED BY <1>1, <1>2, <1>3 DEF Before

\* Two lists whose calls hold the same.
Same(q, t) ==
    /\ Hand(t) <=> Hand(q)
    /\ Leases(t) <=> Leases(q)
    /\ Resumed(t) <=> Resumed(q)
    /\ Fixed(t) <=> Fixed(q)
    /\ Owes(t) <=> Owes(q)

\* The steps that change what their call holds.
Telling == {"reserve", "lease", "build", "reset", "unlease", "publish", "close_env", "detach", "use"}

\* What is done of a list, step by step.
Turn(q, t, op) ==
    /\ ListFor(t, op)
    /\ Head(q) \in Of[op]
    /\ Head(q) \notin Telling => Same(q, t)
    /\ Head(q) = "reserve" => /\ ~Hand(q) /\ ~Hand(t) /\ ~Owes(q) /\ Owes(t) /\ ~Leases(q) /\ ~Leases(t)
                              /\ ~Resumed(q) /\ ~Resumed(t) /\ (Fixed(t) <=> Fixed(q)) /\ ~Has(q, "build")
    /\ Head(q) = "lease" => /\ op = "seed" /\ ~Hand(q) /\ Hand(t) /\ ~Leases(q) /\ Leases(t) /\ ~Resumed(q) /\ ~Resumed(t)
                            /\ ~Fixed(q) /\ ~Fixed(t) /\ Owes(q) /\ Owes(t) /\ Has(t, "reset")
    /\ Head(q) = "build" => /\ op = "seed" /\ Hand(q) /\ Hand(t) /\ ~Leases(q) /\ Leases(t) /\ ~Resumed(q) /\ ~Resumed(t)
                            /\ ~Fixed(q) /\ ~Fixed(t) /\ Owes(q) /\ Owes(t) /\ Has(q, "reset") /\ Has(t, "reset")
    /\ Head(q) = "reset" => /\ op = "seed" /\ Hand(q) /\ Hand(t) /\ Leases(q) /\ Leases(t) /\ ~Resumed(q) /\ Resumed(t)
                            /\ ~Fixed(q) /\ ~Fixed(t) /\ Owes(q) /\ Owes(t)
    /\ Head(q) = "unlease" => /\ op = "seed" /\ Leases(q) /\ ~Leases(t) /\ (Hand(t) <=> Hand(q))
                              /\ (Resumed(t) <=> Resumed(q)) /\ ~Fixed(q) /\ ~Fixed(t) /\ (Owes(t) <=> Owes(q))
    /\ Head(q) = "publish" => /\ op = "seed" /\ Hand(q) /\ Hand(t) /\ (Leases(t) <=> Leases(q)) /\ Resumed(q) /\ ~Resumed(t)
                              /\ ~Fixed(q) /\ ~Fixed(t) /\ Owes(q) /\ Owes(t)
    /\ Head(q) = "close_env" => /\ Hand(q) /\ ~Hand(t) /\ ~Leases(q) /\ ~Leases(t) /\ ~Resumed(q) /\ ~Resumed(t)
                                /\ ~Fixed(q) /\ ~Fixed(t) /\ Owes(q) /\ ~Owes(t)
    /\ Head(q) = "detach" => /\ op \in {"verify", "end"} /\ ~Hand(q) /\ Hand(t) /\ ~Leases(q) /\ ~Leases(t)
                             /\ ~Resumed(q) /\ ~Resumed(t) /\ Fixed(q) /\ ~Fixed(t) /\ (Owes(t) <=> Owes(q))
    /\ Head(q) = "use" => /\ op = "tool" /\ ~Hand(q) /\ ~Hand(t) /\ ~Leases(q) /\ ~Leases(t)
                          /\ ~Resumed(q) /\ ~Resumed(t) /\ Fixed(q) /\ ~Fixed(t) /\ ~Owes(q) /\ ~Owes(t)

\* What popping the first step changes.
LEMMA Turned ==
    ASSUME NEW q, NEW op \in Ops, ListFor(q, op), q # <<>>
    PROVE  Turn(q, Tail(q), op)
<1> DEFINE t == Tail(q)
           h == Head(q)
<1>1. /\ ListOK(t) /\ Has(q, h) /\ h \in Steps
      /\ \A x : Has(t, x) => Has(q, x)
      /\ \A x : Has(q, x) /\ x # h => Has(t, x)
      /\ h \notin Repeats => ~Has(t, h)
  BY Popped DEF ListFor
<1>2. Chains(q) /\ Chains(t) /\ Before(q)
  BY <1>1, Chained, Behind DEF ListFor
<1>3. h \in Of[op] /\ ListFor(t, op)
  BY <1>1 DEF ListFor
<1> HIDE DEF t, h
<1>4. h \notin Telling => Same(q, t)
  BY <1>1 DEF Telling, Same, Hand, Leases, Resumed, Fixed, Owes
<1>5. /\ \A x \in Steps : Has(q, x) => x \in Of[op]
      /\ Has(q, "build") => ~Has(q, "lease")
  BY DEF ListFor
<1>6. Telling \cap Repeats = {} /\ Telling \subseteq Steps
  BY DEF Telling, Repeats, Steps
<1>7. /\ h \in {"lease", "build", "reset", "unlease", "publish"} => op = "seed"
      /\ h = "detach" => op \in {"verify", "end"}
      /\ h = "use" => op = "tool"
      /\ op = "seed" => "detach" \notin Of[op] /\ "use" \notin Of[op]
      /\ op \in {"verify", "end"} => {"lease", "build", "reset", "unlease", "publish", "use"} \cap Of[op] = {}
      /\ op = "tool" => {"lease", "build", "reset", "unlease", "publish", "detach", "close_env", "reserve"} \cap Of[op] = {}
      /\ "close_env" \in Of[op] => "use" \notin Of[op]
  BY <1>3 DEF Of, Ops, Common
<1>8. {"detach", "use", "lease", "build", "reset", "unlease", "publish", "close_env", "reserve"} \subseteq Steps
  BY DEF Steps
<1>9. CASE h = "reserve"
  <2>1. ~Has(t, "reserve") /\ Has(q, "reserve") /\ (Has(q, "lease") \/ Has(q, "detach"))
    BY <1>9, <1>1, <1>2, <1>6 DEF Telling, Chains
  <2>2. /\ Has(q, "lease") => op = "seed" /\ ~Has(q, "build")
        /\ op = "seed" => ~Has(q, "detach")
        /\ Has(q, "detach") => /\ ~Has(q, "lease") /\ ~Has(q, "build") /\ ~Has(q, "unlease") /\ ~Has(q, "publish")
    BY <1>5, <1>7, <1>8 DEF Of, Common, Ops
  <2>3. Has(q, "lease") => Has(q, "reset") /\ Has(q, "close_env")
    BY <1>2 DEF Chains
  <2>4. Has(t, "close_env") /\ (Has(t, "lease") \/ Has(t, "detach"))
    BY <2>1, <2>3, <1>1, <1>2, <1>9 DEF Chains
  <2> QED BY <2>1, <2>2, <2>3, <2>4, <1>9, <1>1, <1>3 DEF Turn, Telling, Chains, Hand, Leases, Resumed, Fixed, Owes, t, h
<1>10. CASE h = "lease"
  <2>1. ~Has(t, "lease") /\ Has(q, "lease") /\ ~Has(q, "build") /\ ~Has(q, "detach") /\ ~Has(q, "use")
    BY <1>10, <1>1, <1>5, <1>6, <1>7, <1>8 DEF Telling
  <2>2. Has(q, "reset") /\ Has(q, "unlease") /\ Has(q, "close_env") /\ ~Has(t, "reserve") /\ ~Has(q, "reserve")
    BY <2>1, <1>10, <1>1, <1>2 DEF Chains
  <2>3. Has(t, "reset") /\ Has(t, "unlease") /\ Has(t, "close_env") /\ ~Has(t, "build") /\ ~Has(t, "detach") /\ ~Has(t, "use")
    BY <2>1, <2>2, <1>10, <1>1
  <2> QED BY <1>10, <2>1, <2>2, <2>3, <1>7, <1>3 DEF Turn, Telling, Hand, Leases, Resumed, Fixed, Owes, t, h
<1>11. CASE h = "build"
  <2>1. ~Has(t, "build") /\ Has(q, "build") /\ ~Has(q, "lease") /\ ~Has(q, "detach") /\ ~Has(q, "use")
    BY <1>11, <1>1, <1>5, <1>6, <1>7, <1>8 DEF Telling
  <2>2. Has(q, "reset") /\ Has(q, "unlease") /\ Has(q, "close_env") /\ ~Has(q, "reserve")
    BY <2>1, <1>2 DEF Chains
  <2>3. /\ Has(t, "reset") /\ Has(t, "unlease") /\ Has(t, "close_env")
        /\ ~Has(t, "lease") /\ ~Has(t, "detach") /\ ~Has(t, "use") /\ ~Has(t, "reserve")
    BY <2>1, <2>2, <1>11, <1>1
  <2> QED BY <1>11, <2>1, <2>2, <2>3, <1>7, <1>3 DEF Turn, Telling, Hand, Leases, Resumed, Fixed, Owes, t, h
<1>12. CASE h = "reset"
  <2>1. ~Has(t, "reset") /\ Has(q, "reset") /\ ~Has(q, "lease") /\ ~Has(q, "build") /\ ~Has(q, "detach") /\ ~Has(q, "use")
    BY <1>12, <1>1, <1>2, <1>5, <1>6, <1>7, <1>8 DEF Telling, Before, h
  <2>2. Has(q, "publish") /\ Has(q, "unlease") /\ Has(q, "close_env") /\ ~Has(q, "reserve")
    BY <2>1, <1>2 DEF Chains
  <2>3. /\ Has(t, "publish") /\ Has(t, "unlease") /\ Has(t, "close_env") /\ ~Has(t, "build")
        /\ ~Has(t, "lease") /\ ~Has(t, "detach") /\ ~Has(t, "use") /\ ~Has(t, "reserve")
    BY <2>1, <2>2, <1>12, <1>1
  <2> QED BY <1>12, <2>1, <2>2, <2>3, <1>7, <1>3 DEF Turn, Telling, Hand, Leases, Resumed, Fixed, Owes, t, h
<1>13. CASE h = "unlease"
  <2>1. ~Has(t, "unlease") /\ Has(q, "unlease") /\ ~Has(q, "lease") /\ ~Has(q, "build") /\ ~Has(q, "detach") /\ ~Has(q, "use")
    BY <1>13, <1>1, <1>2, <1>5, <1>6, <1>7, <1>8 DEF Telling, Before, h
  <2> QED BY <1>13, <2>1, <1>1, <1>7, <1>3 DEF Turn, Telling, Hand, Leases, Resumed, Fixed, Owes, t, h
<1>14. CASE h = "publish"
  <2>1. ~Has(t, "publish") /\ Has(q, "publish") /\ ~Has(q, "reset") /\ ~Has(q, "detach") /\ ~Has(q, "use")
    BY <1>14, <1>1, <1>2, <1>5, <1>6, <1>7, <1>8 DEF Telling, Before, h
  <2>2. Has(q, "close_env") /\ ~Has(q, "lease") /\ ~Has(q, "build") /\ ~Has(q, "reserve")
    BY <2>1, <1>2 DEF Chains
  <2> QED BY <1>14, <2>1, <2>2, <1>1, <1>7, <1>3 DEF Turn, Telling, Hand, Leases, Resumed, Fixed, Owes, t, h
<1>15. CASE h = "close_env"
  <2>1. ~Has(t, "close_env") /\ Has(q, "close_env") /\ ~Has(q, "unlease") /\ ~Has(q, "publish") /\ ~Has(q, "detach") /\ ~Has(q, "use")
    BY <1>15, <1>1, <1>2, <1>3, <1>5, <1>6, <1>7, <1>8 DEF Telling, Before, h
  <2>2. ~Has(q, "lease") /\ ~Has(q, "reserve")
    BY <2>1, <1>2 DEF Chains
  <2> QED BY <1>15, <2>1, <2>2, <1>1, <1>7, <1>3 DEF Turn, Telling, Hand, Leases, Resumed, Fixed, Owes, t, h
<1>16. CASE h = "detach"
  <2>1. /\ ~Has(t, "detach") /\ Has(q, "detach") /\ ~Has(q, "lease") /\ ~Has(q, "unlease") /\ ~Has(q, "publish") /\ ~Has(q, "use")
    BY <1>16, <1>1, <1>3, <1>5, <1>6, <1>7, <1>8 DEF Telling
  <2>2. Has(q, "close_env") /\ ~Has(t, "lease") /\ ~Has(t, "reserve") /\ ~Has(q, "reserve")
    BY <2>1, <1>16, <1>1, <1>2 DEF Chains
  <2> QED BY <1>16, <2>1, <2>2, <1>1, <1>7, <1>3 DEF Turn, Telling, Hand, Leases, Resumed, Fixed, Owes, t, h
<1>17. CASE h = "use"
  <2>1. /\ ~Has(t, "use") /\ Has(q, "use") /\ ~Has(q, "detach") /\ ~Has(q, "unlease") /\ ~Has(q, "publish") /\ ~Has(q, "close_env")
    BY <1>17, <1>1, <1>3, <1>5, <1>6, <1>7, <1>8 DEF Telling
  <2> QED BY <1>17, <2>1, <1>1, <1>7, <1>3 DEF Turn, Telling, Hand, Leases, Resumed, Fixed, Owes, t, h
<1>18. h \in Telling <=> h \in {"reserve", "lease", "build", "reset", "unlease", "publish", "close_env", "detach", "use"}
  BY DEF Telling
<1>19. CASE h \notin Telling
  BY <1>19, <1>18, <1>4, <1>3 DEF Turn, t, h
<1> QED BY <1>9, <1>10, <1>11, <1>12, <1>13, <1>14, <1>15, <1>16, <1>17, <1>18, <1>19 DEF t, h

--------------------------------------------------------------------------------
(* The plans.                                                                   *)

\* The empty list is one of any call.
LEMMA NoneFor ==
    ASSUME NEW op \in Ops
    PROVE  ListFor(<<>>, op) /\ \A x : ~Has(<<>>, x)
<1>1. <<>> \in Seq(Steps) /\ Len(<<>>) = 0
  OBVIOUS
<1>2. \A x : ~Has(<<>>, x)
  BY <1>1 DEF Has
<1> QED BY <1>1, <1>2 DEF ListFor, ListOK, Once, Ordered, Firsts, Lasts, Reaps, Drains

\* What a list holds, from the list in full.
Joins(p, q, r) ==
    /\ Len(r) = Len(p) + Len(q)
    /\ \A i \in 1 .. Len(p) : r[i] = p[i]
    /\ \A i \in 1 .. Len(q) : r[Len(p) + i] = q[i]

\* A plan that is put together of parts, written out.
LEMMA Flat ==
    ASSUME NEW p \in Seq(Steps), NEW q \in Seq(Steps), NEW r \in Seq(Steps), Joins(p, q, r)
    PROVE  p \o q = r
<1>1. /\ p \o q \in Seq(Steps) /\ Len(p \o q) = Len(p) + Len(q)
      /\ \A i \in 1 .. Len(p) + Len(q) : (p \o q)[i] = IF i <= Len(p) THEN p[i] ELSE q[i - Len(p)]
  BY ConcatProperties
<1>2. \A i \in 1 .. Len(r) : (p \o q)[i] = r[i]
  <2> TAKE i \in 1 .. Len(r)
  <2>1. CASE i <= Len(p)
    BY <2>1, <1>1 DEF Joins
  <2>2. CASE ~(i <= Len(p))
    <3>1. i - Len(p) \in 1 .. Len(q) /\ Len(p) + (i - Len(p)) = i
      BY <2>2 DEF Joins
    <3> QED BY <2>2, <3>1, <1>1 DEF Joins
  <2> QED BY <2>1, <2>2
<1> QED BY <1>1, <1>2, SeqEqual DEF Joins

SeedFlat == <<"drain_envs", "drain_snaps", "evict", "drain_snaps", "reserve", "lease", "reset", "unlease", "evict",
              "drain_snaps", "publish", "close_env", "release", "leave">>
VerifyFlat == <<"drain_envs", "drain_snaps", "evict", "drain_snaps", "reserve", "evaluate", "detach", "close_env",
                "release", "leave">>
EndFlat == <<"drain_envs", "drain_snaps", "evict", "drain_snaps", "reserve", "detach", "close_env", "release", "leave">>
UndoneFlat == <<"close_env", "release", "leave">>
ResetUndoneFlat == <<"unlease", "evict", "drain_snaps", "close_env", "release", "leave">>

LEMMA Flattened ==
    /\ SeedSteps = SeedFlat /\ VerifySteps = VerifyFlat /\ EndSteps = EndFlat
    /\ SeedUndone = UndoneFlat /\ ResetUndone = ResetUndoneFlat
<1> DEFINE rest == <<"lease", "reset", "unlease", "evict", "drain_snaps", "publish", "close_env">>
           v == <<"evaluate", "detach", "close_env">>
           e == <<"detach", "close_env">>
           ar == <<"drain_envs", "drain_snaps", "evict", "drain_snaps", "reserve", "lease", "reset", "unlease", "evict",
              "drain_snaps", "publish", "close_env">>
           av == <<"drain_envs", "drain_snaps", "evict", "drain_snaps", "reserve", "evaluate", "detach", "close_env">>
           ae == <<"drain_envs", "drain_snaps", "evict", "drain_snaps", "reserve", "detach", "close_env">>
           u == <<"unlease", "evict", "drain_snaps">>
           ce == <<"close_env">>
<1>1. /\ Admission \in Seq(Steps) /\ Leave \in Seq(Steps) /\ rest \in Seq(Steps) /\ v \in Seq(Steps)
      /\ e \in Seq(Steps) /\ ar \in Seq(Steps) /\ av \in Seq(Steps) /\ ae \in Seq(Steps) /\ u \in Seq(Steps)
      /\ ce \in Seq(Steps)
  BY DEF Admission, Leave, Steps
<1>2. /\ SeedFlat \in Seq(Steps) /\ VerifyFlat \in Seq(Steps) /\ EndFlat \in Seq(Steps)
      /\ UndoneFlat \in Seq(Steps) /\ ResetUndoneFlat \in Seq(Steps)
  BY DEF SeedFlat, VerifyFlat, EndFlat, UndoneFlat, ResetUndoneFlat, Steps
<1>3. Admission \o rest = ar
  <2>1. Len(Admission) = 5 /\ Len(rest) = 7 /\ Len(ar) = 12
    BY DEF Admission
  <2>2. /\ \A i \in 1 .. 5 : ar[i] = Admission[i]
        /\ \A i \in 1 .. 7 : ar[5 + i] = rest[i]
    BY DEF Admission
  <2>3. Joins(Admission, rest, ar)
    BY <2>1, <2>2 DEF Joins
  <2> HIDE DEF rest, v, e, ar, av, ae, u, ce
  <2> QED BY <2>3, <1>1, Flat
<1>4. Admission \o v = av
  <2>1. Len(Admission) = 5 /\ Len(v) = 3 /\ Len(av) = 8
    BY DEF Admission
  <2>2. /\ \A i \in 1 .. 5 : av[i] = Admission[i]
        /\ \A i \in 1 .. 3 : av[5 + i] = v[i]
    BY DEF Admission
  <2>3. Joins(Admission, v, av)
    BY <2>1, <2>2 DEF Joins
  <2> HIDE DEF rest, v, e, ar, av, ae, u, ce
  <2> QED BY <2>3, <1>1, Flat
<1>5. Admission \o e = ae
  <2>1. Len(Admission) = 5 /\ Len(e) = 2 /\ Len(ae) = 7
    BY DEF Admission
  <2>2. /\ \A i \in 1 .. 5 : ae[i] = Admission[i]
        /\ \A i \in 1 .. 2 : ae[5 + i] = e[i]
    BY DEF Admission
  <2>3. Joins(Admission, e, ae)
    BY <2>1, <2>2 DEF Joins
  <2> HIDE DEF rest, v, e, ar, av, ae, u, ce
  <2> QED BY <2>3, <1>1, Flat
<1>6. ar \o Leave = SeedFlat
  <2>1. Len(ar) = 12 /\ Len(Leave) = 2 /\ Len(SeedFlat) = 14
    BY DEF Leave, SeedFlat
  <2>2. /\ \A i \in 1 .. 12 : SeedFlat[i] = ar[i]
        /\ \A i \in 1 .. 2 : SeedFlat[12 + i] = Leave[i]
    BY DEF Leave, SeedFlat
  <2>3. Joins(ar, Leave, SeedFlat)
    BY <2>1, <2>2 DEF Joins
  <2> HIDE DEF rest, v, e, ar, av, ae, u, ce
  <2> QED BY <2>3, <1>1, <1>2, Flat
<1>7. av \o Leave = VerifyFlat
  <2>1. Len(av) = 8 /\ Len(Leave) = 2 /\ Len(VerifyFlat) = 10
    BY DEF Leave, VerifyFlat
  <2>2. /\ \A i \in 1 .. 8 : VerifyFlat[i] = av[i]
        /\ \A i \in 1 .. 2 : VerifyFlat[8 + i] = Leave[i]
    BY DEF Leave, VerifyFlat
  <2>3. Joins(av, Leave, VerifyFlat)
    BY <2>1, <2>2 DEF Joins
  <2> HIDE DEF rest, v, e, ar, av, ae, u, ce
  <2> QED BY <2>3, <1>1, <1>2, Flat
<1>8. ae \o Leave = EndFlat
  <2>1. Len(ae) = 7 /\ Len(Leave) = 2 /\ Len(EndFlat) = 9
    BY DEF Leave, EndFlat
  <2>2. /\ \A i \in 1 .. 7 : EndFlat[i] = ae[i]
        /\ \A i \in 1 .. 2 : EndFlat[7 + i] = Leave[i]
    BY DEF Leave, EndFlat
  <2>3. Joins(ae, Leave, EndFlat)
    BY <2>1, <2>2 DEF Joins
  <2> HIDE DEF rest, v, e, ar, av, ae, u, ce
  <2> QED BY <2>3, <1>1, <1>2, Flat
<1>9. ce \o Leave = UndoneFlat
  <2>1. Len(ce) = 1 /\ Len(Leave) = 2 /\ Len(UndoneFlat) = 3
    BY DEF Leave, UndoneFlat
  <2>2. /\ \A i \in 1 .. 1 : UndoneFlat[i] = ce[i]
        /\ \A i \in 1 .. 2 : UndoneFlat[1 + i] = Leave[i]
    BY DEF Leave, UndoneFlat
  <2>3. Joins(ce, Leave, UndoneFlat)
    BY <2>1, <2>2 DEF Joins
  <2> HIDE DEF rest, v, e, ar, av, ae, u, ce
  <2> QED BY <2>3, <1>1, <1>2, Flat
<1>10. u \o UndoneFlat = ResetUndoneFlat
  <2>1. Len(u) = 3 /\ Len(UndoneFlat) = 3 /\ Len(ResetUndoneFlat) = 6
    BY DEF UndoneFlat, ResetUndoneFlat
  <2>2. /\ \A i \in 1 .. 3 : ResetUndoneFlat[i] = u[i]
        /\ \A i \in 1 .. 3 : ResetUndoneFlat[3 + i] = UndoneFlat[i]
    BY DEF UndoneFlat, ResetUndoneFlat
  <2>3. Joins(u, UndoneFlat, ResetUndoneFlat)
    BY <2>1, <2>2 DEF Joins
  <2> HIDE DEF rest, v, e, ar, av, ae, u, ce
  <2> QED BY <2>3, <1>1, <1>2, Flat
<1> HIDE DEF rest, v, e, ar, av, ae, u, ce
<1>11. /\ SeedSteps = (Admission \o rest) \o Leave /\ VerifySteps = (Admission \o v) \o Leave
       /\ EndSteps = (Admission \o e) \o Leave /\ SeedUndone = ce \o Leave /\ ResetUndone = u \o SeedUndone
  BY DEF SeedSteps, VerifySteps, EndSteps, SeedUndone, ResetUndone, rest, v, e, u, ce
<1> QED BY <1>3, <1>4, <1>5, <1>6, <1>7, <1>8, <1>9, <1>10, <1>11

Bare(q) == ~Hand(q) /\ ~Leases(q) /\ ~Resumed(q) /\ ~Fixed(q) /\ ~Owes(q) /\ ~Has(q, "build") /\ ~Has(q, "again")

\* Every plan obeys the rules, and holds what its call does where it is adopted.
LEMMA SeedPlan ==
    /\ ListFor(SeedSteps, "seed") /\ Bare(SeedSteps)
    /\ ListFor(SeedUndone, "seed") /\ Hand(SeedUndone) /\ Owes(SeedUndone) /\ ~Leases(SeedUndone) /\ ~Resumed(SeedUndone)
    /\ ~Fixed(SeedUndone) /\ ~Has(SeedUndone, "build") /\ ~Has(SeedUndone, "again") /\ ~Has(SeedUndone, "reset")
    /\ ListFor(ResetUndone, "seed") /\ Hand(ResetUndone) /\ Owes(ResetUndone) /\ Leases(ResetUndone) /\ ~Resumed(ResetUndone)
    /\ ~Fixed(ResetUndone) /\ ~Has(ResetUndone, "build") /\ ~Has(ResetUndone, "again") /\ ~Has(ResetUndone, "reset")
<1>1. /\ SeedFlat \in Seq(Steps) /\ Len(SeedFlat) = 14
      /\ UndoneFlat \in Seq(Steps) /\ Len(UndoneFlat) = 3
      /\ ResetUndoneFlat \in Seq(Steps) /\ Len(ResetUndoneFlat) = 6
  BY DEF SeedFlat, UndoneFlat, ResetUndoneFlat, Steps
<1>2. /\ \A x : Has(SeedFlat, x) <=> x \in {"drain_envs", "drain_snaps", "evict", "reserve", "lease", "reset", "unlease",
                                            "publish", "close_env", "release", "leave"}
  BY <1>1 DEF SeedFlat, Has
<1>3. \A x : Has(UndoneFlat, x) <=> x \in {"close_env", "release", "leave"}
  BY <1>1 DEF UndoneFlat, Has
<1>4. \A x : Has(ResetUndoneFlat, x) <=> x \in {"unlease", "evict", "drain_snaps", "close_env", "release", "leave"}
  BY <1>1 DEF ResetUndoneFlat, Has
<1>5. ListOK(SeedFlat)
  <2>1. Once(SeedFlat)
    BY <1>1, SMTT(30) DEF SeedFlat, Repeats, Once
  <2>2. Ordered(SeedFlat)
    BY <1>1, SMTT(30) DEF SeedFlat, Follows, Ordered
  <2>3. Firsts(SeedFlat) /\ Lasts(SeedFlat) /\ Reaps(SeedFlat) /\ Drains(SeedFlat)
    BY <1>1, SMTT(30) DEF SeedFlat, Firsts, Lasts, Reaps, Drains
  <2> QED BY <2>1, <2>2, <2>3, <1>1 DEF ListOK
<1>6. ListOK(UndoneFlat)
  BY <1>1, SMTT(30) DEF ListOK, Once, Ordered, Firsts, Lasts, Reaps, Drains, UndoneFlat, Repeats, Follows
<1>7. ListOK(ResetUndoneFlat)
  BY <1>1, SMTT(30) DEF ListOK, Once, Ordered, Firsts, Lasts, Reaps, Drains, ResetUndoneFlat, Repeats, Follows
<1>8. {"drain_envs", "drain_snaps", "evict", "reserve", "lease", "reset", "unlease",
       "publish", "close_env", "release", "leave"} \subseteq Of["seed"]
  BY DEF Of, Common
<1> HIDE DEF Has
<1> QED BY <1>2, <1>3, <1>4, <1>5, <1>6, <1>7, <1>8, Flattened DEF ListFor, Bare, Hand, Leases, Resumed, Fixed, Owes

LEMMA VerifyPlan ==
    /\ ListFor(VerifySteps, "verify") /\ Fixed(VerifySteps) /\ ~Hand(VerifySteps) /\ ~Leases(VerifySteps) /\ ~Resumed(VerifySteps)
    /\ ~Owes(VerifySteps) /\ ~Has(VerifySteps, "build") /\ ~Has(VerifySteps, "again")
    /\ ListFor(EndSteps, "end") /\ Fixed(EndSteps) /\ ~Hand(EndSteps) /\ ~Leases(EndSteps) /\ ~Resumed(EndSteps)
    /\ ~Owes(EndSteps) /\ ~Has(EndSteps, "build") /\ ~Has(EndSteps, "again")
<1>1. /\ VerifyFlat \in Seq(Steps) /\ Len(VerifyFlat) = 10
      /\ EndFlat \in Seq(Steps) /\ Len(EndFlat) = 9
  BY DEF VerifyFlat, EndFlat, Steps
<1>2. \A x : Has(VerifyFlat, x) <=> x \in {"drain_envs", "drain_snaps", "evict", "reserve", "evaluate", "detach", "close_env",
                                           "release", "leave"}
  BY <1>1 DEF VerifyFlat, Has
<1>3. \A x : Has(EndFlat, x) <=> x \in {"drain_envs", "drain_snaps", "evict", "reserve", "detach", "close_env", "release", "leave"}
  BY <1>1 DEF EndFlat, Has
<1>4. ListOK(VerifyFlat)
  <2>1. Once(VerifyFlat)
    BY <1>1, SMTT(30) DEF VerifyFlat, Repeats, Once
  <2>2. Ordered(VerifyFlat)
    BY <1>1, SMTT(30) DEF VerifyFlat, Follows, Ordered
  <2>3. Firsts(VerifyFlat) /\ Lasts(VerifyFlat) /\ Reaps(VerifyFlat) /\ Drains(VerifyFlat)
    BY <1>1, SMTT(30) DEF VerifyFlat, Firsts, Lasts, Reaps, Drains
  <2> QED BY <2>1, <2>2, <2>3, <1>1 DEF ListOK
<1>5. ListOK(EndFlat)
  <2>1. Once(EndFlat)
    BY <1>1, SMTT(30) DEF EndFlat, Repeats, Once
  <2>2. Ordered(EndFlat)
    BY <1>1, SMTT(30) DEF EndFlat, Follows, Ordered
  <2>3. Firsts(EndFlat) /\ Lasts(EndFlat) /\ Reaps(EndFlat) /\ Drains(EndFlat)
    BY <1>1, SMTT(30) DEF EndFlat, Firsts, Lasts, Reaps, Drains
  <2> QED BY <2>1, <2>2, <2>3, <1>1 DEF ListOK
<1>6. /\ {"drain_envs", "drain_snaps", "evict", "reserve", "evaluate", "detach", "close_env", "release", "leave"} \subseteq Of["verify"]
      /\ {"drain_envs", "drain_snaps", "evict", "reserve", "detach", "close_env", "release", "leave"} \subseteq Of["end"]
  BY DEF Of, Common
<1> HIDE DEF Has
<1> QED BY <1>2, <1>3, <1>4, <1>5, <1>6, Flattened DEF ListFor, Hand, Leases, Resumed, Fixed, Owes

LEMMA OtherPlans ==
    /\ \A op \in {"seed", "verify", "end", "tool", "maintain"} : ListFor(<<"leave">>, op)
    /\ Bare(<<"leave">>)
    /\ \A op \in {"seed", "verify", "end", "tool"} : ListFor(<<"lock">>, op)
    /\ Bare(<<"lock">>) /\ Has(<<"lock">>, "lock") /\ ~Has(<<"leave">>, "lock")
    /\ ListFor(<<"use", "leave">>, "tool") /\ Fixed(<<"use", "leave">>) /\ ~Hand(<<"use", "leave">>)
    /\ ~Leases(<<"use", "leave">>) /\ ~Resumed(<<"use", "leave">>) /\ ~Owes(<<"use", "leave">>)
    /\ ~Has(<<"use", "leave">>, "build") /\ ~Has(<<"use", "leave">>, "again")
    /\ ListFor(Maintenance, "maintain") /\ Bare(Maintenance)
<1>1. /\ \A x : Has(<<"leave">>, x) <=> x = "leave"
      /\ \A x : Has(<<"lock">>, x) <=> x = "lock"
      /\ \A x : Has(<<"use", "leave">>, x) <=> x \in {"use", "leave"}
      /\ \A x : Has(Maintenance, x) <=> x \in {"reap", "evict", "drain_snaps", "drain_envs", "leave"}
  BY DEF Has, Maintenance
<1>2. ListOK(<<"leave">>) /\ ListOK(<<"lock">>) /\ ListOK(<<"use", "leave">>)
  BY DEF ListOK, Once, Ordered, Firsts, Lasts, Reaps, Drains, Repeats, Follows, Steps
<1>3. ListOK(Maintenance)
  BY SMTT(30) DEF ListOK, Once, Ordered, Firsts, Lasts, Reaps, Drains, Repeats, Follows, Steps, Maintenance
<1>4. /\ \A op \in {"seed", "verify", "end", "tool", "maintain"} : "leave" \in Of[op]
      /\ \A op \in {"seed", "verify", "end", "tool"} : "lock" \in Of[op]
      /\ {"use", "leave"} \subseteq Of["tool"]
      /\ {"reap", "evict", "drain_snaps", "drain_envs", "leave"} \subseteq Of["maintain"]
  BY DEF Of, Common
<1> HIDE DEF Has
<1> QED BY <1>1, <1>2, <1>3, <1>4 DEF ListFor, Bare, Hand, Leases, Resumed, Fixed, Owes

LEMMA ClosePlans ==
    /\ ListFor(<<"begin">>, "close") /\ Bare(<<"begin">>) /\ Has(<<"begin">>, "begin")
    /\ ListFor(ClosingSteps, "close") /\ Bare(ClosingSteps) /\ Has(ClosingSteps, "drained")
    /\ ListFor(<<"closed", "drained", "verdict">>, "close") /\ Bare(<<"closed", "drained", "verdict">>)
    /\ Has(<<"closed", "drained", "verdict">>, "drained")
<1>1. /\ \A x : Has(<<"begin">>, x) <=> x = "begin"
      /\ \A x : Has(ClosingSteps, x) <=> x \in {"drained", "publish_closed", "verdict"}
      /\ \A x : Has(<<"closed", "drained", "verdict">>, x) <=> x \in {"closed", "drained", "verdict"}
  BY DEF Has, ClosingSteps
<1>2. ListOK(<<"begin">>) /\ ListOK(ClosingSteps) /\ ListOK(<<"closed", "drained", "verdict">>)
  BY DEF ListOK, Once, Ordered, Firsts, Lasts, Reaps, Drains, Repeats, Follows, Steps, ClosingSteps
<1>3. {"begin", "drained", "publish_closed", "verdict", "closed"} \subseteq Of["close"]
  BY DEF Of
<1> HIDE DEF Has
<1> QED BY <1>1, <1>2, <1>3 DEF ListFor, Bare, Hand, Leases, Resumed, Fixed, Owes

\* When steps may be put before a list.
Joinable(p, q) ==
    /\ \A i, j \in 1 .. Len(p) : i < j => p[i] # p[j]
    /\ \A x : Has(p, x) => ~Has(q, x)
    /\ \A i \in 1 .. Len(p), f \in Follows : p[i] = f[1] =>
           (\E j \in i + 1 .. Len(p) : p[j] \in f[2]) \/ (\E y \in f[2] : Has(q, y))
    /\ \A i \in 1 .. Len(p) : p[i] \in {"lock", "build", "begin"} => i = 1
    /\ \A x \in {"drained", "reap", "leave", "verdict", "lock", "begin"} : ~Has(p, x)
    /\ \A x \in {"lock", "build", "begin", "drained"} : ~Has(q, x)

LEMMA JoinOK ==
    ASSUME NEW p \in Seq(Steps), NEW q, ListOK(q), Joinable(p, q)
    PROVE  /\ ListOK(p \o q)
           /\ \A x : Has(p \o q, x) <=> Has(p, x) \/ Has(q, x)
<1>0. /\ \A i, j \in 1 .. Len(p) : i < j => p[i] # p[j]
      /\ \A x : Has(p, x) => ~Has(q, x)
      /\ \A i \in 1 .. Len(p), f \in Follows : p[i] = f[1] =>
             (\E j \in i + 1 .. Len(p) : p[j] \in f[2]) \/ (\E y \in f[2] : Has(q, y))
      /\ \A i \in 1 .. Len(p) : p[i] \in {"lock", "build", "begin"} => i = 1
      /\ \A x \in {"drained", "reap", "leave", "verdict", "lock", "begin"} : ~Has(p, x)
      /\ \A x \in {"lock", "build", "begin", "drained"} : ~Has(q, x)
  BY DEF Joinable
<1> DEFINE r == p \o q
           n == Len(p)
<1>1. /\ q \in Seq(Steps) /\ Len(q) \in Nat /\ n \in Nat
      /\ r \in Seq(Steps) /\ Len(r) = n + Len(q)
      /\ \A i \in 1 .. Len(r) : r[i] = IF i <= n THEN p[i] ELSE q[i - n]
  BY ConcatProperties DEF ListOK
<1>2. ASSUME NEW i \in 1 .. Len(r)
      PROVE  (i \in 1 .. n /\ r[i] = p[i]) \/ (i > n /\ i - n \in 1 .. Len(q) /\ r[i] = q[i - n])
  <2> HIDE DEF r, n
  <2> QED BY <1>1
<1>3. /\ \A i \in 1 .. n : i \in 1 .. Len(r) /\ r[i] = p[i]
      /\ \A i \in 1 .. Len(q) : n + i \in 1 .. Len(r) /\ n + i > n /\ (n + i) - n = i /\ r[n + i] = q[i]
  <2> HIDE DEF r, n
  <2>1. \A i \in 1 .. n : i \in 1 .. Len(r) /\ r[i] = p[i]
    BY <1>1
  <2>2. \A i \in 1 .. Len(q) : n + i \in 1 .. Len(r) /\ n + i > n /\ (n + i) - n = i /\ ~(n + i <= n)
    BY <1>1
  <2> QED BY <2>1, <2>2, <1>1
<1>4. /\ \A i \in 1 .. n : Has(p, p[i])
      /\ \A i \in 1 .. Len(q) : Has(q, q[i])
      /\ \A x : Has(p, x) => \E i \in 1 .. n : p[i] = x
  BY DEF Has
<1> HIDE DEF r, n
<1>5. \A x : Has(r, x) <=> Has(p, x) \/ Has(q, x)
  <2>1. ASSUME NEW x, Has(r, x) PROVE Has(p, x) \/ Has(q, x)
    <3>1. PICK i \in 1 .. Len(r) : r[i] = x
      BY <2>1 DEF Has
    <3> QED BY <3>1, <1>2, <1>4
  <2>2. ASSUME NEW x, Has(p, x) PROVE Has(r, x)
    <3>1. PICK i \in 1 .. n : p[i] = x
      BY <2>2, <1>4
    <3> QED BY <3>1, <1>3 DEF Has
  <2>3. ASSUME NEW x, Has(q, x) PROVE Has(r, x)
    <3>1. PICK i \in 1 .. Len(q) : q[i] = x
      BY <2>3 DEF Has
    <3> QED BY <3>1, <1>3 DEF Has
  <2> QED BY <2>1, <2>2, <2>3
<1>6. Once(r)
  <2> SUFFICES ASSUME NEW i \in 1 .. Len(r), NEW j \in 1 .. Len(r), i < j, r[i] = r[j]
               PROVE  r[i] \in Repeats
    BY DEF Once
  <2>1. CASE i \in 1 .. n /\ j \in 1 .. n
    BY <2>1, <1>3, <1>0 DEF n
  <2>2. CASE i \in 1 .. n /\ j - n \in 1 .. Len(q) /\ r[j] = q[j - n]
    <3>1. Has(p, r[i]) /\ Has(q, r[j])
      BY <2>2, <1>3, <1>4
    <3> QED BY <3>1, <1>0
  <2>3. CASE i > n /\ i - n \in 1 .. Len(q) /\ r[i] = q[i - n] /\ j - n \in 1 .. Len(q) /\ r[j] = q[j - n]
    <3>1. i - n < j - n
      BY <1>1
    <3> QED BY <2>3, <3>1 DEF ListOK, Once
  <2>4. i > n => ~(j \in 1 .. n)
    BY <1>1
  <2> QED BY <2>1, <2>2, <2>3, <2>4, <1>2
<1>7. Ordered(r)
  <2> SUFFICES ASSUME NEW i \in 1 .. Len(r), NEW f \in Follows, r[i] = f[1]
               PROVE  \E j \in i + 1 .. Len(r) : r[j] \in f[2]
    BY DEF Ordered
  <2>1. CASE i \in 1 .. n
    <3>1. CASE \E j \in i + 1 .. n : p[j] \in f[2]
      <4>1. PICK j \in i + 1 .. n : p[j] \in f[2]
        BY <3>1
      <4>2. j \in 1 .. n /\ j \in i + 1 .. Len(r)
        BY <1>1, <2>1
      <4> QED BY <4>1, <4>2, <1>3
    <3>2. CASE \E y \in f[2] : Has(q, y)
      <4>1. PICK j \in 1 .. Len(q) : q[j] \in f[2]
        BY <3>2 DEF Has
      <4>2. n + j \in i + 1 .. Len(r) /\ r[n + j] = q[j]
        BY <1>1, <1>3, <2>1
      <4> QED BY <4>1, <4>2
    <3> QED BY <2>1, <1>3, <3>1, <3>2, <1>0 DEF n
  <2>2. CASE i > n /\ i - n \in 1 .. Len(q) /\ r[i] = q[i - n]
    <3>1. PICK j \in (i - n) + 1 .. Len(q) : q[j] \in f[2]
      BY <2>2 DEF ListOK, Ordered
    <3>2. j \in 1 .. Len(q) /\ n + j \in i + 1 .. Len(r)
      BY <1>1, <2>2
    <3> QED BY <3>1, <3>2, <1>3
  <2> QED BY <2>1, <2>2, <1>2
<1>8. Firsts(r)
  <2> SUFFICES ASSUME NEW i \in 1 .. Len(r), r[i] \in {"lock", "build", "begin"} PROVE i = 1
    BY DEF Firsts
  <2>1. i \in 1 .. n /\ r[i] = p[i]
    BY <1>2, <1>4, <1>0
  <2> QED BY <2>1, <1>0 DEF n
<1>9. Drains(r)
  BY <1>2, <1>4, <1>0 DEF Drains
<1>10. Reaps(r)
  <2> SUFFICES ASSUME NEW i \in 1 .. Len(r), NEW j \in 1 .. Len(r), i < j, r[i] = "reap"
               PROVE  r[j] \notin {"close_env", "release", "unlock"}
    BY DEF Reaps
  <2>1. i > n /\ i - n \in 1 .. Len(q) /\ r[i] = q[i - n]
    BY <1>2, <1>4, <1>0
  <2>2. ~(j \in 1 .. n) /\ i - n < j - n
    BY <2>1, <1>1
  <2>3. j - n \in 1 .. Len(q) /\ r[j] = q[j - n]
    BY <2>2, <1>2
  <2> QED BY <2>1, <2>2, <2>3 DEF ListOK, Reaps
<1>11. Lasts(r)
  <2> SUFFICES ASSUME NEW i \in 1 .. Len(r), r[i] \in {"leave", "verdict", "lock", "begin"} PROVE i = Len(r)
    BY DEF Lasts
  <2>1. i - n \in 1 .. Len(q) /\ q[i - n] \in {"leave", "verdict", "lock", "begin"}
    BY <1>2, <1>4, <1>0
  <2>2. i - n = Len(q)
    BY <2>1 DEF ListOK, Lasts
  <2> QED BY <2>2, <1>1
<1> QED BY <1>1, <1>5, <1>6, <1>7, <1>8, <1>9, <1>10, <1>11 DEF ListOK, r

\* A golden is to be built before the reset.
LEMMA BuildFirst ==
    ASSUME NEW q, ListFor(q, "seed"), q # <<>>, Head(q) = "lease", NEW t, t = <<"build">> \o Tail(q)
    PROVE  /\ ListFor(t, "seed") /\ Hand(t) /\ ~Leases(t) /\ ~Resumed(t) /\ ~Fixed(t) /\ Owes(t)
           /\ Has(t, "build") /\ Has(t, "reset") /\ ~Has(t, "again") /\ Head(t) = "build"
<1> DEFINE p == <<"build">>
           u == Tail(q)
<1>1. "seed" \in Ops
  BY DEF Ops
<1>2. /\ ListFor(u, "seed") /\ Hand(u) /\ Leases(u) /\ ~Resumed(u) /\ ~Fixed(u) /\ Owes(u) /\ Has(u, "reset")
  BY <1>1, Turned DEF Turn
<1>3. "build" \in Of["seed"] /\ "again" \notin Of["seed"] /\ "lock" \in Steps /\ "begin" \notin Of["seed"] /\ "drained" \notin Of["seed"]
      /\ {"again", "begin", "drained"} \subseteq Steps
  BY DEF Of, Common, Steps
<1>4. p \in Seq(Steps) /\ Len(p) = 1 /\ p[1] = "build" /\ \A x : Has(p, x) <=> x = "build"
  BY DEF Steps, Has
<1>5. Has(q, "lease") /\ ListOK(q) /\ ListOK(u) /\ (\A x : Has(u, x) => Has(q, x))
  BY <1>2, Popped DEF ListFor
<1>6. ~Has(u, "lock")
  <2>1. q \in Seq(Steps) /\ Len(q) \in Nat \ {0} /\ q[1] = "lease"
    BY DEF ListFor, ListOK
  <2>2. ASSUME Has(q, "lock") PROVE FALSE
    <3>1. PICK i \in 1 .. Len(q) : q[i] = "lock"
      BY <2>2 DEF Has
    <3> QED BY <3>1, <2>1 DEF ListFor, ListOK, Firsts
  <2> QED BY <2>2, <1>5
<1>7. ~Has(u, "build") /\ ~Has(u, "begin") /\ ~Has(u, "drained") /\ ~Has(u, "again") /\ Has(u, "unlease")
  BY <1>2, <1>3, <1>5 DEF Leases, ListFor
<1>8. \A f \in Follows : f[1] = "build" => \E y \in f[2] : Has(u, y)
  BY <1>2, <1>7 DEF Follows
<1> HIDE DEF p, u
<1>9. ListOK(p \o u) /\ \A x : Has(p \o u, x) <=> Has(p, x) \/ Has(u, x)
  <2>1. \A i \in 1 .. Len(p), f \in Follows : p[i] = f[1] => \E y \in f[2] : Has(u, y)
    BY <1>4, <1>8
  <2>2. /\ \A i, j \in 1 .. Len(p) : i < j => p[i] # p[j]
        /\ \A i \in 1 .. Len(p) : p[i] \in {"lock", "build", "begin"} => i = 1
    BY <1>4
  <2>3. /\ \A x : Has(p, x) => ~Has(u, x)
        /\ \A x \in {"drained", "reap", "leave", "verdict", "lock", "begin"} : ~Has(p, x)
        /\ \A x \in {"lock", "build", "begin", "drained"} : ~Has(u, x)
    BY <1>4, <1>6, <1>7
  <2>4. Joinable(p, u)
    BY <2>1, <2>2, <2>3 DEF Joinable
  <2> QED BY <2>4, <1>4, <1>5, JoinOK
<1>10. t = p \o u /\ Head(t) = "build"
  <2>1. u \in Seq(Steps)
    BY <1>5 DEF ListOK
  <2>2. t = p \o u
    BY DEF p, u
  <2>0. p \in Seq(Steps)
    BY <1>4
  <2>3. /\ p \o u \in Seq(Steps) /\ Len(p \o u) = Len(p) + Len(u)
        /\ \A i \in 1 .. Len(p) + Len(u) : (p \o u)[i] = IF i <= Len(p) THEN p[i] ELSE u[i - Len(p)]
    BY <2>0, <2>1, ConcatProperties
  <2>4. Len(u) \in Nat
    BY <2>1
  <2>5. (p \o u)[1] = "build" /\ Len(p \o u) > 0
    BY <2>3, <2>4, <1>4
  <2> QED BY <2>2, <2>3, <2>5
<1>11. ListFor(t, "seed")
  BY <1>9, <1>10, <1>4, <1>2, <1>3, <1>7 DEF ListFor, Leases
<1> QED BY <1>9, <1>10, <1>11, <1>4, <1>2, <1>7 DEF Hand, Leases, Resumed, Fixed, Owes

\* A rollout is to be closed before the next is looked for.
LEMMA ReapFirst ==
    ASSUME NEW q, ListFor(q, "maintain"), q # <<>>, Head(q) = "reap",
           NEW t, t = <<"close_env", "release", "unlock">> \o q
    PROVE  /\ ListFor(t, "maintain") /\ Hand(t) /\ ~Leases(t) /\ ~Resumed(t) /\ ~Fixed(t) /\ Owes(t)
           /\ ~Has(t, "build") /\ ~Has(t, "again") /\ ~Has(t, "reset") /\ Bare(q)
<1> DEFINE p == <<"close_env", "release", "unlock">>
<1>1. /\ {"close_env", "release", "unlock"} \subseteq Of["maintain"]
      /\ {"lock", "build", "begin", "drained", "again", "lease", "reserve", "detach", "use", "unlease", "publish", "reset"}
            \cap Of["maintain"] = {}
      /\ {"lock", "build", "begin", "drained", "again", "lease", "reserve", "detach", "use", "unlease", "publish", "reset",
          "close_env", "release", "unlock"} \subseteq Steps
  BY DEF Of, Steps
<1>2. p \in Seq(Steps) /\ Len(p) = 3 /\ p[1] = "close_env" /\ p[2] = "release" /\ p[3] = "unlock"
      /\ \A x : Has(p, x) <=> x \in {"close_env", "release", "unlock"}
  BY DEF Steps, Has
<1>3. ListOK(q) /\ q \in Seq(Steps) /\ Len(q) \in Nat \ {0} /\ q[1] = "reap"
  BY DEF ListFor, ListOK
<1>4. \A x \in {"close_env", "release", "unlock"} : ~Has(q, x)
  <2> SUFFICES ASSUME NEW x \in {"close_env", "release", "unlock"}, Has(q, x) PROVE FALSE
    OBVIOUS
  <2>1. PICK i \in 1 .. Len(q) : q[i] = x
    BY DEF Has
  <2>2. 1 < i /\ 1 \in 1 .. Len(q)
    BY <2>1, <1>3
  <2> QED BY <2>1, <2>2, <1>3 DEF ListOK, Reaps
<1>5. \A x \in {"lock", "build", "begin", "drained", "again", "lease", "reserve", "detach", "use", "unlease", "publish", "reset"} : ~Has(q, x)
  BY <1>1 DEF ListFor
<1>6. \A i \in 1 .. Len(p), f \in Follows : p[i] = f[1] => \E j \in i + 1 .. Len(p) : p[j] \in f[2]
  BY <1>2, SMTT(30) DEF Follows
<1> HIDE DEF p
<1>7. ListOK(p \o q) /\ \A x : Has(p \o q, x) <=> Has(p, x) \/ Has(q, x)
  <2>1. /\ \A i, j \in 1 .. Len(p) : i < j => p[i] # p[j]
        /\ \A i \in 1 .. Len(p) : p[i] \in {"lock", "build", "begin"} => i = 1
    BY <1>2
  <2>2. /\ \A x : Has(p, x) => ~Has(q, x)
        /\ \A x \in {"drained", "reap", "leave", "verdict", "lock", "begin"} : ~Has(p, x)
        /\ \A x \in {"lock", "build", "begin", "drained"} : ~Has(q, x)
    BY <1>2, <1>4, <1>5
  <2>3. Joinable(p, q)
    BY <2>1, <2>2, <1>6 DEF Joinable
  <2> QED BY <2>3, <1>2, <1>3, JoinOK
<1>8. t = p \o q
  BY DEF p
<1>9. ListFor(t, "maintain")
  BY <1>7, <1>8, <1>2, <1>1, <1>5 DEF ListFor
<1> QED BY <1>7, <1>8, <1>9, <1>2, <1>4, <1>5 DEF Bare, Hand, Leases, Resumed, Fixed, Owes

\* Another round of terminal cleanup.
LEMMA ReclaimFirst ==
    ASSUME NEW q, ListFor(q, "close"), q # <<>>, Head(q) \in {"drained", "again"},
           NEW t, t = Reclaim \o Tail(q)
    PROVE  ListFor(t, "close") /\ Has(t, "again") /\ ~Has(t, "drained") /\ ~Has(t, "begin") /\ ~Has(Tail(q), "again")
           /\ ~Has(Tail(q), "drained") /\ ~Has(q, "begin") /\ (Head(q) = "again" => ~Has(q, "drained"))
<1> DEFINE p == Reclaim
           u == Tail(q)
<1>1. ListOK(q) /\ "close" \in Ops
  BY DEF ListFor, Ops
<1>2. /\ ListFor(u, "close") /\ Has(q, Head(q)) /\ (\A x : Has(u, x) => Has(q, x)) /\ ~Has(u, Head(q))
      /\ Chains(q) /\ Chains(u) /\ Before(q)
  <2>1. Head(q) \notin Repeats
    BY DEF Repeats
  <2> QED BY <2>1, <1>1, Turned, Popped, Chained, Behind DEF Turn, ListFor
<1>3. p \in Seq(Steps) /\ Len(p) = 5 /\ p[1] = "retry_envs" /\ p[2] = "retry_snaps" /\ p[3] = "close_rollouts"
      /\ p[4] = "delete_goldens" /\ p[5] = "again"
      /\ \A x : Has(p, x) <=> x \in {"retry_envs", "retry_snaps", "close_rollouts", "delete_goldens", "again"}
  BY DEF Steps, Has, Reclaim
<1>4. \A x \in {"lock", "build", "begin"} : ~Has(q, x)
  <2> SUFFICES ASSUME NEW x \in {"lock", "build", "begin"}, Has(q, x) PROVE FALSE
    OBVIOUS
  <2>1. PICK i \in 1 .. Len(q) : q[i] = x
    BY DEF Has
  <2>2. q \in Seq(Steps) /\ Len(q) \in Nat \ {0} /\ q[1] \in {"drained", "again"}
    BY <1>1 DEF ListOK, Lasts
  <2> QED BY <2>1, <2>2, <1>1 DEF ListOK, Firsts
<1>5. ~Has(u, "drained") /\ ~Has(u, "again") /\ (Head(q) = "again" => ~Has(q, "drained"))
  BY <1>2 DEF ListFor
<1>6. ~Has(u, "retry_envs") /\ ~Has(u, "retry_snaps") /\ ~Has(u, "close_rollouts") /\ ~Has(u, "delete_goldens")
  BY <1>2, <1>5 DEF Chains
<1>7. \A i \in 1 .. Len(p), f \in Follows : p[i] = f[1] => \E j \in i + 1 .. Len(p) : p[j] \in f[2]
  BY <1>3, SMTT(30) DEF Follows
<1>8. {"retry_envs", "retry_snaps", "close_rollouts", "delete_goldens", "again"} \subseteq Of["close"]
  BY DEF Of
<1> HIDE DEF p, u
<1>9. ListOK(p \o u) /\ \A x : Has(p \o u, x) <=> Has(p, x) \/ Has(u, x)
  <2>1. /\ \A i, j \in 1 .. Len(p) : i < j => p[i] # p[j]
        /\ \A i \in 1 .. Len(p) : p[i] \in {"lock", "build", "begin"} => i = 1
    BY <1>3
  <2>2. /\ \A x : Has(p, x) => ~Has(u, x)
        /\ \A x \in {"drained", "reap", "leave", "verdict", "lock", "begin"} : ~Has(p, x)
        /\ \A x \in {"lock", "build", "begin", "drained"} : ~Has(u, x)
    BY <1>2, <1>3, <1>4, <1>5, <1>6
  <2>3. ListOK(u)
    BY <1>2 DEF ListFor
  <2>4. Joinable(p, u)
    BY <2>1, <2>2, <1>7 DEF Joinable
  <2> QED BY <2>3, <2>4, <1>3, JoinOK
<1>10. t = p \o u
  BY DEF p, u
<1>11. ListFor(t, "close")
  BY <1>2, <1>3, <1>4, <1>5, <1>8, <1>9, <1>10 DEF ListFor
<1> QED BY <1>2, <1>3, <1>4, <1>5, <1>9, <1>10, <1>11 DEF u

\* No plan of a close or of the other calls but those of Turn hold an environment.
LEMMA CloseBare ==
    ASSUME NEW q, ListFor(q, "close")
    PROVE  ~Hand(q) /\ ~Leases(q) /\ ~Resumed(q) /\ ~Fixed(q) /\ ~Owes(q) /\ ~Has(q, "build") /\ ~Has(q, "lock")
<1>1. /\ {"close_env", "unlease", "publish", "detach", "use", "build", "lock"} \cap Of["close"] = {}
      /\ {"close_env", "unlease", "publish", "detach", "use", "build", "lock"} \subseteq Steps
  BY DEF Of, Steps
<1> QED BY <1>1 DEF ListFor, Hand, Leases, Resumed, Fixed, Owes

\* A first step that is the only one, or that comes first wherever it is.
LEMMA Alone ==
    ASSUME NEW q, ListOK(q), q # <<>>
    PROVE  /\ Head(q) \in {"leave", "verdict", "lock", "begin"} => \A x : Has(q, x) <=> x = Head(q)
           /\ \A x \in {"lock", "build", "begin"} : Has(q, x) <=> Head(q) = x
<1>1. q \in Seq(Steps) /\ Len(q) \in Nat \ {0} /\ Head(q) = q[1] /\ 1 \in 1 .. Len(q)
  BY DEF ListOK
<1>2. Head(q) \in {"leave", "verdict", "lock", "begin"} => Len(q) = 1
  BY <1>1 DEF ListOK, Lasts
<1>3. Head(q) \in {"leave", "verdict", "lock", "begin"} => \A x : Has(q, x) <=> x = Head(q)
  BY <1>1, <1>2 DEF Has
<1>4. \A x \in {"lock", "build", "begin"} : Has(q, x) <=> Head(q) = x
  BY <1>1 DEF Has, ListOK, Firsts
<1> QED BY <1>3, <1>4

--------------------------------------------------------------------------------
(* What a step does to its thread.                                              *)

\* Only the thread of the step has changed, and it is still a thread.
Stepped(c) ==
    /\ th' \in [Callers -> Thread]
    /\ \A d \in Callers : d # c => th'[d] = th[d]
    /\ ThreadOK(th'[c])

\* What a thread holds after a step it held before.
HandsKept(q, t) ==
    /\ Hand(t) <=> Hand(q)
    /\ Leases(t) <=> Leases(q)
    /\ Resumed(t) => Resumed(q)
    /\ Has(t, "build") => Has(q, "build")
    /\ Hand(t) /\ Has(t, "reset") => Has(q, "reset")

\* The step leaves what its thread holds as it was.
Calm(c) ==
    /\ Stepped(c)
    /\ HandsKept(th[c].todo, th'[c].todo)
    /\ Hand(th'[c].todo) \/ Resumed(th'[c].todo) \/ Has(th'[c].todo, "build") => th'[c].env = th[c].env
    /\ Leases(th'[c].todo) \/ Has(th'[c].todo, "build") => th'[c].t = th[c].t
    /\ Fixed(th'[c].todo) => \/ Fixed(th[c].todo) /\ th'[c].s = th[c].s /\ th'[c].env = th[c].env
                             \/ \A s \in th'[c].s : rollouts[s] = th'[c].env /\ th'[c].env # 0
    /\ \/ Has(th'[c].todo, "lock")
       \/ th'[c].s \subseteq th[c].s /\ ~Has(th[c].todo, "lock")
       \/ \A d \in Callers : \A s \in th'[c].s \cap th[d].s : d # c => Has(th[d].todo, "lock")

\* A thread becomes another.
LEMMA Placing ==
    ASSUME NemoTyping, NEW c \in Callers, NEW r, ThreadOK(r), Becomes(c, r)
    PROVE  Stepped(c) /\ th'[c] = r
BY DEF NemoTyping, Becomes, Stepped, ThreadOK

\* A thread goes on to the next of its steps.
LEMMA Going ==
    ASSUME NemoTyping, Control, NEW c \in Callers, th[c].todo # <<>>, Goes(c),
           Head(th[c].todo) \notin {"reserve", "again"}
    PROVE  /\ Stepped(c) /\ th'[c] = [th[c] EXCEPT !.todo = Tail(@)] /\ th'[c].todo = Tail(th[c].todo)
           /\ th'[c].op = th[c].op /\ th'[c].s = th[c].s /\ th'[c].t = th[c].t /\ th'[c].env = th[c].env
           /\ Turn(th[c].todo, th'[c].todo, th[c].op)
           /\ \A x : Has(th'[c].todo, x) => Has(th[c].todo, x)
           /\ \A x : Has(th[c].todo, x) /\ x # Head(th[c].todo) => Has(th'[c].todo, x)
<1> DEFINE q == th[c].todo
           n == [th[c] EXCEPT !.todo = Tail(@)]
<1>1. ThreadOK(th[c]) /\ th[c] \in Thread
  BY DEF Control, NemoTyping
<1>2. /\ ListFor(q, th[c].op) /\ ListOK(q) /\ th[c].op \in Ops /\ q \in Seq(Steps)
  BY <1>1 DEF ThreadOK, ListFor, Thread
<1>3. /\ Turn(q, Tail(q), th[c].op) /\ Tail(q) \in Seq(Steps)
      /\ \A x : Has(Tail(q), x) => Has(q, x)
      /\ \A x : Has(q, x) /\ x # Head(q) => Has(Tail(q), x)
  BY <1>2, Turned, Popped DEF ListOK
<1>4. n \in Thread /\ n.todo = Tail(q) /\ n.op = th[c].op /\ n.s = th[c].s /\ n.t = th[c].t /\ n.env = th[c].env
      /\ n.reserved = th[c].reserved /\ n.round = th[c].round
  BY <1>1, <1>3 DEF Thread
<1>5. Owes(Tail(q)) => Owes(q)
  <2>1. Head(q) \in Telling \/ Head(q) \notin Telling
    OBVIOUS
  <2> QED BY <1>3, Zenon DEF Turn, Telling, Same
<1>6. Has(Tail(q), "again") <=> Has(q, "again")
  BY <1>3
<1>7. ThreadOK(n)
  <2> HIDE DEF n
  <2>1. ListFor(Tail(q), th[c].op)
    BY <1>3 DEF Turn
  <2> QED BY <1>1, <1>4, <1>5, <1>6, <2>1 DEF ThreadOK
<1>8. Becomes(c, n)
  BY DEF Goes, Rest
<1> HIDE DEF n
<1>9. Stepped(c) /\ th'[c] = n
  BY <1>7, <1>8, Placing
<1> QED BY <1>3, <1>4, <1>9 DEF n

LEMMA GoingCalm ==
    ASSUME NemoTyping, Control, NEW c \in Callers, th[c].todo # <<>>, Goes(c),
           Head(th[c].todo) \notin Telling \cup {"again", "lock"}
    PROVE  Calm(c) /\ Same(th[c].todo, th'[c].todo)
<1>1. Head(th[c].todo) \notin {"reserve", "again"}
  BY DEF Telling
<1>2. /\ Stepped(c) /\ th'[c].s = th[c].s /\ th'[c].t = th[c].t /\ th'[c].env = th[c].env
      /\ Turn(th[c].todo, th'[c].todo, th[c].op)
      /\ \A x : Has(th'[c].todo, x) => Has(th[c].todo, x)
  BY <1>1, Going
<1>3. Same(th[c].todo, th'[c].todo)
  BY <1>2 DEF Turn
<1>4. ~Has(th[c].todo, "lock")
  BY Alone DEF Control, ThreadOK, ListFor
<1> QED BY <1>2, <1>3, <1>4 DEF Calm, HandsKept, Same

\* A step of a close changes nothing that anybody holds.
LEMMA CloseCalm ==
    ASSUME NemoTyping, Control, NEW c \in Callers, th[c].op = "close", Stepped(c), th'[c].op = "close", th'[c].s = th[c].s
    PROVE  Calm(c) /\ Same(th[c].todo, th'[c].todo)
<1>1. ListFor(th[c].todo, "close") /\ ListFor(th'[c].todo, "close")
  BY DEF Control, Stepped, ThreadOK
<1> QED BY <1>1, CloseBare DEF Calm, HandsKept, Same

\* A thread that holds nothing, before and after.
LEMMA EmptyHanded ==
    ASSUME NemoTyping, Control, NEW c \in Callers, Stepped(c), Bare(th[c].todo), Bare(th'[c].todo),
           \/ Has(th'[c].todo, "lock")
           \/ th'[c].s \subseteq th[c].s /\ ~Has(th[c].todo, "lock")
           \/ \A d \in Callers : \A s \in th'[c].s \cap th[d].s : d # c => Has(th[d].todo, "lock")
    PROVE  Calm(c) /\ Same(th[c].todo, th'[c].todo)
BY DEF Calm, HandsKept, Same, Bare

\* A thread without a call holds nothing.
LEMMA NobodyBare ==
    ASSUME NEW q, ListFor(q, "none")
    PROVE  Bare(q) /\ ~Has(q, "lock") /\ ~Has(q, "begin")
<1>1. Of["none"] = {}
  BY DEF Of
<1>2. {"close_env", "unlease", "publish", "detach", "use", "build", "again", "lock", "begin"} \subseteq Steps
  BY DEF Steps
<1> QED BY <1>1, <1>2 DEF ListFor, Bare, Hand, Leases, Resumed, Fixed, Owes

LEMMA NoCallIs ==
    /\ NoCall \in Thread /\ NoCall.op = "none" /\ NoCall.s = {} /\ NoCall.t = {} /\ NoCall.env = 0
    /\ NoCall.left = {} /\ NoCall.reserved = FALSE /\ NoCall.round = 0 /\ NoCall.todo = <<>>
BY DEF NoCall, Thread, Ops

LEMMA NoCallOK == ThreadOK(NoCall) /\ Bare(NoCall.todo) /\ ~Has(NoCall.todo, "lock")
<1>1. NoCall \in Thread
  BY NoCallIs
<1>2. ListFor(<<>>, "none") /\ \A x : ~Has(<<>>, x)
  BY NoneFor DEF Ops
<1> QED BY <1>1, <1>2 DEF ThreadOK, NoCall, Bare, Hand, Leases, Resumed, Fixed, Owes

\* A call begins with nothing in hand.
LEMMA CallCalm ==
    ASSUME NemoTyping, Control, NEW c \in Callers, Call(c)
    PROVE  /\ Calm(c) /\ Same(th[c].todo, th'[c].todo)
           /\ \/ th'[c].op # "close" /\ engine = "open"
              \/ th'[c].op = "close" /\ Has(th'[c].todo, "begin")
<1>1. Bare(th[c].todo)
  BY NobodyBare DEF Control, ThreadOK, Call
<1>2. CASE \E s \in Sessions, gen \in Made \cup {0}, t \in Tasks :
              engine = "open" /\ Becomes(c, [NoCall EXCEPT !.op = "seed", !.s = {s}, !.t = {t}, !.env = gen, !.todo = <<"lock">>])
  <2>1. PICK s \in Sessions, gen \in Made \cup {0}, t \in Tasks :
              engine = "open" /\ Becomes(c, [NoCall EXCEPT !.op = "seed", !.s = {s}, !.t = {t}, !.env = gen, !.todo = <<"lock">>])
    BY <1>2
  <2> DEFINE r == [NoCall EXCEPT !.op = "seed", !.s = {s}, !.t = {t}, !.env = gen, !.todo = <<"lock">>]
  <2>2. gen \in Nat /\ <<"lock">> \in Seq(Steps)
    BY DEF Made, NemoTyping, Steps
  <2>3. r \in Thread /\ r.op = "seed" /\ r.s = {s} /\ r.t = {t} /\ r.todo = <<"lock">> /\ r.round = 0
    BY <2>2, NoCallIs DEF Thread, Ops
  <2>4. ThreadOK(r)
    BY <2>3, OtherPlans DEF ThreadOK, Bare
  <2>5. Stepped(c) /\ th'[c] = r
    BY <2>1, <2>4, Placing
  <2> HIDE DEF r
  <2> QED BY <2>1, <2>3, <2>5, <1>1, EmptyHanded, OtherPlans
<1>3. CASE \E s \in Sessions, gen \in Made, o \in {"verify", "end", "tool"} :
              engine = "open" /\ Becomes(c, [NoCall EXCEPT !.op = o, !.s = {s}, !.env = gen, !.todo = <<"lock">>])
  <2>1. PICK s \in Sessions, gen \in Made, o \in {"verify", "end", "tool"} :
              engine = "open" /\ Becomes(c, [NoCall EXCEPT !.op = o, !.s = {s}, !.env = gen, !.todo = <<"lock">>])
    BY <1>3
  <2> DEFINE r == [NoCall EXCEPT !.op = o, !.s = {s}, !.env = gen, !.todo = <<"lock">>]
  <2>2. gen \in Nat /\ <<"lock">> \in Seq(Steps)
    BY DEF Made, NemoTyping, Steps
  <2>3. r \in Thread /\ r.op = o /\ r.s = {s} /\ r.todo = <<"lock">> /\ r.round = 0
    BY <2>2, NoCallIs DEF Thread, Ops
  <2>4. ThreadOK(r)
    BY <2>3, OtherPlans DEF ThreadOK, Bare
  <2>5. Stepped(c) /\ th'[c] = r
    BY <2>1, <2>4, Placing
  <2> HIDE DEF r
  <2> QED BY <2>1, <2>3, <2>5, <1>1, EmptyHanded, OtherPlans
<1>4. CASE /\ engine = "open"
           /\ Becomes(c, [NoCall EXCEPT !.op = "maintain", !.left = {s \in Sessions : rollouts[s] # 0}, !.todo = Maintenance])
  <2> DEFINE r == [NoCall EXCEPT !.op = "maintain", !.left = {s \in Sessions : rollouts[s] # 0}, !.todo = Maintenance]
  <2>1. Maintenance \in Seq(Steps)
    BY DEF Maintenance, Steps
  <2>2. r \in Thread /\ r.op = "maintain" /\ r.s = {} /\ r.todo = Maintenance /\ r.round = 0
    BY <2>1, NoCallIs DEF Thread, Ops
  <2>3. ThreadOK(r)
    BY <2>2, OtherPlans DEF ThreadOK, Bare
  <2>4. Stepped(c) /\ th'[c] = r
    BY <1>4, <2>3, Placing
  <2> HIDE DEF r
  <2> QED BY <1>4, <2>2, <2>4, <1>1, EmptyHanded, OtherPlans
<1>5. CASE \E delete \in BOOLEAN : Becomes(c, [NoCall EXCEPT !.op = "close", !.delete = delete, !.todo = <<"begin">>])
  <2>1. PICK delete \in BOOLEAN : Becomes(c, [NoCall EXCEPT !.op = "close", !.delete = delete, !.todo = <<"begin">>])
    BY <1>5
  <2> DEFINE r == [NoCall EXCEPT !.op = "close", !.delete = delete, !.todo = <<"begin">>]
  <2>2. <<"begin">> \in Seq(Steps)
    BY DEF Steps
  <2>3. r \in Thread /\ r.op = "close" /\ r.s = {} /\ r.todo = <<"begin">> /\ r.round = 0
    BY <2>2, NoCallIs DEF Thread, Ops
  <2>4. ThreadOK(r)
    BY <2>3, ClosePlans DEF ThreadOK, Bare
  <2>5. Stepped(c) /\ th'[c] = r
    BY <2>1, <2>4, Placing
  <2> HIDE DEF r
  <2> QED BY <2>3, <2>5, <1>1, EmptyHanded, ClosePlans
<1>6. \/ \E s \in Sessions, gen \in Made \cup {0}, t \in Tasks :
              engine = "open" /\ Becomes(c, [NoCall EXCEPT !.op = "seed", !.s = {s}, !.t = {t}, !.env = gen, !.todo = <<"lock">>])
      \/ \E s \in Sessions, gen \in Made, o \in {"verify", "end", "tool"} :
              engine = "open" /\ Becomes(c, [NoCall EXCEPT !.op = o, !.s = {s}, !.env = gen, !.todo = <<"lock">>])
      \/ /\ engine = "open"
         /\ Becomes(c, [NoCall EXCEPT !.op = "maintain", !.left = {s \in Sessions : rollouts[s] # 0}, !.todo = Maintenance])
      \/ \E delete \in BOOLEAN : Becomes(c, [NoCall EXCEPT !.op = "close", !.delete = delete, !.todo = <<"begin">>])
  BY Zenon DEF Call
<1> QED BY <1>2, <1>3, <1>4, <1>5, <1>6


\* The call goes on or is over; if it closes the engine, the engine is not open any more, and who has
\* got past the calls under way has seen that there are none.
Onward(c) ==
    /\ Stepped(c)
    /\ th'[c].op \in {th[c].op, "none"}
    /\ th'[c].op = "close" /\ ~Has(th'[c].todo, "begin") => engine' # "open"
    /\ Past(th'[c]) => Past(th[c]) \/ Drained
    /\ Past(th[c]) /\ th'[c].op # "none" => Past(th'[c])
    /\ engine # "open" => engine' # "open"

\* A step after which its thread holds no more than before.
Quiet(c) == Calm(c) /\ Onward(c) /\ (Owes(th'[c].todo) => Owes(th[c].todo))

\* What a thread is at is a step of its call.
LEMMA First ==
    ASSUME Control, NEW c \in Callers, NEW x, At(c, x)
    PROVE  /\ th[c].todo # <<>> /\ Head(th[c].todo) = x /\ Has(th[c].todo, x) /\ x \in Of[th[c].op] /\ x \in Steps
           /\ ListOK(th[c].todo) /\ ListFor(th[c].todo, th[c].op) /\ ThreadOK(th[c])
<1>1. ThreadOK(th[c]) /\ ListFor(th[c].todo, th[c].op) /\ ListOK(th[c].todo)
  BY DEF Control, ThreadOK, ListFor
<1>2. th[c].todo # <<>> /\ Head(th[c].todo) = x
  BY DEF At
<1>3. Has(th[c].todo, x) /\ x \in Steps
  BY <1>1, <1>2, Popped
<1> QED BY <1>1, <1>2, <1>3 DEF ListFor

\* To go on is nothing the closes have to know of.
LEMMA GoesOn ==
    ASSUME NemoTyping, Control, NEW c \in Callers, NEW x, At(c, x), Goes(c), x \notin {"reserve", "again", "begin", "drained"},
           engine # "open" => engine' # "open"
    PROVE  Onward(c)
<1>1. /\ Stepped(c) /\ th'[c].op = th[c].op
      /\ \A y : Has(th[c].todo, y) /\ y # x => Has(th'[c].todo, y)
      /\ \A y : Has(th'[c].todo, y) => Has(th[c].todo, y)
  BY First, Going
<1>2. th[c].op = "close" /\ ~Has(th[c].todo, "begin") => engine # "open"
  BY DEF Control
<1> QED BY <1>1, <1>2 DEF Onward, Past

\* A thread adopts another plan.
LEMMA Turning ==
    ASSUME NemoTyping, Control, NEW c \in Callers, NEW q, ListFor(q, th[c].op), Turns(c, q),
           Owes(q) => th[c].reserved, Has(q, "again") <=> th[c].round > 0
    PROVE  /\ Stepped(c) /\ th'[c].todo = q /\ th'[c].op = th[c].op /\ th'[c].s = th[c].s /\ th'[c].t = th[c].t
           /\ th'[c].env = th[c].env
<1> DEFINE n == [th[c] EXCEPT !.todo = q]
<1>1. ThreadOK(th[c]) /\ th[c] \in Thread /\ q \in Seq(Steps)
  BY DEF Control, NemoTyping, ListFor, ListOK
<1>2. n \in Thread /\ n.todo = q /\ n.op = th[c].op /\ n.s = th[c].s /\ n.t = th[c].t /\ n.env = th[c].env
      /\ n.reserved = th[c].reserved /\ n.round = th[c].round
  BY <1>1 DEF Thread
<1>3. Becomes(c, n)
  BY DEF Turns
<1> HIDE DEF n
<1>4. ThreadOK(n)
  BY <1>1, <1>2 DEF ThreadOK
<1> QED BY <1>2, <1>3, <1>4, Placing

\* Which calls have which steps.
LEMMA WhoLocks ==
    /\ \A op \in Ops : "lock" \in Of[op] => op \in {"seed", "verify", "end", "tool"} /\ "again" \notin Of[op] /\ "begin" \notin Of[op]
                                             /\ "drained" \notin Of[op]
    /\ \A op \in Ops : "unlock" \in Of[op] \/ "reap" \in Of[op] => op = "maintain"
    /\ {"detach", "use", "again", "unlease", "publish", "build", "lock"} \cap Of["maintain"] = {}
    /\ \A op \in Ops : {"begin", "closed", "drained", "again", "publish_closed", "verdict", "close_rollouts", "delete_goldens",
                        "retry_envs", "retry_snaps"} \cap Of[op] # {} => op = "close"
    /\ \A op \in Ops : "leave" \in Of[op] => op # "close"
    /\ {"again", "drained", "begin"} \subseteq Steps
BY DEF Of, Ops, Common, Steps

\* The steps that take nothing, one by one.
LEMMA LockQuiet ==
    ASSUME NemoTyping, Control, NEW c \in Callers, Lock(c)
    PROVE  Quiet(c)
<1>1. PICK s \in th[c].s :
         /\ LockedBy(s) = {}
         /\ CASE th[c].op = "seed" -> Turns(c, IF rollouts[s] = 0 \/ IsCurrent(c, s) THEN SeedSteps ELSE <<"leave">>)
              [] th[c].op = "verify" -> Turns(c, IF IsCurrent(c, s) THEN VerifySteps ELSE <<"leave">>)
              [] th[c].op = "end" -> Turns(c, IF IsCurrent(c, s) THEN EndSteps ELSE <<"leave">>)
              [] th[c].op = "tool" -> Turns(c, IF IsCurrent(c, s) THEN <<"use", "leave">> ELSE <<"leave">>)
  BY DEF Lock
<1>2. /\ At(c, "lock") /\ "lock" \in Of[th[c].op] /\ Has(th[c].todo, "lock") /\ ThreadOK(th[c]) /\ ListOK(th[c].todo)
      /\ Head(th[c].todo) = "lock" /\ ListFor(th[c].todo, th[c].op) /\ th[c].todo # <<>>
  BY First DEF Lock
<1>3. th[c].op \in Ops /\ th[c].op \in {"seed", "verify", "end", "tool"} /\ th[c].round = 0
  <2>1. th[c].op \in Ops /\ th[c].round \in Nat
    BY <1>2 DEF ThreadOK, Thread
  <2>2. ~Has(th[c].todo, "again")
    BY <2>1, <1>2, WhoLocks DEF ListFor
  <2> QED BY <2>1, <2>2, <1>2, WhoLocks DEF ThreadOK
<1>4. PICK q : /\ Turns(c, q) /\ ListFor(q, th[c].op) /\ ~Has(q, "again") /\ ~Owes(q) /\ ~Hand(q) /\ ~Leases(q) /\ ~Resumed(q)
               /\ ~Has(q, "build") /\ (Fixed(q) => IsCurrent(c, s))
  <2>1. CASE Turns(c, <<"leave">>)
    BY <2>1, <1>3, OtherPlans DEF Bare
  <2>2. CASE Turns(c, SeedSteps) /\ th[c].op = "seed"
    BY <2>2, SeedPlan DEF Bare
  <2>3. CASE Turns(c, VerifySteps) /\ th[c].op = "verify" /\ IsCurrent(c, s)
    BY <2>3, VerifyPlan
  <2>4. CASE Turns(c, EndSteps) /\ th[c].op = "end" /\ IsCurrent(c, s)
    BY <2>4, VerifyPlan
  <2>5. CASE Turns(c, <<"use", "leave">>) /\ th[c].op = "tool" /\ IsCurrent(c, s)
    BY <2>5, OtherPlans
  <2> QED BY <1>1, <1>3, <2>1, <2>2, <2>3, <2>4, <2>5
<1>5. /\ Stepped(c) /\ th'[c].todo = q /\ th'[c].op = th[c].op /\ th'[c].s = th[c].s /\ th'[c].t = th[c].t
      /\ th'[c].env = th[c].env
  BY <1>4, <1>3, Turning
<1>6. th[c].s = {s}
  BY <1>2 DEF ThreadOK
<1>7. Bare(th[c].todo)
  BY <1>2, Alone DEF Bare, Hand, Leases, Resumed, Fixed, Owes
<1>8. ASSUME NEW d \in Callers, d # c, NEW z \in th'[c].s \cap th[d].s PROVE Has(th[d].todo, "lock")
  <2>1. z = s /\ th[d].s = {s}
    BY <1>5, <1>6, <1>8 DEF Control, ThreadOK
  <2>2. At(d, "lock")
    BY <2>1, <1>1, <1>8 DEF LockedBy
  <2> QED BY <2>2, First
<1>9. Calm(c)
  <2>1. Fixed(q) => \A z \in th'[c].s : rollouts[z] = th'[c].env /\ th'[c].env # 0
    BY <1>4, <1>5, <1>6 DEF IsCurrent
  <2> QED BY <1>4, <1>5, <1>7, <1>8, <2>1 DEF Calm, HandsKept, Bare
<1>10. Onward(c)
  BY <1>3, <1>5 DEF Onward, Past, Lock
<1> QED BY <1>4, <1>5, <1>9, <1>10 DEF Quiet

LEMMA UseQuiet ==
    ASSUME NemoTyping, Control, NEW c \in Callers, Use(c)
    PROVE  Quiet(c)
<1>1. PICK x \in {"use", "evaluate"} : At(c, x)
  BY DEF Use
<1>2. Goes(c) /\ engine' = engine
  BY DEF Use
<1>3. Onward(c)
  BY <1>1, <1>2, GoesOn
<1>4. CASE x = "evaluate"
  BY <1>1, <1>2, <1>3, <1>4, First, GoingCalm DEF Quiet, Same, Telling
<1>5. CASE x = "use"
  <2>1. /\ th[c].todo # <<>> /\ Head(th[c].todo) = "use" /\ ListOK(th[c].todo)
    BY <1>1, <1>5, First
  <2>2. /\ Stepped(c) /\ th'[c].s = th[c].s /\ th'[c].t = th[c].t /\ th'[c].env = th[c].env
        /\ Turn(th[c].todo, th'[c].todo, th[c].op)
        /\ \A y : Has(th'[c].todo, y) => Has(th[c].todo, y)
    BY <2>1, <1>2, Going
  <2>3. ~Has(th[c].todo, "lock")
    BY <2>1, Alone
  <2> QED BY <2>1, <2>2, <2>3, <1>3 DEF Quiet, Calm, HandsKept, Turn
<1> QED BY <1>1, <1>4, <1>5

\* A place is reserved only if there is one.
LEMMA ReserveCalm ==
    ASSUME NemoTyping, Control, NEW c \in Callers, Reserve(c)
    PROVE  /\ Calm(c) /\ Onward(c)
           /\ ~Owes(th[c].todo) /\ (Owes(th'[c].todo) => ~(Pressure >= MaxPending))
<1>1. /\ At(c, "reserve")
      /\ \/ Becomes(c, [th[c] EXCEPT !.todo = <<"leave">>])
         \/ ~(Pressure >= MaxPending) /\ Becomes(c, [Rest(c) EXCEPT !.reserved = TRUE])
  BY DEF Reserve
<1>2. /\ th[c].todo # <<>> /\ Head(th[c].todo) = "reserve" /\ ListOK(th[c].todo) /\ ListFor(th[c].todo, th[c].op)
      /\ ThreadOK(th[c]) /\ th[c] \in Thread /\ th[c].op \in Ops /\ "reserve" \in Of[th[c].op]
  BY <1>1, First DEF ThreadOK, Thread
<1>3. Turn(th[c].todo, Tail(th[c].todo), th[c].op) /\ ListOK(Tail(th[c].todo))
  BY <1>2, Turned, Popped
<1>4. /\ ~Has(th[c].todo, "lock") /\ ~Has(th[c].todo, "begin")
  BY <1>2, Alone
<1>5. th[c].op \in {"seed", "verify", "end"}
  BY <1>2 DEF Of, Ops, Common
<1>6. ~Has(th[c].todo, "again") /\ th[c].round = 0
  <2>1. ~Has(th[c].todo, "again")
    BY <1>2, <1>5 DEF ListFor, Of, Common, Steps
  <2> QED BY <2>1, <1>2 DEF ThreadOK, Thread
<1>7. CASE Becomes(c, [th[c] EXCEPT !.todo = <<"leave">>])
  <2>1. /\ Stepped(c) /\ th'[c].todo = <<"leave">> /\ th'[c].op = th[c].op /\ th'[c].s = th[c].s
        /\ ~Owes(<<"leave">>)
    BY <1>5, <1>6, <1>7, OtherPlans, Turning DEF Turns, Bare
  <2>3. Calm(c)
    BY <2>1, <1>2, <1>3, <1>4, OtherPlans DEF Calm, HandsKept, Bare, Turn
  <2> QED BY <2>1, <2>3, <1>2, <1>3, <1>5 DEF Onward, Past, Reserve, Turn
<1>8. CASE ~(Pressure >= MaxPending) /\ Becomes(c, [Rest(c) EXCEPT !.reserved = TRUE])
  <2> DEFINE n == [Rest(c) EXCEPT !.reserved = TRUE]
             q == Tail(th[c].todo)
  <2>1. /\ n \in Thread /\ n.todo = q /\ n.op = th[c].op /\ n.s = th[c].s /\ n.t = th[c].t
        /\ n.env = th[c].env /\ n.reserved = TRUE /\ n.round = th[c].round
    BY <1>2, <1>3 DEF Thread, Rest, ListOK
  <2> HIDE DEF n
  <2>2. ListFor(q, th[c].op) /\ ~Has(q, "again") /\ (\A x : Has(q, x) => Has(th[c].todo, x))
    BY <1>2, <1>3, <1>6, Popped DEF Turn
  <2>3. ThreadOK(n)
    BY <2>1, <2>2, <1>2, <1>6 DEF ThreadOK
  <2>4. Stepped(c) /\ th'[c] = n
    BY <2>3, <1>8, Placing DEF n
  <2>5. Calm(c)
    BY <2>1, <2>2, <2>4, <1>2, <1>3, <1>4 DEF Calm, HandsKept, Turn
  <2> QED BY <2>1, <2>4, <2>5, <1>2, <1>3, <1>5, <1>8 DEF Onward, Past, Reserve, Turn
<1> QED BY <1>1, <1>7, <1>8

LEMMA ReleaseQuiet ==
    ASSUME NemoTyping, Control, NEW c \in Callers, Release(c)
    PROVE  Quiet(c)
<1>1. At(c, "release") /\ Becomes(c, [Rest(c) EXCEPT !.reserved = FALSE])
  BY DEF Release
<1>2. /\ th[c].todo # <<>> /\ Head(th[c].todo) = "release" /\ ListOK(th[c].todo) /\ ListFor(th[c].todo, th[c].op)
      /\ ThreadOK(th[c]) /\ th[c] \in Thread /\ th[c].op \in Ops /\ "release" \in Of[th[c].op]
  BY <1>1, First DEF ThreadOK, Thread
<1> DEFINE n == [Rest(c) EXCEPT !.reserved = FALSE]
           q == Tail(th[c].todo)
<1>3. /\ Turn(th[c].todo, q, th[c].op) /\ Same(th[c].todo, q) /\ ListOK(q) /\ ~Has(th[c].todo, "close_env")
      /\ \A x : Has(q, x) => Has(th[c].todo, x)
      /\ \A x : Has(th[c].todo, x) /\ x # "release" => Has(q, x)
  <2>1. Before(th[c].todo) /\ Turn(th[c].todo, q, th[c].op) /\ ListOK(q)
    BY <1>2, Turned, Popped, Behind
  <2> QED BY <2>1, <1>2, Popped DEF Before, Turn, Telling
<1>4. /\ ~Has(th[c].todo, "lock") /\ ~Has(th[c].todo, "begin")
  BY <1>2, Alone
<1>5. /\ n \in Thread /\ n.todo = q /\ n.op = th[c].op /\ n.s = th[c].s /\ n.t = th[c].t
      /\ n.env = th[c].env /\ n.round = th[c].round
  BY <1>2, <1>3 DEF Thread, Rest, ListOK
<1> HIDE DEF n
<1>6. ThreadOK(n)
  BY <1>2, <1>3, <1>5 DEF ThreadOK, Turn, Owes
<1>7. Stepped(c) /\ th'[c] = n
  BY <1>1, <1>6, Placing DEF n
<1>8. th[c].op # "close"
  BY <1>2 DEF Of
<1> QED BY <1>2, <1>3, <1>4, <1>5, <1>7, <1>8 DEF Quiet, Calm, HandsKept, Same, Onward, Past, Release

LEMMA OverQuiet ==
    ASSUME NemoTyping, Control, NEW c \in Callers, NEW x \in {"leave", "verdict"}, At(c, x), Becomes(c, NoCall), engine' = engine
    PROVE  Quiet(c)
<1>1. /\ th[c].todo # <<>> /\ Head(th[c].todo) = x /\ ListOK(th[c].todo)
  BY First
<1>2. Bare(th[c].todo) /\ ~Has(th[c].todo, "lock")
  BY <1>1, Alone DEF Bare, Hand, Leases, Resumed, Fixed, Owes
<1>3. Stepped(c) /\ th'[c] = NoCall
  BY NoCallOK, Placing
<1>4. Calm(c) /\ Same(th[c].todo, th'[c].todo)
  BY <1>2, <1>3, NoCallOK, NoCallIs, EmptyHanded
<1> QED BY <1>3, <1>4, NoCallIs DEF Quiet, Same, Onward, Past

LEMMA UnlockQuiet ==
    ASSUME NemoTyping, Control, NEW c \in Callers, Unlock(c)
    PROVE  Quiet(c)
<1>1. At(c, "unlock") /\ Becomes(c, [Rest(c) EXCEPT !.s = {}])
  BY DEF Unlock
<1>2. /\ th[c].todo # <<>> /\ Head(th[c].todo) = "unlock" /\ ListOK(th[c].todo) /\ ListFor(th[c].todo, th[c].op)
      /\ ThreadOK(th[c]) /\ th[c] \in Thread /\ th[c].op \in Ops /\ "unlock" \in Of[th[c].op]
  BY <1>1, First DEF ThreadOK, Thread
<1>0. th[c].op = "maintain"
  BY <1>2, WhoLocks
<1> DEFINE n == [Rest(c) EXCEPT !.s = {}]
           q == Tail(th[c].todo)
<1>3. /\ Turn(th[c].todo, q, th[c].op) /\ Same(th[c].todo, q) /\ ListOK(q)
      /\ \A x : Has(q, x) => Has(th[c].todo, x)
      /\ \A x : Has(th[c].todo, x) /\ x # "unlock" => Has(q, x)
  <2>1. Turn(th[c].todo, q, th[c].op) /\ ListOK(q)
    BY <1>2, Turned, Popped
  <2> QED BY <2>1, <1>2, Popped DEF Turn, Telling
<1>4. /\ ~Has(th[c].todo, "lock")
  BY <1>2, Alone
<1>5. /\ n \in Thread /\ n.todo = q /\ n.op = th[c].op /\ n.s = {} /\ n.t = th[c].t
      /\ n.env = th[c].env /\ n.round = th[c].round /\ n.reserved = th[c].reserved
  BY <1>2, <1>3 DEF Thread, Rest, ListOK
<1> HIDE DEF n
<1>6. ThreadOK(n)
  BY <1>0, <1>2, <1>3, <1>5 DEF ThreadOK, Turn, Same
<1>7. Stepped(c) /\ th'[c] = n
  BY <1>1, <1>6, Placing DEF n
<1>8. Calm(c)
  BY <1>3, <1>4, <1>5, <1>7 DEF Calm, HandsKept, Same
<1> QED BY <1>0, <1>3, <1>5, <1>7, <1>8 DEF Quiet, Same, Onward, Past, Unlock

LEMMA RestIs ==
    ASSUME NemoTyping, NEW c \in Callers, Tail(th[c].todo) \in Seq(Steps)
    PROVE  /\ Rest(c) \in Thread /\ Rest(c).todo = Tail(th[c].todo) /\ Rest(c).op = th[c].op /\ Rest(c).s = th[c].s
           /\ Rest(c).t = th[c].t /\ Rest(c).env = th[c].env
<1>1. th[c] \in Thread
  BY DEF NemoTyping
<1> QED BY <1>1 DEF Rest, Thread

\* A close holds nothing at any time.
LEMMA CloseQuiet ==
    ASSUME NemoTyping, Control, NEW c \in Callers, th[c].op = "close", Stepped(c), th'[c].op = "close", th'[c].s = th[c].s
    PROVE  Calm(c) /\ (Owes(th'[c].todo) => Owes(th[c].todo))
BY CloseCalm DEF Same

\* Only a close is at one of its steps.
LEMMA CloseStep ==
    ASSUME Control, NEW c \in Callers, NEW x \in {"begin", "closed", "drained", "again", "publish_closed", "verdict",
           "close_rollouts", "delete_goldens", "retry_envs", "retry_snaps"}, At(c, x)
    PROVE  th[c].op = "close" /\ th[c] \in Thread /\ ListFor(th[c].todo, "close") /\ th[c].todo # <<>> /\ Head(th[c].todo) = x
           /\ ListOK(th[c].todo) /\ Has(th[c].todo, x)
<1>1. ThreadOK(th[c]) /\ x \in Of[th[c].op] /\ ListFor(th[c].todo, th[c].op) /\ th[c].todo # <<>> /\ Head(th[c].todo) = x
      /\ ListOK(th[c].todo) /\ Has(th[c].todo, x)
  BY First
<1>2. th[c] \in Thread /\ th[c].op \in Ops
  BY <1>1 DEF ThreadOK, Thread
<1>3. {"begin", "closed", "drained", "again", "publish_closed", "verdict", "close_rollouts", "delete_goldens",
       "retry_envs", "retry_snaps"} \cap Of[th[c].op] # {}
  BY <1>1
<1>4. th[c].op = "close"
  BY <1>2, <1>3, WhoLocks
<1> QED BY <1>1, <1>2, <1>4

LEMMA BeginQuiet ==
    ASSUME NemoTyping, Control, NEW c \in Callers, Begin(c)
    PROVE  Quiet(c) /\ engine' # "open"
<1>1. /\ At(c, "begin") /\ engine' # "open"
      /\ Turns(c, ClosingSteps) \/ Turns(c, <<"closed", "drained", "verdict">>)
  BY DEF Begin, NemoTyping
<1>2. /\ th[c].op = "close" /\ th[c] \in Thread /\ ThreadOK(th[c]) /\ ~Has(th[c].todo, "again")
      /\ Has(th[c].todo, "begin")
  BY <1>1, CloseStep, First, Alone
<1>3. PICK q : Turns(c, q) /\ ListFor(q, "close") /\ Bare(q) /\ Has(q, "drained")
  BY <1>1, ClosePlans
<1>4. th[c].round = 0
  BY <1>2 DEF ThreadOK, Thread
<1>5. /\ Stepped(c) /\ th'[c].todo = q /\ th'[c].op = th[c].op /\ th'[c].s = th[c].s
  BY <1>2, <1>3, <1>4, Turning DEF Bare
<1> QED BY <1>1, <1>2, <1>3, <1>5, CloseQuiet DEF Quiet, Onward, Past

\* The steps of a close that only move on.
LEMMA CloseGoes ==
    ASSUME NemoTyping, Control, NEW c \in Callers, NEW x \in {"closed", "publish_closed", "close_rollouts", "delete_goldens"},
           At(c, x), Goes(c), engine # "open" => engine' # "open"
    PROVE  Quiet(c)
<1>1. Onward(c)
  BY GoesOn
<1>2. /\ th[c].todo # <<>> /\ Head(th[c].todo) = x
  BY First
<1>3. Calm(c) /\ Same(th[c].todo, th'[c].todo)
  BY <1>2, GoingCalm DEF Telling
<1> QED BY <1>1, <1>3 DEF Quiet, Same

LEMMA AwaitDrainedQuiet ==
    ASSUME NemoTyping, Control, NEW c \in Callers, AwaitDrained(c)
    PROVE  Quiet(c) /\ Drained
<1>1. At(c, "drained") /\ Drained /\ Becomes(c, [Rest(c) EXCEPT !.round = 1, !.todo = Reclaim \o @]) /\ engine' = engine
  BY DEF AwaitDrained
<1> DEFINE n == [Rest(c) EXCEPT !.round = 1, !.todo = Reclaim \o @]
           q == Reclaim \o Tail(th[c].todo)
<1>2. /\ th[c].op = "close" /\ th[c] \in Thread /\ ThreadOK(th[c]) /\ ListFor(th[c].todo, "close") /\ th[c].todo # <<>>
      /\ Head(th[c].todo) = "drained" /\ Has(th[c].todo, "drained")
  BY <1>1, CloseStep, First
<1>3. ListFor(q, "close") /\ Has(q, "again") /\ ~Has(q, "begin") /\ ~Has(th[c].todo, "begin")
  BY <1>2, ReclaimFirst
<1> HIDE DEF q
<1>4. /\ n \in Thread /\ n.todo = q /\ n.op = "close" /\ n.s = th[c].s /\ n.round = 1
  <2>1. q \in Seq(Steps) /\ Tail(th[c].todo) \in Seq(Steps) /\ 1 \in 0 .. 2
    BY <1>2, <1>3, Popped DEF ListFor, ListOK
  <2>2. Rest(c) \in Thread /\ Rest(c).op = "close" /\ Rest(c).s = th[c].s /\ q = Reclaim \o Rest(c).todo
    BY <1>2, <2>1, RestIs DEF q
  <2>3. n = [Rest(c) EXCEPT !.round = 1, !.todo = q]
    BY <2>2
  <2> HIDE DEF n
  <2> QED BY <2>1, <2>2, <2>3 DEF Thread
<1> HIDE DEF n
<1>5. ThreadOK(n)
  BY <1>2, <1>3, <1>4, CloseBare DEF ThreadOK
<1>6. Stepped(c) /\ th'[c] = n
  BY <1>1, <1>5, Placing DEF n
<1>7. engine # "open" /\ ~Past(th[c])
  BY <1>2, <1>3 DEF Control, Past
<1> QED BY <1>1, <1>2, <1>4, <1>6, <1>7, CloseQuiet DEF Quiet, Onward

LEMMA AgainQuiet ==
    ASSUME NemoTyping, Control, NEW c \in Callers, Again(c)
    PROVE  Quiet(c) /\ th'[c].op = "close"
<1>1. /\ At(c, "again") /\ engine' = engine
      /\ \/ Kept(c) /\ th[c].round = 1 /\ Becomes(c, [Rest(c) EXCEPT !.round = 2, !.todo = Reclaim \o @])
         \/ Becomes(c, [Rest(c) EXCEPT !.round = 0])
  BY DEF Again
<1> DEFINE u == Tail(th[c].todo)
           q == Reclaim \o u
<1>2. /\ th[c].op = "close" /\ th[c] \in Thread /\ ThreadOK(th[c]) /\ ListFor(th[c].todo, "close") /\ th[c].todo # <<>>
      /\ Head(th[c].todo) = "again"
  BY <1>1, CloseStep, First
<1>3. ListFor(q, "close") /\ Has(q, "again") /\ ~Has(q, "begin") /\ ~Has(th[c].todo, "begin") /\ ~Has(u, "again")
      /\ ~Has(th[c].todo, "drained") /\ ~Has(q, "drained")
      /\ ~Has(u, "begin") /\ ~Has(u, "drained")
  <2>1. \A x : Has(u, x) => Has(th[c].todo, x)
    BY <1>2, Popped DEF ListFor
  <2> QED BY <2>1, <1>2, ReclaimFirst
<1>0. ListFor(u, "close")
  BY <1>2, Turned DEF Turn, Ops
<1> HIDE DEF q, u
<1>4. engine # "open" /\ Past(th[c])
  BY <1>2, <1>3 DEF Control, Past
<1>5. CASE Becomes(c, [Rest(c) EXCEPT !.round = 2, !.todo = Reclaim \o @])
  <2> DEFINE n == [Rest(c) EXCEPT !.round = 2, !.todo = Reclaim \o @]
  <2>1. /\ n \in Thread /\ n.todo = q /\ n.op = "close" /\ n.s = th[c].s /\ n.round = 2
    <3>1. q \in Seq(Steps) /\ u \in Seq(Steps) /\ 2 \in 0 .. 2
      BY <1>0, <1>3 DEF ListFor, ListOK
    <3>2. Rest(c) \in Thread /\ Rest(c).op = "close" /\ Rest(c).s = th[c].s /\ q = Reclaim \o Rest(c).todo
      BY <1>2, <3>1, RestIs DEF q, u
    <3>3. n = [Rest(c) EXCEPT !.round = 2, !.todo = q]
      BY <3>2
    <3> HIDE DEF n
    <3> QED BY <3>1, <3>2, <3>3 DEF Thread
  <2> HIDE DEF n
  <2>2. ThreadOK(n)
    BY <1>2, <1>3, <2>1, CloseBare DEF ThreadOK
  <2>3. Stepped(c) /\ th'[c] = n
    BY <1>5, <2>2, Placing DEF n
  <2> QED BY <1>1, <1>2, <1>3, <1>4, <2>1, <2>3, CloseQuiet DEF Quiet, Onward, Past
<1>6. CASE Becomes(c, [Rest(c) EXCEPT !.round = 0])
  <2> DEFINE n == [Rest(c) EXCEPT !.round = 0]
  <2>1. /\ n \in Thread /\ n.todo = u /\ n.op = "close" /\ n.s = th[c].s /\ n.round = 0
    <3>1. u \in Seq(Steps) /\ 0 \in 0 .. 2
      BY <1>0 DEF ListFor, ListOK
    <3>2. Rest(c) \in Thread /\ Rest(c).op = "close" /\ Rest(c).s = th[c].s /\ u = Rest(c).todo
      BY <1>2, <3>1, RestIs DEF u
    <3> QED BY <3>1, <3>2 DEF Thread
  <2> HIDE DEF n
  <2>2. ThreadOK(n)
    BY <1>2, <1>3, <1>0, <2>1, CloseBare DEF ThreadOK
  <2>3. Stepped(c) /\ th'[c] = n
    BY <1>6, <2>2, Placing DEF n
  <2> QED BY <1>1, <1>2, <1>3, <1>4, <2>1, <2>3, CloseQuiet DEF Quiet, Onward, Past
<1> QED BY <1>1, <1>5, <1>6

\* A round of retries: its thread goes on when there is nothing to do or when it is over.
LEMMA DrainsGoes ==
    ASSUME NemoTyping, Control, NEW c \in Callers, NEW x \in {"drain_envs", "drain_snaps", "retry_envs", "retry_snaps", "evict"},
           At(c, x), Goes(c), engine' = engine
    PROVE  Quiet(c)
<1>1. Onward(c)
  BY GoesOn
<1>2. /\ th[c].todo # <<>> /\ Head(th[c].todo) = x
  BY First
<1>3. Calm(c) /\ Same(th[c].todo, th'[c].todo)
  BY <1>2, GoingCalm DEF Telling
<1> QED BY <1>1, <1>3 DEF Quiet, Same

LEMMA StaysQuiet ==
    ASSUME NemoTyping, Control, NEW c \in Callers, UNCHANGED <<th, engine>>
    PROVE  Quiet(c)
<1>1. Stepped(c)
  BY DEF NemoTyping, Control, Stepped
<1>2. Calm(c)
  BY <1>1 DEF Calm, HandsKept, NemoTyping
<1> QED BY <1>1, <1>2 DEF Quiet, Onward, Control

--------------------------------------------------------------------------------
(* What a step keeps that leaves to its thread what it holds.                   *)

\* One lemma for each part of the invariant.
LEMMA OnwardControl ==
    ASSUME NemoTyping, Control, NEW c \in Callers, Onward(c), Retriers'
    PROVE  Control' /\ (Drained => Drained')
<1>1. /\ \A d \in Callers : d # c => th'[d] = th[d]
      /\ ThreadOK(th'[c]) /\ th'[c].op \in {th[c].op, "none"}
  BY DEF Onward, Stepped
<1>2. Drained => Drained'
  BY <1>1 DEF Drained, Active
<1>3. \A d \in Callers : ThreadOK(th'[d])
  BY <1>1 DEF Control
<1>4. \A d \in Callers : th'[d].op = "close" /\ ~Has(th'[d].todo, "begin") => engine' # "open"
  BY <1>1 DEF Control, Onward
<1>5. \A d \in Callers : Past(th'[d]) => Drained'
  BY <1>1, <1>2 DEF Control, Onward
<1> QED BY <1>2, <1>3, <1>4, <1>5 DEF Control

\* Who is in a round of retries is at that step.
LEMMA RetriersStay ==
    ASSUME Control, NEW c \in Callers, \A d \in Callers : d # c => th'[d] = th[d], retrying' = retrying,
           th[c].todo = <<>> \/ Head(th[c].todo) \notin {"drain_envs", "drain_snaps", "retry_envs", "retry_snaps"}
    PROVE  Retriers'
BY DEF Control, Retriers

LEMMA LocksCalm ==
    ASSUME NemoTyping, Control, Locks, NEW c \in Callers, Calm(c),
           \A t \in Tasks : goldens[t].snap = 0 => goldens'[t].snap = 0
    PROVE  Locks'
<1>1. \A d \in Callers : d # c => th'[d] = th[d]
  BY DEF Calm, Stepped
<1>2. ASSUME NEW d \in Callers, NEW e \in Callers, NEW s \in th'[d].s \cap th'[e].s, d # e
      PROVE  Has(th'[d].todo, "lock") \/ Has(th'[e].todo, "lock")
  <2>1. ASSUME NEW z \in Callers, z # c, s \in th'[c].s, s \in th[z].s
        PROVE  Has(th'[c].todo, "lock") \/ Has(th[z].todo, "lock")
    BY <2>1 DEF Calm, Locks
  <2>2. CASE d # c /\ e # c
    BY <1>1, <1>2, <2>2 DEF Locks
  <2> QED BY <1>1, <1>2, <2>1, <2>2
<1>3. \A d \in Callers : Has(th'[d].todo, "build") => Has(th[d].todo, "build") /\ th'[d].t = th[d].t
  BY <1>1 DEF Calm, HandsKept
<1>4. \A d \in Callers : th[d].t \subseteq Tasks
  BY DEF NemoTyping, Thread
<1>5. \A d, e \in Callers : d # e /\ Has(th'[d].todo, "build") /\ Has(th'[e].todo, "build") => th'[d].t \cap th'[e].t = {}
  BY <1>3 DEF Locks
<1>6. \A d \in Callers : Has(th'[d].todo, "build") => \A t \in th'[d].t : goldens'[t].snap = 0
  BY <1>3, <1>4 DEF Locks
<1> QED BY <1>2, <1>5, <1>6 DEF Locks

LEMMA HandsCalm ==
    ASSUME NEW c \in Callers, Calm(c)
    PROVE  /\ InHand' = InHand
           /\ \A d \in Callers : Hand(th'[d].todo) => Hand(th[d].todo) /\ th'[d].env = th[d].env
                                                      /\ (Has(th'[d].todo, "reset") => Has(th[d].todo, "reset"))
<1>1. \A d \in Callers : d # c => th'[d] = th[d]
  BY DEF Calm, Stepped
<1>2. \A d \in Callers : (Hand(th'[d].todo) <=> Hand(th[d].todo)) /\ (Hand(th'[d].todo) => th'[d].env = th[d].env)
                             /\ (Hand(th'[d].todo) /\ Has(th'[d].todo, "reset") => Has(th[d].todo, "reset"))
  BY <1>1 DEF Calm, HandsKept
<1> QED BY <1>2 DEF InHand

LEMMA NumbersCalm ==
    ASSUME Numbers, NEW c \in Callers, Calm(c), taskOf' = taskOf,
           (Queued \cup QueuedSnaps \cup OutRollouts \cup Snaps)' \subseteq
               Queued \cup QueuedSnaps \cup OutRollouts \cup Snaps \cup {0}
    PROVE  Numbers'
<1>1. /\ InHand' = InHand
      /\ \A d \in Callers : Hand(th'[d].todo) => Hand(th[d].todo) /\ th'[d].env = th[d].env
                                                      /\ (Has(th'[d].todo, "reset") => Has(th[d].todo, "reset"))
  BY HandsCalm
<1>2. 0 <= Len(taskOf)
  BY DEF Numbers
<1> QED BY <1>1 DEF Numbers

\* What a call has resumed it has in hand.
LEMMA ResumedInHand ==
    ASSUME NEW op \in Ops, NEW q, ListFor(q, op), Resumed(q)
    PROVE  Hand(q) /\ op = "seed"
<1>1. Chains(q) /\ Has(q, "publish") /\ ~Has(q, "reset")
  BY Chained DEF ListFor, Resumed
<1>2. "publish" \in Steps /\ "detach" \in Steps /\ "detach" \notin Of["seed"] /\ ("publish" \in Of[op] => op = "seed")
  BY DEF Steps, Of, Ops, Common
<1> QED BY <1>1, <1>2 DEF Hand, Chains, ListFor

LEMMA EnvsCalm ==
    ASSUME NemoTyping, Control, EnvsOK, NEW c \in Callers, Calm(c), rollouts' = rollouts, Queued' \subseteq Queued, replicas' \subseteq replicas,
           \A x \in replicas \ replicas' : x \in Queued,
           \A x \in Queued \ Queued' : x \notin replicas'
    PROVE  EnvsOK'
<1>1. \A d \in Callers : d # c => th'[d] = th[d]
  BY DEF Calm, Stepped
<1>2. /\ InHand' = InHand /\ OutRollouts' = OutRollouts
      /\ \A d \in Callers : Hand(th'[d].todo) => Hand(th[d].todo) /\ th'[d].env = th[d].env
  BY HandsCalm DEF OutRollouts
<1>3. ASSUME NEW d \in Callers, Fixed(th'[d].todo)
      PROVE  \A s \in th'[d].s : rollouts'[s] = th'[d].env /\ th'[d].env # 0
  BY <1>1, <1>3 DEF Calm, EnvsOK
<1>4. \A s \in Sessions : rollouts'[s] # 0 => rollouts'[s] \in replicas' /\ rollouts'[s] \notin Queued'
  BY DEF EnvsOK
<1>5. \A s, z \in Sessions : s # z /\ rollouts'[s] = rollouts'[z] => rollouts'[s] = 0
  BY DEF EnvsOK
<1>6. ASSUME NEW d \in Callers, Hand(th'[d].todo), th'[d].env # 0
      PROVE  /\ th'[d].env \notin OutRollouts' \cup Queued'
             /\ \A e \in Callers : e # d /\ Hand(th'[e].todo) => th'[e].env # th'[d].env
  BY <1>2, <1>6 DEF EnvsOK
<1>7. ASSUME NEW d \in Callers, Resumed(th'[d].todo)
      PROVE  th'[d].env \in replicas'
  <2>1. Resumed(th[d].todo) /\ th'[d].env = th[d].env
    BY <1>1, <1>7 DEF Calm, HandsKept
  <2>2. th[d].op \in Ops /\ ListFor(th[d].todo, th[d].op)
    BY DEF Control, ThreadOK, Thread
  <2>3. Hand(th[d].todo)
    BY <2>1, <2>2, ResumedInHand
  <2>4. th[d].env \in replicas /\ th[d].env # 0
    BY <2>1 DEF EnvsOK, NemoTyping
  <2> QED BY <2>1, <2>3, <2>4 DEF EnvsOK
<1>8. replicas' \subseteq OutRollouts' \cup Queued' \cup InHand'
  BY <1>2 DEF EnvsOK
<1> QED BY <1>3, <1>4, <1>5, <1>6, <1>7, <1>8 DEF EnvsOK

LEMMA SnapsCalm ==
    ASSUME NemoTyping, SnapsOK, NEW c \in Callers, Calm(c), \A t \in Tasks : goldens'[t].snap = goldens[t].snap,
           QueuedSnaps' \subseteq QueuedSnaps, stored' \subseteq stored,
           \A x \in stored \ stored' : x \in QueuedSnaps,
           \A x \in QueuedSnaps \ QueuedSnaps' : x \notin stored'
    PROVE  SnapsOK'
<1>1. \A d \in Callers : Has(th'[d].todo, "build") => Has(th[d].todo, "build") /\ th'[d].env = th[d].env
  BY DEF Calm, HandsKept, Stepped
<1>2. Snaps' = Snaps
  BY DEF Snaps
<1> QED BY <1>1, <1>2 DEF SnapsOK

LEMMA LeasesCalm ==
    ASSUME NemoTyping, LeasesOK, NEW c \in Callers, Calm(c), goldens' = goldens
    PROVE  LeasesOK'
<1>1. \A d \in Callers : /\ Leases(th'[d].todo) <=> Leases(th[d].todo)
                         /\ Leases(th'[d].todo) => th'[d].t = th[d].t
  BY DEF Calm, HandsKept, Stepped
<1>2. \A t \in Tasks : {d \in Callers : t \in th'[d].t /\ Leases(th'[d].todo)} = {d \in Callers : t \in th[d].t /\ Leases(th[d].todo)}
  BY <1>1
<1> QED BY <1>1, <1>2 DEF LeasesOK

\* The sequences the backlog is made of: two of them, one more, a part, the rest, and a set in any order.
LEMMA InBoth ==
    ASSUME NEW S, NEW p \in Seq(S), NEW q \in Seq(S)
    PROVE  /\ p \o q \in Seq(S) /\ Len(p \o q) = Len(p) + Len(q) /\ ToSet(p \o q) = ToSet(p) \cup ToSet(q)
           /\ ToSet(p) \subseteq S
<1> DEFINE r == p \o q
<1>1. /\ r \in Seq(S) /\ Len(r) = Len(p) + Len(q) /\ Len(p) \in Nat /\ Len(q) \in Nat
      /\ \A i \in 1 .. Len(p) + Len(q) : r[i] = IF i <= Len(p) THEN p[i] ELSE q[i - Len(p)]
  BY ConcatProperties
<1>2. DOMAIN r = 1 .. Len(r) /\ DOMAIN p = 1 .. Len(p) /\ DOMAIN q = 1 .. Len(q)
  BY <1>1
<1> HIDE DEF r
<1>3. ASSUME NEW i \in 1 .. Len(r) PROVE r[i] \in ToSet(p) \cup ToSet(q)
  <2>1. i <= Len(p) => i \in 1 .. Len(p) /\ r[i] = p[i]
    BY <1>1
  <2>2. ~(i <= Len(p)) => i - Len(p) \in 1 .. Len(q) /\ r[i] = q[i - Len(p)]
    BY <1>1
  <2> QED BY <2>1, <2>2, <1>2 DEF ToSet
<1>4. ASSUME NEW i \in 1 .. Len(p) PROVE p[i] \in ToSet(r)
  <2>1. i \in 1 .. Len(r) /\ r[i] = p[i]
    BY <1>1
  <2> QED BY <2>1, <1>2 DEF ToSet
<1>5. ASSUME NEW i \in 1 .. Len(q) PROVE q[i] \in ToSet(r)
  <2>1. Len(p) + i \in 1 .. Len(r) /\ (Len(p) + i) - Len(p) = i /\ ~(Len(p) + i <= Len(p))
    BY <1>1
  <2>2. r[Len(p) + i] = q[i]
    BY <2>1, <1>1
  <2> QED BY <2>1, <2>2, <1>2 DEF ToSet
<1>6. ToSet(r) = ToSet(p) \cup ToSet(q)
  <2>1. ToSet(r) \subseteq ToSet(p) \cup ToSet(q)
    BY <1>2, <1>3 DEF ToSet
  <2>2. ToSet(p) \subseteq ToSet(r) /\ ToSet(q) \subseteq ToSet(r)
    BY <1>2, <1>4, <1>5 DEF ToSet
  <2> QED BY <2>1, <2>2
<1>7. ToSet(p) \subseteq S
  BY DEF ToSet
<1> QED BY <1>1, <1>6, <1>7 DEF r

LEMMA OneMore ==
    ASSUME NEW S, NEW p \in Seq(S), NEW x \in S
    PROVE  Append(p, x) \in Seq(S) /\ Len(Append(p, x)) = Len(p) + 1 /\ ToSet(Append(p, x)) = ToSet(p) \cup {x}
<1>1. <<x>> \in Seq(S) /\ Len(<<x>>) = 1 /\ Append(p, x) = p \o <<x>>
  BY SMT
<1>2. ToSet(<<x>>) = {x}
  BY DEF ToSet
<1> DEFINE u == <<x>>
<1>3. u \in Seq(S) /\ Len(u) = 1 /\ ToSet(u) = {x} /\ p \in Seq(S)
  BY <1>1, <1>2
<1> HIDE DEF u
<1>4. p \o u \in Seq(S) /\ Len(p \o u) = Len(p) + Len(u) /\ ToSet(p \o u) = ToSet(p) \cup ToSet(u)
  <2>1. ToSet(p \o u) = ToSet(p) \cup ToSet(u)
    BY <1>3, InBoth
  <2>2. p \o u \in Seq(S) /\ Len(p \o u) = Len(p) + Len(u)
    BY <1>3, ConcatProperties
  <2> QED BY <2>1, <2>2
<1>5. Append(p, x) = p \o u
  BY <1>1 DEF u
<1> QED BY <1>3, <1>4, <1>5

LEMMA Split ==
    ASSUME NEW S, NEW q \in Seq(S), NEW n \in Nat
    PROVE  /\ Take(q, n) \in Seq(S) /\ Left(q, n) \in Seq(S)
           /\ Len(Take(q, n)) + Len(Left(q, n)) = Len(q)
           /\ ToSet(Take(q, n)) \cup ToSet(Left(q, n)) = ToSet(q)
<1> DEFINE m == IF Len(q) < n THEN Len(q) ELSE n
           a == SubSeq(q, 1, m)
           b == SubSeq(q, n + 1, Len(q))
           d == SubSeq(q, m + 1, Len(q))
<1>1. Len(q) \in Nat /\ m \in Nat /\ m <= Len(q) /\ m <= n
  OBVIOUS
<1>2. b = d
  <2>1. CASE Len(q) < n
    <3>1. Len(q) < n + 1 /\ Len(q) < m + 1 /\ n + 1 \in Int /\ m + 1 \in Int /\ Len(q) \in Int
      BY <2>1
    <3> QED BY <3>1, SubSeqEmpty
  <2>2. CASE ~(Len(q) < n)
    BY <2>2
  <2> QED BY <2>1, <2>2
<1> HIDE DEF m, b
<1>3. \A i \in 1 .. m : q[i] \in S
  BY <1>1
<1>4. a \in Seq(S) /\ Len(a) = m
  <2>1. /\ a \in Seq(S) /\ Len(a) = IF 1 <= m THEN m - 1 + 1 ELSE 0
    BY <1>1, <1>3, SubSeqProperties
  <2> QED BY <1>1, <2>1
<1>5. d \in Seq(S) /\ Len(d) = Len(q) - m
  <2>1. \A i \in m + 1 .. Len(q) : q[i] \in S
    BY <1>1
  <2>2. m + 1 \in Int /\ Len(q) \in Int
    BY <1>1
  <2>3. /\ d \in Seq(S) /\ Len(d) = IF m + 1 <= Len(q) THEN Len(q) - (m + 1) + 1 ELSE 0
    BY <2>1, <2>2, SubSeqProperties
  <2> QED BY <1>1, <2>3
<1>6. a \o d = q
  <2>1. 1 \in 1 .. Len(q) + 1 /\ m \in 1 - 1 .. Len(q) /\ Len(q) \in m .. Len(q)
    BY <1>1
  <2> QED BY <2>1, ConcatAdjacentSubSeq, SubSeqFull
<1> HIDE DEF a, d
<1>7. ToSet(a) \cup ToSet(d) = ToSet(q)
  <2>1. ToSet(a \o d) = ToSet(a) \cup ToSet(d)
    BY <1>4, <1>5, InBoth
  <2> QED BY <2>1, <1>6
<1>8. Take(q, n) = a /\ Left(q, n) = b
  BY DEF Take, Left, a, b, m
<1> QED BY <1>1, <1>2, <1>4, <1>5, <1>7, <1>8

LEMMA RestOfRound ==
    ASSUME NEW S, NEW q \in Seq(S), q # <<>>
    PROVE  /\ Head(q) \in S /\ Tail(q) \in Seq(S) /\ Len(Tail(q)) + 1 = Len(q) /\ ToSet(q) = ToSet(Tail(q)) \cup {Head(q)}
           /\ Len(Tail(q)) \in Nat
<1>1. /\ Head(q) \in S /\ Tail(q) \in Seq(S) /\ Len(Tail(q)) = Len(q) - 1 /\ Len(q) \in Nat \ {0} /\ Len(Tail(q)) \in Nat
  OBVIOUS
<1>2. /\ DOMAIN q = 1 .. Len(q) /\ DOMAIN Tail(q) = 1 .. Len(q) - 1 /\ Head(q) = q[1]
      /\ \A i \in 1 .. Len(q) - 1 : Tail(q)[i] = q[i + 1]
  OBVIOUS
<1>3. ASSUME NEW i \in 1 .. Len(q) PROVE q[i] \in ToSet(Tail(q)) \cup {Head(q)}
  <2>1. i = 1 \/ (i - 1 \in 1 .. Len(q) - 1 /\ (i - 1) + 1 = i)
    BY <1>1
  <2> QED BY <2>1, <1>2 DEF ToSet
<1>4. ASSUME NEW i \in 1 .. Len(q) - 1 PROVE Tail(q)[i] \in ToSet(q)
  <2>1. i + 1 \in 1 .. Len(q)
    BY <1>1
  <2> QED BY <2>1, <1>2 DEF ToSet
<1>5. Head(q) \in ToSet(q)
  <2>1. 1 \in 1 .. Len(q)
    BY <1>1
  <2> QED BY <2>1, <1>2 DEF ToSet
<1>6. ToSet(q) \subseteq ToSet(Tail(q)) \cup {Head(q)}
  BY <1>2, <1>3 DEF ToSet
<1>7. ToSet(Tail(q)) \subseteq ToSet(q)
  BY <1>2, <1>4 DEF ToSet
<1> QED BY <1>1, <1>5, <1>6, <1>7

LEMMA AsQueue ==
    ASSUME NEW S, IsFiniteSet(S)
    PROVE  SetToSeq(S) \in Seq(S) /\ Len(SetToSeq(S)) = Cardinality(S) /\ ToSet(SetToSeq(S)) = S
<1> DEFINE n == Cardinality(S)
           f == SetToSeq(S)
<1>1. n \in Nat /\ \E g \in Bijection(1 .. n, S) : TRUE
  BY FS_CardinalityType DEF ExistsBijection
<1>2. \E g \in [1 .. n -> S] : IsInjective(g)
  BY <1>1 DEF Bijection, Injection, IsInjective
<1>3. f \in [1 .. n -> S] /\ IsInjective(f)
  BY <1>2 DEF SetToSeq
<1> HIDE DEF f
<1>4. f \in Injection(1 .. n, S)
  BY <1>3 DEF Injection
<1>5. IsFiniteSet(1 .. n) /\ Cardinality(1 .. n) = n
  BY <1>1, FS_Interval
<1>6. f \in Surjection(1 .. n, S)
  BY <1>4, <1>5, FS_Injection
<1>7. f \in Seq(S) /\ Len(f) = n
  BY <1>1, <1>3
<1>8. ToSet(f) = S
  <2>1. DOMAIN f = 1 .. n
    BY <1>3
  <2> QED BY <2>1, <1>3, <1>6 DEF ToSet, Surjection
<1> QED BY <1>7, <1>8 DEF f

\* All of them at once, for a step that changes only its thread.
LEMMA CalmKeeps ==
    ASSUME NemoInv, NEW c \in Callers, Calm(c),
           UNCHANGED <<rollouts, taskOf, goldens, pendingEnvs, pendingSnaps, retrying, replicas, stored>>
    PROVE  Locks' /\ Numbers' /\ EnvsOK' /\ SnapsOK' /\ LeasesOK'
<1>1. Queued' = Queued /\ QueuedSnaps' = QueuedSnaps /\ OutRollouts' = OutRollouts /\ Snaps' = Snaps
  BY DEF Queued, QueuedSnaps, OutRollouts, Snaps, EnvsInRetry, SnapsInRetry
<1>2. NemoTyping /\ Control /\ Locks /\ Numbers /\ EnvsOK /\ SnapsOK /\ LeasesOK
  BY DEF NemoInv
<1>3. Locks'
  BY <1>2, LocksCalm
<1>4. Numbers'
  BY <1>1, <1>2, NumbersCalm
<1>5. EnvsOK'
  BY <1>1, <1>2, EnvsCalm
<1>6. SnapsOK'
  BY <1>1, <1>2, SnapsCalm
<1>7. LeasesOK'
  BY <1>2, LeasesCalm
<1> QED BY <1>3, <1>4, <1>5, <1>6, <1>7

\* The calls that may yet have to leave something behind.
Owing == {c \in Callers : Owes(th[c].todo)}

LEMMA BoundsTyped ==
    /\ MaxPending \in Nat /\ MaxPending # 0 /\ RetryBatch \in Nat
    /\ NemoTyping => /\ Len(pendingEnvs) \in Nat /\ Len(pendingSnaps) \in Nat /\ Len(retrying.left) \in Nat
                     /\ Len(retrying.failed) \in Nat /\ Backlog \in Nat /\ RetryInflight \in Nat
    /\ NemoTyping' => /\ Len(pendingEnvs') \in Nat /\ Len(pendingSnaps') \in Nat /\ Len(retrying'.left) \in Nat
                      /\ Len(retrying'.failed) \in Nat /\ Backlog' \in Nat /\ RetryInflight' \in Nat
<1>1. ASSUME NEW q \in Seq(Nat) PROVE Len(q) \in Nat
  OBVIOUS
<1>2. ASSUME NemoTyping
      PROVE  /\ Len(pendingEnvs) \in Nat /\ Len(pendingSnaps) \in Nat /\ Len(retrying.left) \in Nat /\ Len(retrying.failed) \in Nat
  BY <1>1, <1>2 DEF NemoTyping
<1>3. ASSUME NemoTyping'
      PROVE  /\ Len(pendingEnvs') \in Nat /\ Len(pendingSnaps') \in Nat /\ Len(retrying'.left) \in Nat /\ Len(retrying'.failed) \in Nat
  BY <1>1, <1>3 DEF NemoTyping
<1>4. ASSUME NEW a \in Nat, NEW b \in Nat PROVE a + b \in Nat /\ 0 \in Nat
  OBVIOUS
<1>5. /\ RetryInflight = 0 \/ RetryInflight = Len(retrying.left) + Len(retrying.failed)
      /\ RetryInflight' = 0 \/ RetryInflight' = Len(retrying'.left) + Len(retrying'.failed)
  BY Zenon DEF RetryInflight
<1>6. ASSUME NemoTyping PROVE Backlog \in Nat /\ RetryInflight \in Nat
  BY <1>2, <1>4, <1>5, <1>6, Zenon DEF Backlog
<1>7. ASSUME NemoTyping' PROVE Backlog' \in Nat /\ RetryInflight' \in Nat
  BY <1>3, <1>4, <1>5, <1>7, Zenon DEF Backlog
<1> QED BY <1>2, <1>3, <1>6, <1>7, NemoAssumption

LEMMA OwingFinite ==
    ASSUME NEW S, S \subseteq Callers
    PROVE  IsFiniteSet(S) /\ Cardinality(S) \in Nat
BY NemoAssumption, FS_Subset, FS_CardinalityType

\* The bound stays where nothing is added.
LEMMA BoundedLess ==
    ASSUME NemoTyping, NemoTyping', Bounded, Owing' \subseteq Owing, Backlog' + RetryInflight' <= Backlog + RetryInflight
    PROVE  Bounded'
<1>1. Owing \subseteq Callers /\ Owing' \subseteq Callers
  BY DEF Owing
<1>2. IsFiniteSet(Owing) /\ Cardinality(Owing) \in Nat /\ Cardinality(Owing') \in Nat
  BY <1>1, OwingFinite
<1>3. Cardinality(Owing') <= Cardinality(Owing)
  BY <1>2, FS_Subset
<1>4. /\ Backlog \in Nat /\ RetryInflight \in Nat /\ MaxPending \in Nat
      /\ Backlog' \in Nat /\ RetryInflight' \in Nat
  BY BoundsTyped
<1>5. Backlog + RetryInflight + Cardinality(Owing) <= MaxPending
  BY DEF Bounded, Owing
<1>6. ASSUME NEW b \in Nat, NEW i \in Nat, NEW k \in Nat, NEW bb \in Nat, NEW ii \in Nat, NEW kk \in Nat, NEW m \in Nat,
             b + i + k <= m, kk <= k, bb + ii <= b + i
      PROVE  bb + ii + kk <= m
  BY <1>6
<1>7. Backlog' + RetryInflight' + Cardinality(Owing') <= MaxPending
  BY <1>2, <1>3, <1>4, <1>5, <1>6
<1> QED BY <1>7 DEF Bounded, Owing

LEMMA QuietOwing ==
    ASSUME NEW c \in Callers, Onward(c), Owes(th'[c].todo) => Owes(th[c].todo)
    PROVE  Owing' \subseteq Owing
BY DEF Onward, Stepped, Owing

LEMMA NotYet ==
    ASSUME NEW q \in Seq(Steps)
    PROVE  ToSet(q) \cap {"begin", "drained"} = {} <=> ~Has(q, "begin") /\ ~Has(q, "drained")
<1>1. DOMAIN q = 1 .. Len(q)
  OBVIOUS
<1> QED BY <1>1 DEF ToSet, Has

\* The closes yet to report, by what they have yet to do.
LEMMA ReportingIsPast ==
    /\ NemoTyping => Reporting = {c \in Callers : Past(th[c])}
    /\ NemoTyping' => Reporting' = {c \in Callers : Past(th'[c])}
<1>1. ASSUME NemoTyping, NEW c \in Callers
      PROVE  ToSet(th[c].todo) \cap {"begin", "drained"} = {} <=> ~Has(th[c].todo, "begin") /\ ~Has(th[c].todo, "drained")
  <2>1. th[c].todo \in Seq(Steps)
    BY <1>1 DEF NemoTyping, Thread
  <2> QED BY <2>1, NotYet
<1>2. ASSUME NemoTyping', NEW c \in Callers
      PROVE  ToSet(th'[c].todo) \cap {"begin", "drained"} = {} <=> ~Has(th'[c].todo, "begin") /\ ~Has(th'[c].todo, "drained")
  <2>1. th'[c].todo \in Seq(Steps)
    BY <1>2 DEF NemoTyping, Thread
  <2> QED BY <2>1, NotYet
<1> QED BY <1>1, <1>2 DEF Reporting, Past

\* Before anybody is closed, or while a call is under way, no close has returned cleanly.
LEMMA BeforeTheEnd ==
    ASSUME NemoTyping, Terminal, engine = "open" \/ ~Drained, cleanClose' = cleanClose
    PROVE  Terminal'
BY DEF Terminal

\* What a close relies on, when nothing comes back and no other close reports.
LEMMA TerminalGoesOn ==
    ASSUME NemoTyping, NemoTyping', Control, Terminal, NEW c \in Callers, Onward(c), cleanClose' = cleanClose,
           th'[c].op # "none" \/ ~Past(th[c]),
           \A s \in Sessions : rollouts[s] = 0 => rollouts'[s] = 0,
           \A t \in Tasks : goldens[t].snap = 0 => goldens'[t].snap = 0,
           Backlog' # 0 => Backlog # 0 \/ Past(th[c]) \/ ~Drained
    PROVE  Terminal'
<1>1. CASE cleanClose = {}
  BY <1>1 DEF Terminal
<1>2. CASE cleanClose # {}
  <2>1. /\ engine # "open" /\ Drained
        /\ \A s \in Sessions : rollouts[s] = 0
        /\ TRUE \in cleanClose => \A t \in Tasks : goldens[t].snap = 0
        /\ Backlog # 0 => Reporting # {}
    BY <1>2 DEF Terminal
  <2>2. engine' # "open" /\ Drained'
    BY <2>1 DEF Onward, Stepped, Drained, Active
  <2>3. \A d \in Callers : Past(th[d]) => Past(th'[d])
    BY DEF Onward, Stepped
  <2>4. Reporting = {d \in Callers : Past(th[d])} /\ Reporting' = {d \in Callers : Past(th'[d])}
    BY ReportingIsPast
  <2>5. Backlog' # 0 => Reporting' # {}
    BY <2>1, <2>3, <2>4
  <2> QED BY <2>1, <2>2, <2>5 DEF Terminal
<1> QED BY <1>1, <1>2

\* The invariant, for a step that changes only its thread and the state of the engine.
LEMMA QuietInv ==
    ASSUME NemoInv, NEW c \in Callers, Quiet(c), Retriers', engine' \in {"open", "closing", "closed"},
           th'[c].op # "none" \/ ~Past(th[c]),
           UNCHANGED <<rollouts, taskOf, goldens, pendingEnvs, pendingSnaps, retrying, replicas, stored, cleanClose>>
    PROVE  NemoInv'
<1>1. NemoTyping /\ Control /\ Bounded /\ Terminal /\ Calm(c) /\ Onward(c) /\ (Owes(th'[c].todo) => Owes(th[c].todo))
  BY DEF NemoInv, Quiet
<1>2. NemoTyping'
  BY <1>1 DEF NemoTyping, Onward, Stepped
<1>3. Control'
  BY <1>1, OnwardControl
<1>4. Locks' /\ Numbers' /\ EnvsOK' /\ SnapsOK' /\ LeasesOK'
  BY <1>1, CalmKeeps
<1>5. Backlog' = Backlog /\ RetryInflight' = RetryInflight
  BY DEF Backlog, RetryInflight
<1>6. Bounded'
  <2>1. Backlog' + RetryInflight' <= Backlog + RetryInflight
    BY <1>1, <1>5, BoundsTyped
  <2> QED BY <1>1, <1>2, <2>1, QuietOwing, BoundedLess
<1>7. Terminal'
  BY <1>1, <1>2, <1>5, TerminalGoesOn
<1> QED BY <1>2, <1>3, <1>4, <1>6, <1>7 DEF NemoInv

--------------------------------------------------------------------------------
(* The actions that only move their thread on.                                  *)

\* To go on is not to report ...
LEMMA MovedOn ==
    ASSUME NemoTyping, Control, NEW c \in Callers, NEW x, At(c, x), Goes(c), x \notin {"reserve", "again"}
    PROVE  th'[c].op # "none" \/ ~Past(th[c])
<1>1. th'[c].op = th[c].op
  BY First, Going
<1> QED BY <1>1 DEF Past

\* ... and these are no steps of a close that has yet to.
LEMMA NotToClose ==
    ASSUME Control, NEW c \in Callers, NEW x \in {"lock", "use", "evaluate", "release", "leave", "unlock", "begin", "drained", "reserve"},
           At(c, x)
    PROVE  ~Past(th[c]) /\ Head(th[c].todo) \notin {"drain_envs", "drain_snaps", "retry_envs", "retry_snaps"}
<1>1. /\ x \in Of[th[c].op] /\ Has(th[c].todo, x) /\ Head(th[c].todo) = x
  BY First
<1>2. {"lock", "use", "evaluate", "release", "leave", "unlock", "reserve"} \cap Of["close"] = {}
  BY DEF Of
<1> QED BY <1>1, <1>2 DEF Past

\* The engine's locks, drains and waits.
LEMMA QuietActions ==
    ASSUME NemoInv, NEW c \in Callers,
           \/ Lock(c) \/ Use(c) \/ Release(c) \/ LeaveCall(c) \/ Unlock(c)
           \/ Begin(c) \/ AwaitClosed(c) \/ AwaitDrained(c) \/ Again(c) \/ PublishClosed(c)
    PROVE  NemoInv'
<1> DEFINE Same4 == UNCHANGED <<rollouts, taskOf, goldens, pendingEnvs, pendingSnaps, retrying, replicas, stored, cleanClose>>
           Late == {"drain_envs", "drain_snaps", "retry_envs", "retry_snaps"}
<1>1. NemoTyping /\ Control
  BY DEF NemoInv
<1>2. ASSUME Quiet(c), Same4, engine' \in {"open", "closing", "closed"}, Head(th[c].todo) \notin Late,
             th'[c].op # "none" \/ ~Past(th[c])
      PROVE  NemoInv'
  <2>1. \A d \in Callers : d # c => th'[d] = th[d]
    BY <1>2 DEF Quiet, Calm, Stepped
  <2>2. Retriers'
    BY <1>1, <1>2, <2>1, RetriersStay
  <2> QED BY <1>2, <2>2, QuietInv
<1>3. engine \in {"open", "closing", "closed"}
  BY <1>1 DEF NemoTyping
<1>4. CASE Lock(c)
  BY <1>1, <1>2, <1>3, <1>4, LockQuiet, NotToClose DEF Lock
<1>5. CASE Use(c)
  BY <1>1, <1>2, <1>3, <1>5, UseQuiet, NotToClose DEF Use
<1>6. CASE Release(c)
  BY <1>1, <1>2, <1>3, <1>6, ReleaseQuiet, NotToClose DEF Release
<1>7. CASE LeaveCall(c)
  BY <1>1, <1>2, <1>3, <1>7, OverQuiet, NotToClose DEF LeaveCall
<1>8. CASE Unlock(c)
  BY <1>1, <1>2, <1>3, <1>8, UnlockQuiet, NotToClose DEF Unlock
<1>9. CASE Begin(c)
  <2>1. Same4 /\ engine' \in {"open", "closing", "closed"} /\ At(c, "begin")
    BY <1>3, <1>9 DEF Begin
  <2> QED BY <1>1, <1>2, <1>9, <2>1, BeginQuiet, NotToClose
<1>10. CASE AwaitClosed(c)
  <2>1. At(c, "closed") /\ Goes(c) /\ Same4 /\ engine' = engine
    BY <1>10 DEF AwaitClosed
  <2>2. Quiet(c) /\ Head(th[c].todo) = "closed"
    BY <1>1, <2>1, CloseGoes, First
  <2>3. th'[c].op # "none" \/ ~Past(th[c])
    BY <1>1, <2>1, MovedOn
  <2> QED BY <1>2, <1>3, <2>1, <2>2, <2>3
<1>11. CASE AwaitDrained(c)
  BY <1>1, <1>2, <1>3, <1>11, AwaitDrainedQuiet, NotToClose DEF AwaitDrained
<1>12. CASE Again(c)
  <2>1. At(c, "again") /\ Same4 /\ engine' = engine
    BY <1>12 DEF Again
  <2>2. Quiet(c) /\ th'[c].op = "close" /\ Head(th[c].todo) = "again"
    BY <1>1, <1>12, <2>1, AgainQuiet, First
  <2> QED BY <1>2, <1>3, <2>1, <2>2
<1>13. CASE PublishClosed(c)
  <2>1. At(c, "publish_closed") /\ Goes(c) /\ Same4 /\ engine' = "closed"
    BY <1>13 DEF PublishClosed
  <2>2. Quiet(c) /\ Head(th[c].todo) = "publish_closed"
    BY <1>1, <2>1, CloseGoes, First
  <2>3. th'[c].op # "none" \/ ~Past(th[c])
    BY <1>1, <2>1, MovedOn
  <2> QED BY <1>2, <2>1, <2>2, <2>3
<1> QED BY <1>4, <1>5, <1>6, <1>7, <1>8, <1>9, <1>10, <1>11, <1>12, <1>13

\* A close says whether anything is left: its thread was past all calls.
LEMMA VerdictInv ==
    ASSUME NemoInv, NEW c \in Callers, Verdict(c)
    PROVE  NemoInv'
<1>1. NemoTyping /\ Control /\ Bounded /\ Terminal
  BY DEF NemoInv
<1>2. /\ At(c, "verdict") /\ Becomes(c, NoCall) /\ engine' = engine
      /\ UNCHANGED <<rollouts, taskOf, goldens, pendingEnvs, pendingSnaps, retrying, replicas, stored>>
      /\ cleanClose' = IF Raises(c) THEN {} ELSE cleanClose \cup {th[c].delete}
  BY DEF Verdict
<1>3. Quiet(c)
  BY <1>1, <1>2, OverQuiet
<1>4. Calm(c) /\ Onward(c) /\ (Owes(th'[c].todo) => Owes(th[c].todo)) /\ \A d \in Callers : d # c => th'[d] = th[d]
  BY <1>3 DEF Quiet, Calm, Stepped
<1>5. th[c].op = "close" /\ th[c].delete \in BOOLEAN /\ Head(th[c].todo) = "verdict"
      /\ ~Has(th[c].todo, "begin") /\ ~Has(th[c].todo, "drained")
  BY <1>1, <1>2, CloseStep, Alone DEF Thread
<1>6. engine # "open" /\ Drained
  BY <1>1, <1>5 DEF Control, Past
<1>7. NemoTyping'
  BY <1>1, <1>2, <1>4, <1>5 DEF NemoTyping, Onward, Stepped
<1>8. Retriers'
  BY <1>1, <1>2, <1>4, <1>5, RetriersStay
<1>9. Control' /\ Drained'
  BY <1>1, <1>4, <1>6, <1>8, OnwardControl
<1>10. Locks' /\ Numbers' /\ EnvsOK' /\ SnapsOK' /\ LeasesOK'
  BY <1>2, <1>4, CalmKeeps
<1>11. Backlog' = Backlog /\ RetryInflight' = RetryInflight
  BY <1>2 DEF Backlog, RetryInflight
<1>12. Bounded'
  <2>1. Backlog' + RetryInflight' <= Backlog + RetryInflight
    BY <1>1, <1>11, BoundsTyped
  <2> QED BY <1>1, <1>4, <1>7, <2>1, QuietOwing, BoundedLess
<1>13. Terminal'
  <2>1. CASE Raises(c)
    BY <1>2, <2>1 DEF Terminal
  <2>2. CASE ~Raises(c)
    <3>1. /\ Backlog' = 0 /\ \A s \in Sessions : rollouts'[s] = 0
          /\ th[c].delete => \A t \in Tasks : goldens'[t].snap = 0
      BY <1>2, <1>11, <2>2 DEF Raises, Goldens, HasGolden
    <3>2. TRUE \in cleanClose' => TRUE \in cleanClose \/ th[c].delete
      BY <1>2, <2>2
    <3>3. TRUE \in cleanClose' => \A t \in Tasks : goldens'[t].snap = 0
      BY <1>1, <1>2, <3>1, <3>2 DEF Terminal
    <3>4. engine' # "open" /\ Drained'
      BY <1>2, <1>6, <1>9
    <3> QED BY <3>1, <3>3, <3>4 DEF Terminal
  <2> QED BY <2>1, <2>2
<1> QED BY <1>7, <1>9, <1>10, <1>12, <1>13 DEF NemoInv

\* A call is let in only while the engine is open, a close at any time.
LEMMA CallInv ==
    ASSUME NemoInv, NEW c \in Callers, Call(c)
    PROVE  NemoInv'
<1>1. NemoTyping /\ Control /\ Bounded /\ Terminal
  BY DEF NemoInv
<1>2. /\ th[c].op = "none"
      /\ UNCHANGED <<rollouts, taskOf, goldens, pendingEnvs, pendingSnaps, retrying, engine, replicas, stored, cleanClose>>
  BY DEF Call
<1>3. /\ Calm(c) /\ Same(th[c].todo, th'[c].todo) /\ Stepped(c)
      /\ \/ th'[c].op # "close" /\ engine = "open"
         \/ th'[c].op = "close" /\ Has(th'[c].todo, "begin")
  BY <1>1, CallCalm DEF Calm
<1>4. \A d \in Callers : d # c => th'[d] = th[d]
  BY <1>3 DEF Stepped
<1>5. NemoTyping'
  BY <1>1, <1>2, <1>3 DEF NemoTyping, Stepped
<1>6. th[c].todo = <<>>
  <2>1. ListFor(th[c].todo, "none")
    BY <1>1, <1>2 DEF Control, ThreadOK
  <2>2. th[c].todo # <<>> => Head(th[c].todo) \in Of["none"]
    BY <2>1, Popped DEF ListFor
  <2>3. Of["none"] = {}
    BY DEF Of
  <2> QED BY <2>2, <2>3
<1>7. Retriers'
  BY <1>1, <1>2, <1>4, <1>6, RetriersStay
<1>8. engine # "open" /\ Drained => Drained'
  BY <1>3, <1>4 DEF Drained, Active
<1>9. Control'
  <2>1. \A d \in Callers : ThreadOK(th'[d])
    BY <1>1, <1>3, <1>4 DEF Control, Stepped
  <2>2. \A d \in Callers : th'[d].op = "close" /\ ~Has(th'[d].todo, "begin") => d # c /\ th'[d] = th[d] /\ engine # "open"
    BY <1>1, <1>3, <1>4 DEF Control
  <2>3. \A d \in Callers : Past(th'[d]) => Drained'
    BY <1>1, <1>8, <2>2 DEF Control, Past
  <2> QED BY <1>2, <1>7, <2>1, <2>2, <2>3 DEF Control
<1>10. Locks' /\ Numbers' /\ EnvsOK' /\ SnapsOK' /\ LeasesOK'
  BY <1>2, <1>3, CalmKeeps
<1>11. Backlog' = Backlog /\ RetryInflight' = RetryInflight
  BY <1>2 DEF Backlog, RetryInflight
<1>12. Bounded'
  <2>1. Backlog' + RetryInflight' <= Backlog + RetryInflight
    BY <1>1, <1>11, BoundsTyped
  <2>2. Owing' \subseteq Owing
    BY <1>3, <1>4 DEF Owing, Same
  <2> QED BY <1>1, <1>5, <2>1, <2>2, BoundedLess
<1>13. Terminal'
  <2>1. \A d \in Callers : Past(th[d]) => Past(th'[d])
    BY <1>2, <1>4 DEF Past
  <2>2. Reporting # {} => Reporting' # {}
    BY <1>1, <1>5, <2>1, ReportingIsPast
  <2> QED BY <1>1, <1>2, <1>8, <1>11, <2>2 DEF Terminal
<1> QED BY <1>5, <1>9, <1>10, <1>12, <1>13 DEF NemoInv

\* Whoever may owe something has a place reserved for it.
LEMMA OwingReserves ==
    ASSUME Control, NemoTyping
    PROVE  Cardinality(Owing) <= Reservations /\ Reservations \in Nat /\ Cardinality(Owing) \in Nat /\ IsFiniteSet(Owing)
<1> DEFINE R == {c \in Callers : th[c].reserved}
<1>1. Owing \subseteq R /\ R \subseteq Callers
  BY DEF Control, ThreadOK, Owing
<1> HIDE DEF R
<1>2. IsFiniteSet(R) /\ Cardinality(R) \in Nat /\ Owing \subseteq Callers
  BY <1>1, OwingFinite
<1>3. IsFiniteSet(Owing) /\ Cardinality(Owing) \in Nat
  BY <1>2, OwingFinite
<1>4. Cardinality(Owing) <= Cardinality(R)
  BY <1>1, <1>2, FS_Subset
<1>5. Reservations = Cardinality(R)
  BY DEF Reservations, R
<1> QED BY <1>2, <1>3, <1>4, <1>5

\* Room for one more.
LEMMA RoomForOne ==
    ASSUME NemoTyping, Control, NemoTyping', ~(Pressure >= MaxPending), NEW c \in Callers, Owing' \subseteq Owing \cup {c},
           Backlog' = Backlog, RetryInflight' = RetryInflight
    PROVE  Bounded'
<1>1. Cardinality(Owing) <= Reservations /\ Reservations \in Nat /\ Cardinality(Owing) \in Nat /\ IsFiniteSet(Owing)
  BY OwingReserves
<1>2. IsFiniteSet(Owing \cup {c}) /\ Cardinality(Owing \cup {c}) <= Cardinality(Owing) + 1
      /\ Cardinality(Owing \cup {c}) \in Nat
  <2>1. IsFiniteSet(Owing \cup {c}) /\ Cardinality(Owing \cup {c}) = IF c \in Owing THEN Cardinality(Owing) ELSE Cardinality(Owing) + 1
    BY <1>1, FS_AddElement
  <2> QED BY <1>1, <2>1
<1>3. Cardinality(Owing') <= Cardinality(Owing \cup {c}) /\ Cardinality(Owing') \in Nat
  <2>1. Owing' \subseteq Callers
    BY DEF Owing
  <2> QED BY <1>2, <2>1, FS_Subset, OwingFinite
<1>4. Backlog \in Nat /\ RetryInflight \in Nat /\ MaxPending \in Nat
  BY BoundsTyped
<1>5. ~(Backlog + RetryInflight + Reservations >= MaxPending)
  BY DEF Pressure
<1>6. ASSUME NEW b \in Nat, NEW i \in Nat, NEW r \in Nat, NEW k \in Nat, NEW kk \in Nat, NEW k1 \in Nat, NEW m \in Nat,
             ~(b + i + r >= m), k <= r, k1 <= k + 1, kk <= k1
      PROVE  b + i + kk <= m
  BY <1>6
<1>7. Backlog + RetryInflight + Cardinality(Owing') <= MaxPending
  BY <1>1, <1>2, <1>3, <1>4, <1>5, <1>6
<1> QED BY <1>7 DEF Bounded, Owing

\* _cleanup_admission reserves within the bound.
LEMMA ReserveInv ==
    ASSUME NemoInv, NEW c \in Callers, Reserve(c)
    PROVE  NemoInv'
<1>1. NemoTyping /\ Control /\ Bounded /\ Terminal
  BY DEF NemoInv
<1>2. /\ At(c, "reserve")
      /\ UNCHANGED <<rollouts, taskOf, goldens, pendingEnvs, pendingSnaps, retrying, engine, replicas, stored, cleanClose>>
  BY DEF Reserve
<1>3. /\ Calm(c) /\ Onward(c) /\ Stepped(c) /\ (Owes(th'[c].todo) => ~(Pressure >= MaxPending))
      /\ \A d \in Callers : d # c => th'[d] = th[d]
  BY <1>1, ReserveCalm DEF Onward, Stepped
<1>4. ~Past(th[c]) /\ Head(th[c].todo) \notin {"drain_envs", "drain_snaps", "retry_envs", "retry_snaps"}
  BY <1>1, <1>2, NotToClose
<1>5. NemoTyping'
  BY <1>1, <1>2, <1>3 DEF NemoTyping, Stepped
<1>6. Control'
  BY <1>1, <1>2, <1>3, <1>4, RetriersStay, OnwardControl
<1>7. Locks' /\ Numbers' /\ EnvsOK' /\ SnapsOK' /\ LeasesOK'
  BY <1>2, <1>3, CalmKeeps
<1>8. Backlog' = Backlog /\ RetryInflight' = RetryInflight
  BY <1>2 DEF Backlog, RetryInflight
<1>9. Bounded'
  <2>1. CASE Owes(th'[c].todo)
    <3>1. Owing' \subseteq Owing \cup {c}
      BY <1>3 DEF Owing
    <3> QED BY <1>1, <1>3, <1>5, <1>8, <2>1, <3>1, RoomForOne
  <2>2. CASE ~Owes(th'[c].todo)
    <3>1. Owing' \subseteq Owing
      BY <2>2, <1>3 DEF Owing
    <3>2. Backlog' + RetryInflight' <= Backlog + RetryInflight
      BY <1>1, <1>8, BoundsTyped
    <3> QED BY <1>1, <1>5, <3>1, <3>2, BoundedLess
  <2> QED BY <2>1, <2>2
<1>10. Terminal'
  BY <1>1, <1>2, <1>3, <1>4, <1>5, <1>8, TerminalGoesOn
<1> QED BY <1>5, <1>6, <1>7, <1>9, <1>10 DEF NemoInv

--------------------------------------------------------------------------------
(* A round of retries.                                                          *)

\* What is in a round is of one kind.
LEMMA Rounds ==
    /\ NemoTyping => /\ retrying.by # {} => EnvsInRetry \cup SnapsInRetry = ToSet(retrying.left) \cup ToSet(retrying.failed)
                     /\ EnvsInRetry = {} \/ (retrying.by # {} /\ retrying.kind = "envs")
                     /\ SnapsInRetry = {} \/ (retrying.by # {} /\ retrying.kind = "snaps")
    /\ NemoTyping' => /\ retrying'.by # {} => EnvsInRetry' \cup SnapsInRetry' = ToSet(retrying'.left) \cup ToSet(retrying'.failed)
                      /\ EnvsInRetry' = {} \/ (retrying'.by # {} /\ retrying'.kind = "envs")
                      /\ SnapsInRetry' = {} \/ (retrying'.by # {} /\ retrying'.kind = "snaps")
<1>1. ASSUME NEW p \in Seq(Nat), NEW q \in Seq(Nat) PROVE ToSet(p \o q) = ToSet(p) \cup ToSet(q)
  BY InBoth
<1>2. NemoTyping => /\ retrying.left \in Seq(Nat) /\ retrying.failed \in Seq(Nat) /\ retrying.kind \in {"envs", "snaps"}
  BY DEF NemoTyping
<1>3. NemoTyping' => /\ retrying'.left \in Seq(Nat) /\ retrying'.failed \in Seq(Nat) /\ retrying'.kind \in {"envs", "snaps"}
  BY DEF NemoTyping
<1>4. NemoTyping => ToSet(retrying.left \o retrying.failed) = ToSet(retrying.left) \cup ToSet(retrying.failed)
  BY <1>1, <1>2
<1>5. NemoTyping' => ToSet(retrying'.left \o retrying'.failed) = ToSet(retrying'.left) \cup ToSet(retrying'.failed)
  BY <1>1, <1>3
<1> QED BY <1>2, <1>3, <1>4, <1>5 DEF EnvsInRetry, SnapsInRetry

\* What a round does to what waits to be freed.
LEMMA RoundKeeps ==
    ASSUME NemoInv, NemoTyping', NEW c \in Callers, Quiet(c), Retriers',
           UNCHANGED <<rollouts, taskOf, goldens, engine, cleanClose>>,
           Queued' \subseteq Queued, replicas' \subseteq replicas,
           \A x \in replicas \ replicas' : x \in Queued,
           \A x \in Queued \ Queued' : x \notin replicas',
           QueuedSnaps' \subseteq QueuedSnaps, stored' \subseteq stored,
           \A x \in stored \ stored' : x \in QueuedSnaps,
           \A x \in QueuedSnaps \ QueuedSnaps' : x \notin stored',
           Backlog' + RetryInflight' <= Backlog + RetryInflight,
           th'[c].op # "none" \/ ~Past(th[c]),
           Backlog' # 0 => Backlog # 0 \/ Past(th[c]) \/ ~Drained
    PROVE  NemoInv'
<1>1. /\ NemoTyping /\ Control /\ Locks /\ Numbers /\ EnvsOK /\ SnapsOK /\ LeasesOK /\ Bounded /\ Terminal
      /\ Calm(c) /\ Onward(c) /\ (Owes(th'[c].todo) => Owes(th[c].todo))
  BY DEF NemoInv, Quiet
<1>2. Control'
  BY <1>1, OnwardControl
<1>3. Locks'
  BY <1>1, LocksCalm
<1>4. Numbers'
  <2>1. OutRollouts' = OutRollouts /\ Snaps' = Snaps
    BY DEF OutRollouts, Snaps
  <2> QED BY <1>1, <2>1, NumbersCalm
<1>5. EnvsOK'
  BY <1>1, EnvsCalm
<1>6. SnapsOK'
  BY <1>1, SnapsCalm
<1>7. LeasesOK'
  BY <1>1, LeasesCalm
<1>8. Bounded'
  BY <1>1, QuietOwing, BoundedLess
<1>9. Terminal'
  BY <1>1, TerminalGoesOn
<1> QED BY <1>2, <1>3, <1>4, <1>5, <1>6, <1>7, <1>8, <1>9 DEF NemoInv

\* A round takes its batch out of the backlog ...
LEMMA DrainInv ==
    ASSUME NemoInv, NEW c \in Callers, Drain(c)
    PROVE  NemoInv'
<1> DEFINE Late == {"drain_envs", "drain_snaps", "retry_envs", "retry_snaps"}
<1>1. NemoTyping /\ Control
  BY DEF NemoInv
<1>2. PICK x \in Late, kind \in {"envs", "snaps"}, n \in Nat : At(c, x) /\ StartRetry(c, kind, n)
  <2>1. Len(pendingEnvs) \in Nat /\ Len(pendingSnaps) \in Nat /\ RetryBatch \in Nat
    BY <1>1, BoundsTyped
  <2> QED BY <2>1 DEF Drain
<1>3. /\ retrying.by # {c}
      /\ UNCHANGED <<rollouts, taskOf, goldens, engine, replicas, stored, cleanClose>>
  BY DEF Drain
<1> DEFINE q == IF kind = "envs" THEN pendingEnvs ELSE pendingSnaps
<1>4. CASE retrying.by # {} \/ q = <<>>
  <2>1. Goes(c) /\ UNCHANGED <<pendingEnvs, pendingSnaps, retrying>>
    BY <1>2, <1>4 DEF StartRetry
  <2>2. Quiet(c)
    BY <1>1, <1>2, <1>3, <2>1, DrainsGoes
  <2>3. \A d \in Callers : d # c => th'[d] = th[d]
    BY <2>2 DEF Quiet, Calm, Stepped
  <2>4. Retriers'
    BY <1>1, <1>3, <2>1, <2>3 DEF Control, Retriers
  <2>5. th'[c].op # "none" \/ ~Past(th[c])
    BY <1>1, <1>2, <2>1, MovedOn
  <2>6. engine' \in {"open", "closing", "closed"}
    BY <1>1, <1>3 DEF NemoTyping
  <2> QED BY <1>3, <2>1, <2>2, <2>4, <2>5, <2>6, QuietInv
<1>5. CASE retrying.by = {} /\ q # <<>>
  <2>1. /\ retrying' = [by |-> {c}, kind |-> kind, left |-> Take(q, n), failed |-> <<>>] /\ UNCHANGED th
        /\ kind = "envs" => pendingEnvs' = Left(q, n) /\ UNCHANGED pendingSnaps
        /\ kind = "snaps" => pendingSnaps' = Left(q, n) /\ UNCHANGED pendingEnvs
    BY <1>2, <1>5 DEF StartRetry
  <2>2. q \in Seq(Nat) /\ pendingEnvs \in Seq(Nat) /\ pendingSnaps \in Seq(Nat)
    BY <1>1 DEF NemoTyping
  <2>3. (kind = "envs" => q = pendingEnvs) /\ (kind = "snaps" => q = pendingSnaps)
    BY <1>2
  <2> HIDE DEF q
  <2>4. /\ Take(q, n) \in Seq(Nat) /\ Left(q, n) \in Seq(Nat) /\ Len(Take(q, n)) + Len(Left(q, n)) = Len(q)
        /\ ToSet(Take(q, n)) \cup ToSet(Left(q, n)) = ToSet(q)
    BY <2>2, Split
  <2>5. <<>> \in Seq(Nat) /\ Len(<<>>) = 0 /\ ToSet(<<>>) = {}
    BY DEF ToSet
  <2>6. NemoTyping'
    BY <1>1, <1>2, <1>3, <2>1, <2>4, <2>5 DEF NemoTyping
  <2>7. /\ retrying'.by = {c} /\ retrying'.kind = kind /\ retrying'.left = Take(q, n) /\ retrying'.failed = <<>>
    BY <2>1
  <2>8. EnvsInRetry' \cup SnapsInRetry' = ToSet(Take(q, n)) /\ EnvsInRetry = {} /\ SnapsInRetry = {}
        /\ (kind = "envs" => SnapsInRetry' = {}) /\ (kind = "snaps" => EnvsInRetry' = {})
    BY <1>1, <1>5, <2>5, <2>6, <2>7, Rounds
  <2>9. Queued' = Queued /\ QueuedSnaps' = QueuedSnaps
    BY <1>2, <2>1, <2>3, <2>4, <2>8 DEF Queued, QueuedSnaps
  <2>10. Backlog' + RetryInflight' <= Backlog + RetryInflight /\ (Backlog' # 0 => Backlog # 0)
    <3>1. RetryInflight' = Len(Take(q, n)) + Len(<<>>) /\ RetryInflight = 0
      BY <1>5, <2>7 DEF RetryInflight
    <3>2. Len(Take(q, n)) \in Nat /\ Len(Left(q, n)) \in Nat /\ Len(q) \in Nat /\ Len(pendingEnvs) \in Nat /\ Len(pendingSnaps) \in Nat
      BY <2>2, <2>4
    <3>3. CASE kind = "envs"
      BY <3>1, <3>2, <3>3, <2>1, <2>3, <2>4, <2>5 DEF Backlog
    <3>4. CASE kind = "snaps"
      BY <3>1, <3>2, <3>4, <2>1, <2>3, <2>4, <2>5 DEF Backlog
    <3> QED BY <1>2, <3>3, <3>4
  <2>11. Quiet(c)
    BY <1>1, <1>3, <2>1, StaysQuiet
  <2>12. Retriers'
    <3>1. th[c].todo # <<>> /\ Head(th[c].todo) \in Late
      BY <1>1, <1>2, First
    <3> QED BY <2>1, <2>7, <3>1 DEF Retriers
  <2>13. th'[c].op # "none" \/ ~Past(th[c])
    BY <2>1 DEF Past
  <2> QED BY <1>3, <2>6, <2>9, <2>10, <2>11, <2>12, <2>13, RoundKeeps
<1> QED BY <1>4, <1>5

\* ... tries one after another ...
LEMMA RetryInv ==
    ASSUME NemoInv, NEW c \in Callers, Retry(c)
    PROVE  NemoInv'
<1> DEFINE x == Head(retrying.left)
           l == Tail(retrying.left)
<1>1. NemoTyping /\ Control
  BY DEF NemoInv
<1>2. /\ retrying.by = {c} /\ retrying.left # <<>>
      /\ UNCHANGED <<rollouts, taskOf, goldens, pendingEnvs, pendingSnaps, engine, th, cleanClose>>
  BY DEF Retry
<1>3. \/ /\ retrying' = [retrying EXCEPT !.left = l]
         /\ IF retrying.kind = "envs" THEN replicas' = replicas \ {x} /\ UNCHANGED stored
                                      ELSE stored' = stored \ {x} /\ UNCHANGED replicas
      \/ /\ retrying' = [retrying EXCEPT !.left = l, !.failed = Append(@, x)]
         /\ UNCHANGED <<replicas, stored>>
  BY DEF Retry
<1>4. /\ retrying.left \in Seq(Nat) /\ retrying.failed \in Seq(Nat) /\ retrying.kind \in {"envs", "snaps"}
      /\ retrying \in [by : SUBSET Callers, kind : {"envs", "snaps"}, left : Seq(Nat), failed : Seq(Nat)]
  BY <1>1 DEF NemoTyping
<1>5. /\ x \in Nat /\ l \in Seq(Nat) /\ Len(l) + 1 = Len(retrying.left) /\ ToSet(retrying.left) = ToSet(l) \cup {x} /\ Len(l) \in Nat
  BY <1>2, <1>4, RestOfRound
<1>6. /\ Append(retrying.failed, x) \in Seq(Nat) /\ Len(Append(retrying.failed, x)) = Len(retrying.failed) + 1
      /\ ToSet(Append(retrying.failed, x)) = ToSet(retrying.failed) \cup {x}
  BY <1>4, <1>5, OneMore
<1> DEFINE f == retrying'.failed
<1>7. /\ retrying' \in [by : SUBSET Callers, kind : {"envs", "snaps"}, left : Seq(Nat), failed : Seq(Nat)]
      /\ retrying'.by = {c} /\ retrying'.kind = retrying.kind /\ retrying'.left = l
      /\ f = retrying.failed \/ f = Append(retrying.failed, x)
      /\ f = retrying.failed =>
            \/ UNCHANGED <<replicas, stored>> /\ retrying.failed = Append(retrying.failed, x)
            \/ IF retrying.kind = "envs" THEN replicas' = replicas \ {x} /\ UNCHANGED stored
                                         ELSE stored' = stored \ {x} /\ UNCHANGED replicas
      /\ f # retrying.failed => UNCHANGED <<replicas, stored>>
  <2> HIDE DEF x, l
  <2>1. CASE retrying' = [retrying EXCEPT !.left = l]
    <3>1. retrying'.failed = retrying.failed
      BY <1>4, <2>1
    <3>2. Append(retrying.failed, x) # retrying.failed
      BY <1>4, <1>5, <1>6
    <3>3. retrying' # [retrying EXCEPT !.left = l, !.failed = Append(@, x)]
      BY <1>4, <3>1, <3>2
    <3> QED BY <1>2, <1>3, <1>4, <1>5, <2>1, <3>1, <3>3
  <2>2. CASE retrying' = [retrying EXCEPT !.left = l, !.failed = Append(@, x)] /\ UNCHANGED <<replicas, stored>>
    <3>1. retrying'.failed = Append(retrying.failed, x)
      BY <1>4, <2>2
    <3>2. Append(retrying.failed, x) # retrying.failed
      BY <1>4, <1>5, <1>6
    <3> QED BY <1>2, <1>4, <1>5, <1>6, <2>2, <3>1, <3>2
  <2> QED BY <1>3, <2>1, <2>2
<1> HIDE DEF x, l, f
<1>8. replicas' \subseteq replicas /\ stored' \subseteq stored
  BY <1>7
<1>9. NemoTyping'
  BY <1>1, <1>2, <1>7, <1>8 DEF NemoTyping
<1>10. /\ EnvsInRetry \cup SnapsInRetry = ToSet(retrying.left) \cup ToSet(retrying.failed)
       /\ EnvsInRetry' \cup SnapsInRetry' = ToSet(l) \cup ToSet(f)
       /\ retrying.kind = "envs" => SnapsInRetry = {} /\ SnapsInRetry' = {}
       /\ retrying.kind = "snaps" => EnvsInRetry = {} /\ EnvsInRetry' = {}
  BY <1>1, <1>2, <1>7, <1>9, Rounds DEF f
<1>11. /\ ToSet(l) \cup ToSet(f) \subseteq ToSet(retrying.left) \cup ToSet(retrying.failed)
       /\ \A y \in (ToSet(retrying.left) \cup ToSet(retrying.failed)) \ (ToSet(l) \cup ToSet(f)) :
             y = x /\ IF retrying.kind = "envs" THEN replicas' = replicas \ {x} /\ UNCHANGED stored
                                                ELSE stored' = stored \ {x} /\ UNCHANGED replicas
  BY <1>5, <1>6, <1>7
<1>12. x \in ToSet(retrying.left)
  BY <1>5
<1>13. /\ Queued' \subseteq Queued /\ QueuedSnaps' \subseteq QueuedSnaps
       /\ \A y \in replicas \ replicas' : y \in Queued
       /\ \A y \in Queued \ Queued' : y \notin replicas'
       /\ \A y \in stored \ stored' : y \in QueuedSnaps
       /\ \A y \in QueuedSnaps \ QueuedSnaps' : y \notin stored'
  <2>1. CASE retrying.kind = "envs"
    <3>1. EnvsInRetry = ToSet(retrying.left) \cup ToSet(retrying.failed) /\ EnvsInRetry' = ToSet(l) \cup ToSet(f)
          /\ SnapsInRetry' = SnapsInRetry
      BY <2>1, <1>10
    <3>2. stored' = stored /\ \A y \in replicas \ replicas' : y = x
      BY <2>1, <1>7
    <3> QED BY <1>2, <1>11, <1>12, <2>1, <3>1, <3>2 DEF Queued, QueuedSnaps
  <2>2. CASE retrying.kind = "snaps"
    <3>1. SnapsInRetry = ToSet(retrying.left) \cup ToSet(retrying.failed) /\ SnapsInRetry' = ToSet(l) \cup ToSet(f)
          /\ EnvsInRetry' = EnvsInRetry
      BY <2>2, <1>10
    <3>2. replicas' = replicas /\ \A y \in stored \ stored' : y = x
      BY <2>2, <1>7
    <3> QED BY <1>2, <1>11, <1>12, <2>2, <3>1, <3>2 DEF Queued, QueuedSnaps
  <2> QED BY <1>4, <2>1, <2>2
<1>14. Backlog' = Backlog /\ Backlog' + RetryInflight' <= Backlog + RetryInflight
  <2>1. Backlog' = Backlog /\ Backlog \in Nat /\ Len(retrying.failed) \in Nat
    BY <1>1, <1>2, BoundsTyped DEF Backlog
  <2>2. RetryInflight = Len(retrying.left) + Len(retrying.failed) /\ RetryInflight' = Len(l) + Len(f)
    BY <1>2, <1>7 DEF RetryInflight, f
  <2>3. Len(f) = Len(retrying.failed) \/ Len(f) = Len(retrying.failed) + 1
    BY <1>6, <1>7
  <2>4. ASSUME NEW b \in Nat, NEW a \in Nat, NEW n \in Nat, NEW k, k = n \/ k = n + 1
        PROVE  b + (a + k) <= b + ((a + 1) + n)
    BY <2>4
  <2>5. Backlog + (Len(l) + Len(f)) <= Backlog + ((Len(l) + 1) + Len(retrying.failed))
    BY <1>5, <2>1, <2>3, <2>4
  <2> QED BY <1>5, <2>1, <2>2, <2>5
<1>15. Quiet(c)
  BY <1>1, <1>2, StaysQuiet
<1>16. Retriers'
  <2>1. PICK d \in Callers : /\ retrying.by = {d} /\ th[d].todo # <<>>
                             /\ Head(th[d].todo) \in {"drain_envs", "drain_snaps", "retry_envs", "retry_snaps"}
    BY <1>1, <1>2 DEF Control, Retriers
  <2>2. d = c
    BY <2>1, <1>2
  <2> QED BY <1>2, <1>7, <2>1, <2>2 DEF Retriers
<1>17. th'[c].op # "none" \/ ~Past(th[c])
  BY <1>2 DEF Past
<1> QED BY <1>2, <1>8, <1>9, <1>13, <1>14, <1>15, <1>16, <1>17, RoundKeeps

\* ... and puts back what failed.
LEMMA EndRetryInv ==
    ASSUME NemoInv, NEW c \in Callers, EndRetry(c)
    PROVE  NemoInv'
<1>1. NemoTyping /\ Control
  BY DEF NemoInv
<1>2. /\ retrying.by = {c} /\ retrying.left = <<>> /\ retrying' = NoRetry /\ Goes(c)
      /\ UNCHANGED <<rollouts, taskOf, goldens, engine, replicas, stored, cleanClose>>
      /\ retrying.kind = "envs" => pendingEnvs' = pendingEnvs \o retrying.failed /\ UNCHANGED pendingSnaps
      /\ retrying.kind # "envs" => pendingSnaps' = pendingSnaps \o retrying.failed /\ UNCHANGED pendingEnvs
  BY DEF EndRetry, Failed
<1>3. /\ retrying.failed \in Seq(Nat) /\ retrying.kind \in {"envs", "snaps"}
      /\ pendingEnvs \in Seq(Nat) /\ pendingSnaps \in Seq(Nat)
  BY <1>1 DEF NemoTyping
<1>4. PICK x \in {"drain_envs", "drain_snaps", "retry_envs", "retry_snaps"} : At(c, x)
  <2>1. PICK d \in Callers : /\ retrying.by = {d} /\ th[d].todo # <<>>
                             /\ Head(th[d].todo) \in {"drain_envs", "drain_snaps", "retry_envs", "retry_snaps"}
    BY <1>1, <1>2 DEF Control, Retriers
  <2>2. d = c
    BY <2>1, <1>2
  <2> QED BY <2>1, <2>2 DEF At
<1>5. Quiet(c)
  BY <1>1, <1>2, <1>4, DrainsGoes
<1>6. /\ NoRetry \in [by : SUBSET Callers, kind : {"envs", "snaps"}, left : Seq(Nat), failed : Seq(Nat)]
      /\ NoRetry.by = {}
  BY DEF NoRetry
<1>7. /\ pendingEnvs \o retrying.failed \in Seq(Nat) /\ pendingSnaps \o retrying.failed \in Seq(Nat)
      /\ Len(pendingEnvs \o retrying.failed) = Len(pendingEnvs) + Len(retrying.failed)
      /\ Len(pendingSnaps \o retrying.failed) = Len(pendingSnaps) + Len(retrying.failed)
      /\ ToSet(pendingEnvs \o retrying.failed) = ToSet(pendingEnvs) \cup ToSet(retrying.failed)
      /\ ToSet(pendingSnaps \o retrying.failed) = ToSet(pendingSnaps) \cup ToSet(retrying.failed)
  BY <1>3, InBoth
<1>8. NemoTyping'
  <2>1. th' \in [Callers -> Thread]
    BY <1>5 DEF Quiet, Calm, Stepped
  <2>2. pendingEnvs' \in Seq(Nat) /\ pendingSnaps' \in Seq(Nat)
    BY <1>2, <1>3, <1>7
  <2> QED BY <1>1, <1>2, <1>6, <2>1, <2>2 DEF NemoTyping
<1>9. Retriers'
  BY <1>2, <1>6 DEF Retriers
<1>10. /\ EnvsInRetry \cup SnapsInRetry = ToSet(retrying.failed) /\ EnvsInRetry' = {} /\ SnapsInRetry' = {}
       /\ retrying.kind = "envs" => SnapsInRetry = {}
       /\ retrying.kind = "snaps" => EnvsInRetry = {}
  <2>1. ToSet(<<>>) = {}
    BY DEF ToSet
  <2> QED BY <1>1, <1>2, <1>6, <1>8, <2>1, Rounds
<1>11. Queued' = Queued /\ QueuedSnaps' = QueuedSnaps
  <2>1. CASE retrying.kind = "envs"
    BY <2>1, <1>2, <1>7, <1>10 DEF Queued, QueuedSnaps
  <2>2. CASE retrying.kind = "snaps"
    BY <2>2, <1>2, <1>7, <1>10 DEF Queued, QueuedSnaps
  <2> QED BY <1>3, <2>1, <2>2
<1>12. Backlog' + RetryInflight' <= Backlog + RetryInflight
  <2>1. /\ Len(retrying.failed) \in Nat /\ Len(pendingEnvs) \in Nat /\ Len(pendingSnaps) \in Nat
    BY <1>1, BoundsTyped
  <2>2. RetryInflight = Len(<<>>) + Len(retrying.failed) /\ RetryInflight' = 0 /\ Len(<<>>) = 0
    BY <1>2, <1>6 DEF RetryInflight
  <2>3. Backlog' = Backlog + Len(retrying.failed)
    <3>1. ASSUME NEW e \in Nat, NEW s \in Nat, NEW f0 \in Nat PROVE (e + f0) + s = (e + s) + f0 /\ e + (s + f0) = (e + s) + f0
      OBVIOUS
    <3>2. CASE retrying.kind = "envs"
      <4>1. Len(pendingEnvs') = Len(pendingEnvs) + Len(retrying.failed) /\ Len(pendingSnaps') = Len(pendingSnaps)
        BY <3>2, <1>2, <1>7
      <4>2. Backlog' = (Len(pendingEnvs) + Len(retrying.failed)) + Len(pendingSnaps)
        BY <4>1, Zenon DEF Backlog
      <4>3. Backlog = Len(pendingEnvs) + Len(pendingSnaps)
        BY DEF Backlog
      <4> QED BY <2>1, <3>1, <4>2, <4>3, Zenon
    <3>3. CASE retrying.kind # "envs"
      <4>1. Len(pendingSnaps') = Len(pendingSnaps) + Len(retrying.failed) /\ Len(pendingEnvs') = Len(pendingEnvs)
        BY <3>3, <1>2, <1>7
      <4>2. Backlog' = Len(pendingEnvs) + (Len(pendingSnaps) + Len(retrying.failed))
        BY <4>1, Zenon DEF Backlog
      <4>3. Backlog = Len(pendingEnvs) + Len(pendingSnaps)
        BY DEF Backlog
      <4> QED BY <2>1, <3>1, <4>2, <4>3, Zenon
    <3> QED BY <3>2, <3>3
  <2>4. Backlog \in Nat
    BY <1>1, BoundsTyped
  <2> QED BY <2>1, <2>2, <2>3, <2>4
<1>13. th'[c].op # "none" \/ ~Past(th[c])
  BY <1>1, <1>2, <1>4, MovedOn
<1>14. Past(th[c]) \/ ~Drained
  <2>1. /\ x \in Of[th[c].op] /\ Has(th[c].todo, x) /\ ListFor(th[c].todo, th[c].op) /\ Head(th[c].todo) = x
        /\ th[c].todo # <<>> /\ ThreadOK(th[c]) /\ ListOK(th[c].todo)
    BY <1>1, <1>4, First
  <2>2. th[c].op \in Ops
    BY <2>1 DEF ThreadOK, Thread
  <2>3. CASE x \in {"drain_envs", "drain_snaps"}
    <3>1. Active(c)
      BY <2>1, <2>2, <2>3 DEF Of, Ops, Active, Common
    <3> QED BY <3>1 DEF Drained
  <2>4. CASE x \in {"retry_envs", "retry_snaps"}
    <3>1. th[c].op = "close"
      BY <1>1, <1>4, <2>4, CloseStep
    <3>2. Has(th[c].todo, "again") /\ ~Has(th[c].todo, "begin")
      BY <2>1, <2>4, Chained, Alone DEF Chains
    <3> QED BY <2>1, <3>1, <3>2 DEF ListFor, Past
  <2> QED BY <2>3, <2>4
<1>15. /\ \A y \in replicas \ replicas' : y \in Queued
       /\ \A y \in stored \ stored' : y \in QueuedSnaps
       /\ replicas' \subseteq replicas /\ stored' \subseteq stored
  BY <1>2
<1> QED BY <1>2, <1>5, <1>8, <1>9, <1>11, <1>12, <1>13, <1>14, <1>15, RoundKeeps

--------------------------------------------------------------------------------
(* The retained rollouts and goldens, once nobody is at work.                   *)

\* Once the calls under way are at an end nobody holds anything.
LEMMA IdleBare ==
    ASSUME NEW r, ThreadOK(r), r.op \notin {"seed", "verify", "end", "tool", "maintain"}
    PROVE  ~Hand(r.todo) /\ ~Leases(r.todo) /\ ~Resumed(r.todo) /\ ~Fixed(r.todo) /\ ~Owes(r.todo) /\ ~Has(r.todo, "build")
<1>1. r.op \in {"none", "close"} /\ ListFor(r.todo, r.op)
  BY DEF ThreadOK, Thread, Ops
<1>2. CASE r.op = "none"
  BY <1>1, <1>2, NobodyBare DEF Bare
<1>3. CASE r.op = "close"
  BY <1>1, <1>3, CloseBare
<1> QED BY <1>1, <1>2, <1>3

LEMMA NobodyAtWork ==
    ASSUME Control, Drained, NEW d \in Callers
    PROVE  ~Hand(th[d].todo) /\ ~Leases(th[d].todo) /\ ~Resumed(th[d].todo) /\ ~Fixed(th[d].todo) /\ ~Has(th[d].todo, "build")
BY IdleBare DEF Control, Drained, Active

\* _close_retained_rollouts_once and _delete_retained_goldens_once free what sessions and tasks have.
LEMMA RetainedInv ==
    ASSUME NemoInv, NEW c \in Callers, Retained(c)
    PROVE  NemoInv'
<1>1. /\ NemoTyping /\ Control /\ Locks /\ Numbers /\ EnvsOK /\ SnapsOK /\ LeasesOK /\ Bounded /\ Terminal
  BY DEF NemoInv
<1>2. /\ Goes(c)
      /\ UNCHANGED <<taskOf, pendingEnvs, pendingSnaps, retrying, engine, cleanClose>>
  BY DEF Retained
<1>3. PICK x \in {"close_rollouts", "delete_goldens"} : At(c, x)
  BY DEF Retained
<1>4. Quiet(c)
  BY <1>1, <1>2, <1>3, CloseGoes
<1>5. /\ Calm(c) /\ Onward(c) /\ (Owes(th'[c].todo) => Owes(th[c].todo)) /\ th' \in [Callers -> Thread]
      /\ \A d \in Callers : d # c => th'[d] = th[d]
  BY <1>4 DEF Quiet, Calm, Stepped
<1>6. Past(th[c]) /\ Head(th[c].todo) = x
  <2>1. /\ th[c].op = "close" /\ ListFor(th[c].todo, "close") /\ Has(th[c].todo, x) /\ ListOK(th[c].todo)
        /\ Head(th[c].todo) = x /\ th[c].todo # <<>>
    BY <1>1, <1>3, CloseStep
  <2>2. Has(th[c].todo, "again") /\ ~Has(th[c].todo, "begin")
    BY <2>1, Chained, Alone DEF Chains
  <2> QED BY <2>1, <2>2 DEF ListFor, Past
<1>7. Drained
  BY <1>1, <1>6 DEF Control
<1>8. Retriers'
  BY <1>1, <1>2, <1>5, <1>6, RetriersStay
<1>9. Control' /\ Drained'
  BY <1>1, <1>5, <1>7, <1>8, OnwardControl
<1>10. th'[c].op # "none" \/ ~Past(th[c])
  BY <1>1, <1>2, <1>3, MovedOn
<1>11. \A d \in Callers : /\ ~Hand(th[d].todo) /\ ~Leases(th[d].todo) /\ ~Resumed(th[d].todo) /\ ~Fixed(th[d].todo)
                          /\ ~Has(th[d].todo, "build")
  BY <1>1, <1>7, NobodyAtWork
<1>12. \A d \in Callers : /\ ~Hand(th'[d].todo) /\ ~Leases(th'[d].todo) /\ ~Resumed(th'[d].todo) /\ ~Fixed(th'[d].todo)
                          /\ ~Has(th'[d].todo, "build")
  BY <1>9, IdleBare DEF Control, Drained, Active
<1>13. Queued' = Queued /\ QueuedSnaps' = QueuedSnaps /\ Backlog' = Backlog /\ RetryInflight' = RetryInflight
  BY <1>2 DEF Queued, QueuedSnaps, EnvsInRetry, SnapsInRetry, Backlog, RetryInflight
<1>14. ASSUME NemoTyping' PROVE Bounded'
  <2>1. Backlog' + RetryInflight' <= Backlog + RetryInflight
    BY <1>1, <1>13, BoundsTyped
  <2> QED BY <1>1, <1>5, <1>14, <2>1, QuietOwing, BoundedLess
<1>15. InHand = {} /\ InHand' = {}
  BY <1>11, <1>12 DEF InHand
<1>16. CASE At(c, "close_rollouts")
  <2>0. UNCHANGED <<goldens, stored>>
    <3>1. ~At(c, "delete_goldens")
      BY <1>16 DEF At
    <3> QED BY <3>1 DEF Retained
  <2>1. PICK bad \in SUBSET {s \in Sessions : rollouts[s] # 0} :
             /\ rollouts' = [s \in Sessions |-> IF s \in bad THEN rollouts[s] ELSE 0]
             /\ replicas' = replicas \ {rollouts[s] : s \in Sessions \ bad}
    <3>1. ~At(c, "delete_goldens")
      BY <1>16 DEF At
    <3> QED BY <3>1 DEF Retained
  <2>2. \A s \in Sessions : rollouts'[s] = IF s \in bad THEN rollouts[s] ELSE 0
    BY <2>1
  <2>3. rollouts' \in [Sessions -> Nat] /\ replicas' \subseteq replicas
    BY <1>1, <2>1 DEF NemoTyping
  <2>4. NemoTyping'
    BY <1>1, <1>2, <1>5, <2>0, <2>3 DEF NemoTyping
  <2>5. Locks'
    BY <1>1, <1>5, <2>0, LocksCalm
  <2>6. Snaps' = Snaps /\ OutRollouts' \subseteq OutRollouts \cup {0}
    BY <2>0, <2>2 DEF Snaps, OutRollouts
  <2>7. Numbers'
    BY <1>1, <1>2, <1>5, <1>13, <2>6, NumbersCalm
  <2>8. EnvsOK'
    <3>1. \A s \in Sessions : rollouts'[s] # 0 => rollouts'[s] \in replicas' /\ rollouts'[s] \notin Queued'
      BY <1>1, <1>13, <2>1, <2>2 DEF EnvsOK
    <3>2. \A s, z \in Sessions : s # z /\ rollouts'[s] = rollouts'[z] => rollouts'[s] = 0
      BY <1>1, <2>2 DEF EnvsOK
    <3>3. ASSUME NEW y \in replicas' PROVE y \in OutRollouts' \cup Queued'
      <4>1. y \in OutRollouts \cup Queued /\ y \in replicas /\ \A s \in Sessions \ bad : y # rollouts[s]
        BY <1>1, <1>15, <2>1 DEF EnvsOK
      <4>2. ASSUME NEW s \in Sessions, y = rollouts[s] PROVE y \in OutRollouts'
        <5>1. s \in bad /\ y = rollouts'[s]
          BY <4>1, <4>2, <2>2
        <5> QED BY <5>1 DEF OutRollouts
      <4> QED BY <1>13, <4>1, <4>2 DEF OutRollouts
    <3> QED BY <1>12, <3>1, <3>2, <3>3 DEF EnvsOK
  <2>9. SnapsOK'
    BY <1>1, <1>5, <1>13, <2>0, SnapsCalm
  <2>10. LeasesOK'
    BY <1>1, <1>5, <2>0, LeasesCalm
  <2>11. Terminal'
    BY <1>1, <1>2, <1>5, <1>10, <1>13, <2>0, <2>2, <2>4, TerminalGoesOn
  <2> QED BY <1>9, <1>14, <2>4, <2>5, <2>7, <2>8, <2>9, <2>10, <2>11 DEF NemoInv
<1>17. CASE At(c, "delete_goldens")
  <2>0. UNCHANGED <<rollouts, replicas>>
    <3>1. ~At(c, "close_rollouts")
      BY <1>17 DEF At
    <3> QED BY <3>1 DEF Retained
  <2>1. PICK gone \in SUBSET Goldens :
             /\ goldens' = [t \in Tasks |-> IF t \in gone THEN NoGolden ELSE goldens[t]]
             /\ stored' = stored \ {goldens[t].snap : t \in gone}
    <3>1. ~At(c, "close_rollouts")
      BY <1>17 DEF At
    <3>2. PICK bad \in SUBSET Goldens :
             LET chosen == IF th[c].delete THEN Goldens \ bad ELSE {} IN
                /\ goldens' = [t \in Tasks |-> IF t \in chosen THEN NoGolden ELSE goldens[t]]
                /\ stored' = stored \ {goldens[t].snap : t \in chosen}
      BY <3>1 DEF Retained
    <3>3. (IF th[c].delete THEN Goldens \ bad ELSE {}) \in SUBSET Goldens
      OBVIOUS
    <3> QED BY <3>2, <3>3
  <2>2. /\ NoGolden.snap = 0 /\ NoGolden.leases = 0 /\ NoGolden \in [snap : Nat, leases : Int]
    BY DEF NoGolden
  <2>3. \A t \in Tasks : goldens'[t] = IF t \in gone THEN NoGolden ELSE goldens[t]
    BY <2>1
  <2>4. goldens' \in [Tasks -> [snap : Nat, leases : Int]] /\ stored' \subseteq stored
    BY <1>1, <2>1, <2>2 DEF NemoTyping
  <2>5. NemoTyping'
    BY <1>1, <1>2, <1>5, <2>0, <2>4 DEF NemoTyping
  <2>6. \A t \in Tasks : goldens[t].snap = 0 => goldens'[t].snap = 0
    BY <2>2, <2>3
  <2>7. Locks'
    BY <1>1, <1>5, <2>6, LocksCalm
  <2>8. OutRollouts' = OutRollouts /\ Snaps' \subseteq Snaps \cup {0}
    BY <2>0, <2>2, <2>3 DEF Snaps, OutRollouts
  <2>9. Numbers'
    BY <1>1, <1>2, <1>5, <1>13, <2>8, NumbersCalm
  <2>10. EnvsOK'
    BY <1>1, <1>5, <1>13, <2>0, EnvsCalm
  <2>11. SnapsOK'
    <3>1. \A t \in Tasks : goldens'[t].snap # 0 => goldens'[t].snap \in stored' /\ goldens'[t].snap \notin QueuedSnaps'
      <4>1. ASSUME NEW t \in Tasks, goldens'[t].snap # 0 PROVE t \notin gone /\ goldens'[t].snap = goldens[t].snap
        BY <4>1, <2>2, <2>3
      <4>2. ASSUME NEW t \in Tasks, goldens[t].snap # 0, t \notin gone, NEW u \in gone PROVE goldens[t].snap # goldens[u].snap
        BY <4>2, <1>1 DEF SnapsOK, Goldens
      <4> QED BY <1>1, <1>13, <2>1, <4>1, <4>2 DEF SnapsOK
    <3>2. \A t, u \in Tasks : t # u /\ goldens'[t].snap = goldens'[u].snap => goldens'[t].snap = 0
      BY <1>1, <2>2, <2>3 DEF SnapsOK
    <3>3. ASSUME NEW y \in stored' PROVE y \in Snaps' \cup QueuedSnaps'
      <4>1. y \in Snaps \cup QueuedSnaps /\ \A t \in gone : y # goldens[t].snap
        BY <1>1, <2>1 DEF SnapsOK
      <4>2. ASSUME NEW t \in Tasks, y = goldens[t].snap PROVE y \in Snaps'
        <5>1. y = goldens'[t].snap
          BY <4>1, <4>2, <2>3
        <5> QED BY <5>1 DEF Snaps
      <4> QED BY <1>13, <4>1, <4>2 DEF Snaps
    <3> QED BY <1>12, <3>1, <3>2, <3>3 DEF SnapsOK
  <2>12. LeasesOK'
    <3>1. ASSUME NEW t \in Tasks PROVE goldens'[t].leases = Cardinality({})
      <4>1. {d \in Callers : t \in th[d].t /\ Leases(th[d].todo)} = {}
        BY <1>11
      <4>2. goldens[t].leases = Cardinality({}) /\ Cardinality({}) = 0
        BY <1>1, <4>1, FS_EmptySet DEF LeasesOK
      <4> QED BY <4>2, <2>2, <2>3
    <3>2. \A t \in Tasks : {d \in Callers : t \in th'[d].t /\ Leases(th'[d].todo)} = {}
      BY <1>12
    <3> QED BY <1>12, <3>1, <3>2 DEF LeasesOK
  <2>13. Terminal'
    BY <1>1, <1>2, <1>5, <1>10, <1>13, <2>0, <2>5, <2>6, TerminalGoesOn
  <2> QED BY <1>9, <1>14, <2>5, <2>7, <2>9, <2>10, <2>11, <2>12, <2>13 DEF NemoInv
<1> QED BY <1>3, <1>16, <1>17

--------------------------------------------------------------------------------
(* An eviction.                                                                 *)

\* While a call is at a step that no close has, the engine is not drained.
LEMMA AtWork ==
    ASSUME Control, NEW c \in Callers, NEW x, At(c, x), x \notin Of["close"]
    PROVE  Active(c) /\ ~Drained /\ ~Past(th[c])
<1>1. x \in Of[th[c].op] /\ ThreadOK(th[c])
  BY First
<1>2. th[c].op \in Ops /\ Of["none"] = {}
  BY <1>1 DEF ThreadOK, Thread, Of
<1>3. th[c].op # "none" /\ th[c].op # "close"
  BY <1>1, <1>2
<1> QED BY <1>2, <1>3 DEF Ops, Active, Drained, Past

\* Who builds a golden has the environment it is built from.
LEMMA BuildHands ==
    ASSUME NEW op \in Ops, NEW q, ListFor(q, op), Has(q, "build")
    PROVE  Hand(q) /\ Has(q, "reset") /\ op = "seed"
<1>1. Chains(q)
  BY Chained DEF ListFor
<1>2. /\ "build" \in Steps /\ "detach" \in Steps /\ "detach" \notin Of["seed"] /\ ("build" \in Of[op] => op = "seed")
  BY DEF Steps, Of, Ops, Common
<1> QED BY <1>1, <1>2 DEF Hand, Chains, ListFor

LEMMA BuildersEnv ==
    ASSUME Control, Numbers, NEW d \in Callers, Has(th[d].todo, "build")
    PROVE  th[d].env # 0 /\ Hand(th[d].todo)
<1>1. th[d].op \in Ops /\ ListFor(th[d].todo, th[d].op)
  BY DEF Control, ThreadOK, Thread
<1> QED BY <1>1, BuildHands DEF Numbers

LEMMA Wider ==
    ASSUME NEW S, NEW T, S \subseteq T, NEW q \in Seq(S)
    PROVE  q \in Seq(T)
<1>1. q \in [1 .. Len(q) -> S] /\ Len(q) \in Nat
  BY LenProperties
<1>2. q \in [1 .. Len(q) -> T]
  BY <1>1
<1> QED BY <1>1, <1>2, SeqDef

\* _evict_goldens queues goldens without a lease, as far as the backlog has room.
LEMMA EvictInv ==
    ASSUME NemoInv, NEW c \in Callers, Evict(c)
    PROVE  NemoInv'
<1>1. /\ NemoTyping /\ Control /\ Locks /\ Numbers /\ EnvsOK /\ SnapsOK /\ LeasesOK /\ Bounded /\ Terminal
  BY DEF NemoInv
<1>2. /\ At(c, "evict") /\ Goes(c)
      /\ UNCHANGED <<rollouts, taskOf, pendingEnvs, retrying, engine, replicas, stored, cleanClose>>
  BY DEF Evict
<1>30. PICK chosen \in SUBSET Removable : \E sel \in SUBSET chosen :
          /\ Cardinality(sel) = IF Cardinality(chosen) < Space THEN Cardinality(chosen) ELSE Space
          /\ goldens' = [t \in Tasks |-> IF t \in sel THEN NoGolden ELSE goldens[t]]
          /\ pendingSnaps' = pendingSnaps \o SetToSeq({goldens[t].snap : t \in sel})
  BY DEF Evict
<1>3. PICK sel \in SUBSET chosen :
          /\ Cardinality(sel) = IF Cardinality(chosen) < Space THEN Cardinality(chosen) ELSE Space
          /\ goldens' = [t \in Tasks |-> IF t \in sel THEN NoGolden ELSE goldens[t]]
          /\ pendingSnaps' = pendingSnaps \o SetToSeq({goldens[t].snap : t \in sel})
  BY <1>30
<1> DEFINE K == {goldens[t].snap : t \in sel}
           k == SetToSeq(K)
<1>4. Quiet(c)
  BY <1>1, <1>2, DrainsGoes
<1>5. /\ Calm(c) /\ Onward(c) /\ (Owes(th'[c].todo) => Owes(th[c].todo)) /\ th' \in [Callers -> Thread]
      /\ \A d \in Callers : d # c => th'[d] = th[d]
  BY <1>4 DEF Quiet, Calm, Stepped
<1>6. ~Drained /\ ~Past(th[c]) /\ Head(th[c].todo) = "evict"
  <2>1. "evict" \notin Of["close"]
    BY DEF Of
  <2> QED BY <1>1, <1>2, <2>1, AtWork, First
<1>7. Retriers'
  BY <1>1, <1>2, <1>5, <1>6, RetriersStay
<1>8. Control'
  BY <1>1, <1>5, <1>7, OnwardControl
<1>9. /\ sel \subseteq Tasks /\ IsFiniteSet(sel) /\ Cardinality(sel) \in Nat /\ Cardinality(chosen) \in Nat
      /\ \A t \in sel : goldens[t].snap # 0 /\ goldens[t].leases = 0
  <2>1. chosen \subseteq Tasks /\ \A t \in sel : t \in Tasks /\ goldens[t].snap # 0 /\ goldens[t].leases = 0
    BY DEF Removable, Goldens, HasGolden
  <2> QED BY <2>1, NemoAssumption, FS_Subset, FS_CardinalityType
<1>10. IsFiniteSet(K) /\ Cardinality(K) <= Cardinality(sel) /\ Cardinality(K) \in Nat /\ K \subseteq Nat /\ K \subseteq Snaps
  <2>1. IsFiniteSet(K) /\ Cardinality(K) <= Cardinality(sel)
    <3> DEFINE f == [t \in sel |-> goldens[t].snap]
    <3>1. f \in Surjection(sel, K)
      BY DEF Surjection
    <3> HIDE DEF f, K
    <3> QED BY <1>9, <3>1, FS_Surjection
  <2>2. K \subseteq Nat /\ K \subseteq Snaps
    BY <1>1, <1>9 DEF NemoTyping, Snaps
  <2> QED BY <2>1, <2>2, FS_CardinalityType
<1>11. \A t \in Tasks : goldens[t].snap \in K => t \in sel \/ goldens[t].snap = 0
  BY <1>1, <1>9 DEF SnapsOK
<1>12. \A t \in sel : goldens[t].snap \in K
  OBVIOUS
<1>13. pendingSnaps' = pendingSnaps \o k
  BY <1>3
<1> HIDE DEF K
<1>14. k \in Seq(K) /\ Len(k) = Cardinality(K) /\ ToSet(k) = K
  BY <1>10, AsQueue
<1> HIDE DEF k
<1>15. k \in Seq(Nat)
  BY <1>10, <1>14, Wider
<1>16. /\ pendingSnaps' \in Seq(Nat) /\ Len(pendingSnaps') = Len(pendingSnaps) + Cardinality(K)
       /\ ToSet(pendingSnaps') = ToSet(pendingSnaps) \cup K
  <2>1. pendingSnaps \in Seq(Nat)
    BY <1>1 DEF NemoTyping
  <2>2. /\ pendingSnaps \o k \in Seq(Nat) /\ Len(pendingSnaps \o k) = Len(pendingSnaps) + Len(k)
        /\ ToSet(pendingSnaps \o k) = ToSet(pendingSnaps) \cup ToSet(k)
    BY <1>15, <2>1, InBoth
  <2> QED BY <1>13, <1>14, <2>2
<1>17. /\ NoGolden.snap = 0 /\ NoGolden.leases = 0 /\ NoGolden \in [snap : Nat, leases : Int]
  BY DEF NoGolden
<1>18. \A t \in Tasks : goldens'[t] = IF t \in sel THEN NoGolden ELSE goldens[t]
  BY <1>3
<1>19. goldens' \in [Tasks -> [snap : Nat, leases : Int]]
  BY <1>1, <1>3, <1>17 DEF NemoTyping
<1>20. NemoTyping'
  BY <1>1, <1>2, <1>5, <1>16, <1>19 DEF NemoTyping
<1>21. \A t \in Tasks : goldens[t].snap = 0 => goldens'[t].snap = 0
  BY <1>17, <1>18
<1>22. Locks'
  BY <1>1, <1>5, <1>21, LocksCalm
<1>23. Queued' = Queued /\ QueuedSnaps' = QueuedSnaps \cup K /\ OutRollouts' = OutRollouts /\ Snaps' \subseteq Snaps \cup {0}
  BY <1>2, <1>16, <1>17, <1>18 DEF Queued, QueuedSnaps, OutRollouts, Snaps, EnvsInRetry, SnapsInRetry
<1>24. Numbers'
  BY <1>1, <1>2, <1>5, <1>10, <1>23, NumbersCalm
<1>25. EnvsOK'
  BY <1>1, <1>2, <1>5, <1>23, EnvsCalm
<1>26. SnapsOK'
  <2>1. ASSUME NEW t \in Tasks, goldens'[t].snap # 0
        PROVE  t \notin sel /\ goldens'[t].snap = goldens[t].snap /\ goldens[t].snap \notin K
    BY <2>1, <1>11, <1>17, <1>18
  <2>2. \A t \in Tasks : goldens'[t].snap # 0 => goldens'[t].snap \in stored' /\ goldens'[t].snap \notin QueuedSnaps'
    BY <1>1, <1>2, <1>23, <2>1 DEF SnapsOK
  <2>3. \A t, u \in Tasks : t # u /\ goldens'[t].snap = goldens'[u].snap => goldens'[t].snap = 0
    BY <1>1, <2>1 DEF SnapsOK
  <2>4. ASSUME NEW d \in Callers, Has(th'[d].todo, "build") PROVE th'[d].env \notin Snaps' \cup QueuedSnaps'
    <3>1. Has(th[d].todo, "build") /\ th'[d].env = th[d].env
      BY <2>4, <1>5 DEF Calm, HandsKept
    <3>2. th[d].env # 0 /\ th[d].env \notin Snaps \cup QueuedSnaps
      BY <1>1, <3>1, BuildersEnv DEF SnapsOK
    <3> QED BY <1>10, <1>23, <3>1, <3>2
  <2>5. ASSUME NEW y \in stored' PROVE y \in Snaps' \cup QueuedSnaps'
    <3>1. y \in Snaps \cup QueuedSnaps
      BY <1>1, <1>2 DEF SnapsOK
    <3>2. ASSUME NEW t \in Tasks, y = goldens[t].snap PROVE y \in Snaps' \cup K
      BY <3>2, <1>12, <1>18 DEF Snaps
    <3> QED BY <1>23, <3>1, <3>2 DEF Snaps
  <2> QED BY <2>2, <2>3, <2>4, <2>5 DEF SnapsOK
<1>27. LeasesOK'
  <2>1. \A d \in Callers : /\ Leases(th'[d].todo) <=> Leases(th[d].todo)
                           /\ Leases(th'[d].todo) => th'[d].t = th[d].t
    BY <1>5 DEF Calm, HandsKept
  <2>2. \A t \in Tasks : {d \in Callers : t \in th'[d].t /\ Leases(th'[d].todo)} = {d \in Callers : t \in th[d].t /\ Leases(th[d].todo)}
    BY <2>1
  <2>3. \A t \in Tasks : goldens'[t].leases = goldens[t].leases
    BY <1>9, <1>17, <1>18
  <2>4. ASSUME NEW d \in Callers, Leases(th[d].todo), NEW t \in th[d].t, t \in sel PROVE FALSE
    <3>1. Cardinality({e \in Callers : t \in th[e].t /\ Leases(th[e].todo)}) = 0
      BY <1>1, <1>9, <2>4 DEF LeasesOK
    <3>2. IsFiniteSet({e \in Callers : t \in th[e].t /\ Leases(th[e].todo)})
      BY OwingFinite
    <3>3. {e \in Callers : t \in th[e].t /\ Leases(th[e].todo)} = {}
      BY <3>1, <3>2, FS_EmptySet
    <3> QED BY <2>4, <3>3
  <2>5. \A d \in Callers : th[d].t \subseteq Tasks
    BY <1>1 DEF NemoTyping, Thread
  <2>6. \A d \in Callers : Leases(th'[d].todo) => \A t \in th'[d].t : goldens'[t].snap # 0
    BY <1>1, <1>18, <2>1, <2>4, <2>5 DEF LeasesOK
  <2> QED BY <1>1, <2>2, <2>3, <2>6 DEF LeasesOK
<1>28. Bounded'
  <2>1. /\ Backlog \in Nat /\ RetryInflight \in Nat /\ MaxPending \in Nat /\ Len(pendingEnvs) \in Nat /\ Len(pendingSnaps) \in Nat
        /\ Backlog' \in Nat
    BY <1>1, <1>20, BoundsTyped
  <2>2. /\ Cardinality(Owing) <= Reservations /\ Reservations \in Nat /\ Cardinality(Owing) \in Nat /\ IsFiniteSet(Owing)
    BY <1>1, OwingReserves
  <2>3. Owing' \subseteq Owing
    BY <1>5, QuietOwing
  <2>4. Cardinality(Owing') <= Cardinality(Owing) /\ Cardinality(Owing') \in Nat
    BY <2>2, <2>3, FS_Subset, FS_CardinalityType
  <2>5. RetryInflight' = RetryInflight /\ Backlog' = Backlog + Cardinality(K)
    <3>1. ASSUME NEW e \in Nat, NEW s \in Nat, NEW n \in Nat PROVE e + (s + n) = (e + s) + n
      OBVIOUS
    <3>2. Backlog' = Len(pendingEnvs) + (Len(pendingSnaps) + Cardinality(K))
      BY <1>2, <1>16, Zenon DEF Backlog
    <3>3. Backlog = Len(pendingEnvs) + Len(pendingSnaps)
      BY DEF Backlog
    <3>4. RetryInflight' = RetryInflight
      BY <1>2 DEF RetryInflight
    <3>5. Len(pendingEnvs) + (Len(pendingSnaps) + Cardinality(K)) = (Len(pendingEnvs) + Len(pendingSnaps)) + Cardinality(K)
      <4>1. Cardinality(K) \in Nat /\ Len(pendingEnvs) \in Nat /\ Len(pendingSnaps) \in Nat
        BY <1>10, <2>1
      <4> QED BY <4>1, <3>1, Zenon
    <3>6. Backlog' = (Len(pendingEnvs) + Len(pendingSnaps)) + Cardinality(K)
      BY <3>2, <3>5, Zenon
    <3>7. Backlog' = Backlog + Cardinality(K)
      BY <3>3, <3>6, Zenon
    <3> QED BY <3>4, <3>7, Zenon
  <2>6. Space = IF Backlog + RetryInflight + Reservations < MaxPending
                THEN MaxPending - (Backlog + RetryInflight + Reservations) ELSE 0
    BY Zenon DEF Space, Pressure
  <2>7. Backlog + RetryInflight + Cardinality(Owing) <= MaxPending
    BY <1>1 DEF Bounded, Owing
  <2>8. PICK b \in Nat, i \in Nat, r \in Nat, w \in Nat, ww \in Nat, m \in Nat, n \in Nat, o \in Nat, z \in Nat :
           /\ b = Backlog /\ i = RetryInflight /\ r = Reservations /\ w = Cardinality(Owing) /\ ww = Cardinality(Owing')
           /\ m = MaxPending /\ n = Cardinality(K) /\ o = Cardinality(chosen) /\ z = Cardinality(sel)
    BY <1>9, <1>10, <2>1, <2>2, <2>4, Zenon
  <2>9. (b + n) + i + ww <= m
    <3>1. z = IF o < Space THEN o ELSE Space
      BY <1>3, <2>8, Zenon
    <3>2. Space = IF b + i + r < m THEN m - (b + i + r) ELSE 0
      BY <2>6, <2>8, Zenon
    <3>3. n <= z /\ w <= r /\ ww <= w /\ b + i + w <= m
      BY <1>10, <2>2, <2>4, <2>7, <2>8, Zenon
    <3>4. CASE b + i + r < m
      BY <3>1, <3>2, <3>3, <3>4
    <3>5. CASE ~(b + i + r < m)
      BY <3>1, <3>2, <3>3, <3>5
    <3> QED BY <3>4, <3>5
  <2>10. (Backlog + Cardinality(K)) + RetryInflight + Cardinality(Owing') <= MaxPending
    BY <2>8, <2>9, Zenon
  <2> QED BY <2>5, <2>10 DEF Bounded, Owing
<1>29. Terminal'
  BY <1>1, <1>2, <1>6, BeforeTheEnd
<1> QED BY <1>8, <1>20, <1>22, <1>24, <1>25, <1>26, <1>27, <1>28, <1>29 DEF NemoInv

--------------------------------------------------------------------------------
(* The calls at work: what a step keeps that changes nothing of the kind.       *)

\* The steps of a round of retries.
Late == {"drain_envs", "drain_snaps", "retry_envs", "retry_snaps"}

\* A call at work disturbs no close.
LEMMA AtWorkKeeps ==
    ASSUME NemoInv, NemoTyping', NEW c \in Callers, Stepped(c), NEW x, At(c, x), x \notin Of["close"], x \notin Late,
           th'[c].op = th[c].op, retrying' = retrying, engine' = engine, cleanClose' = cleanClose
    PROVE  Control' /\ Terminal'
<1>1. NemoTyping /\ Control /\ Terminal
  BY DEF NemoInv
<1>2. Active(c) /\ ~Drained /\ Head(th[c].todo) = x /\ th[c].todo # <<>>
  BY <1>1, AtWork, First
<1>3. th[c].op # "close"
  BY <1>2 DEF Active
<1>4. Onward(c)
  BY <1>3 DEF Onward, Past
<1>5. \A d \in Callers : d # c => th'[d] = th[d]
  BY DEF Stepped
<1>6. Retriers'
  BY <1>1, <1>2, <1>5, RetriersStay DEF Late
<1> QED BY <1>1, <1>2, <1>4, <1>6, OnwardControl, BeforeTheEnd

\* The parts of the invariant, for a step after which its thread may hold more.
LEMMA LocksHeld ==
    ASSUME NemoTyping, Locks, NEW c \in Callers, Stepped(c), th'[c].t = th[c].t,
           \/ th'[c].s = th[c].s /\ ~Has(th[c].todo, "lock")
           \/ \A d \in Callers : \A s \in th'[c].s \cap th[d].s : d # c => Has(th[d].todo, "lock"),
           Has(th'[c].todo, "build") /\ ~Has(th[c].todo, "build") =>
               \A d \in Callers : d # c /\ Has(th[d].todo, "build") => th[d].t \cap th[c].t = {},
           \A d \in Callers : Has(th'[d].todo, "build") => \A t \in th'[d].t : goldens'[t].snap = 0
    PROVE  Locks'
<1>1. \A d \in Callers : d # c => th'[d] = th[d]
  BY DEF Stepped
<1>2. ASSUME NEW z \in Callers, z # c, NEW s \in th'[c].s, s \in th[z].s
      PROVE  Has(th[z].todo, "lock")
  BY <1>2 DEF Locks
<1>3. ASSUME NEW d \in Callers, NEW e \in Callers, NEW s \in th'[d].s \cap th'[e].s, d # e
      PROVE  Has(th'[d].todo, "lock") \/ Has(th'[e].todo, "lock")
  <2>1. CASE d # c /\ e # c
    BY <1>1, <1>3, <2>1 DEF Locks
  <2> QED BY <1>1, <1>2, <1>3, <2>1
<1>4. ASSUME NEW d \in Callers, d # c, Has(th'[d].todo, "build"), Has(th'[c].todo, "build")
      PROVE  th'[d].t \cap th'[c].t = {}
  BY <1>1, <1>4 DEF Locks
<1>5. ASSUME NEW d \in Callers, NEW e \in Callers, d # e, Has(th'[d].todo, "build"), Has(th'[e].todo, "build")
      PROVE  th'[d].t \cap th'[e].t = {}
  <2>1. CASE d # c /\ e # c
    BY <1>1, <1>5, <2>1 DEF Locks
  <2>2. CASE d = c
    BY <1>4, <1>5, <2>2
  <2>3. CASE e = c
    BY <1>4, <1>5, <2>3
  <2> QED BY <2>1, <2>2, <2>3
<1> QED BY <1>3, <1>5 DEF Locks

LEMMA NumbersHeld ==
    ASSUME Numbers, NemoTyping, NEW c \in Callers, Stepped(c), taskOf' = taskOf,
           Hand(th'[c].todo) => th'[c].env \in InHand \cup OutRollouts \cup {0},
           Hand(th'[c].todo) /\ Has(th'[c].todo, "reset") => th'[c].env # 0,
           (Queued \cup QueuedSnaps \cup OutRollouts \cup Snaps)' \subseteq
               Queued \cup QueuedSnaps \cup OutRollouts \cup Snaps \cup InHand \cup {0}
    PROVE  Numbers'
<1>1. \A d \in Callers : d # c => th'[d] = th[d]
  BY DEF Stepped
<1>2. InHand' \subseteq InHand \cup OutRollouts \cup {0}
  BY <1>1 DEF InHand
<1>3. Len(taskOf) \in Nat /\ 0 <= Len(taskOf)
  <2>1. taskOf \in Seq(Tasks)
    BY DEF NemoTyping
  <2> QED BY <2>1, LenProperties
<1>4. \A e \in Queued' \cup QueuedSnaps' \cup OutRollouts' \cup InHand' \cup Snaps' : e <= Len(taskOf')
  BY <1>2, <1>3 DEF Numbers
<1>5. \A d \in Callers : Hand(th'[d].todo) /\ Has(th'[d].todo, "reset") => th'[d].env # 0
  BY <1>1 DEF Numbers
<1> QED BY <1>4, <1>5 DEF Numbers

LEMMA EnvsHeld ==
    ASSUME NemoTyping, Control, EnvsOK, NEW c \in Callers, Stepped(c), th'[c].s = th[c].s, th'[c].env = th[c].env,
           Hand(th'[c].todo) <=> Hand(th[c].todo), ~Fixed(th'[c].todo), rollouts' = rollouts, Queued' = Queued,
           replicas \subseteq replicas', replicas' \subseteq replicas \cup (IF Hand(th[c].todo) THEN {th[c].env} ELSE {}),
           Resumed(th'[c].todo) => Resumed(th[c].todo) \/ th[c].env \in replicas'
    PROVE  EnvsOK'
<1>1. \A d \in Callers : d # c => th'[d] = th[d]
  BY DEF Stepped
<1>2. \A d \in Callers : (Hand(th'[d].todo) <=> Hand(th[d].todo)) /\ th'[d].env = th[d].env
  BY <1>1
<1>3. InHand' = InHand /\ OutRollouts' = OutRollouts
  BY <1>2 DEF InHand, OutRollouts
<1>4. ASSUME NEW d \in Callers, Fixed(th'[d].todo)
      PROVE  \A s \in th'[d].s : rollouts'[s] = th'[d].env /\ th'[d].env # 0
  BY <1>1, <1>4 DEF EnvsOK
<1>5. \A s \in Sessions : rollouts'[s] # 0 => rollouts'[s] \in replicas' /\ rollouts'[s] \notin Queued'
  BY DEF EnvsOK
<1>6. \A s, z \in Sessions : s # z /\ rollouts'[s] = rollouts'[z] => rollouts'[s] = 0
  BY DEF EnvsOK
<1>7. ASSUME NEW d \in Callers, Hand(th'[d].todo), th'[d].env # 0
      PROVE  /\ th'[d].env \notin OutRollouts' \cup Queued'
             /\ \A e \in Callers : e # d /\ Hand(th'[e].todo) => th'[e].env # th'[d].env
  BY <1>2, <1>3, <1>7 DEF EnvsOK
<1>8. \A d \in Callers : Resumed(th'[d].todo) => th'[d].env \in replicas'
  BY <1>1 DEF EnvsOK
<1>9. replicas' \subseteq OutRollouts' \cup Queued' \cup InHand'
  <2>1. Hand(th[c].todo) => th[c].env \in InHand
    BY DEF InHand
  <2> QED BY <1>3, <2>1 DEF EnvsOK
<1> QED BY <1>4, <1>5, <1>6, <1>7, <1>8, <1>9 DEF EnvsOK

LEMMA SnapsHeld ==
    ASSUME NemoTyping, SnapsOK, NEW c \in Callers, Stepped(c), \A t \in Tasks : goldens'[t].snap = goldens[t].snap,
           QueuedSnaps' = QueuedSnaps, stored' = stored,
           Has(th'[c].todo, "build") => th'[c].env \notin Snaps \cup QueuedSnaps
    PROVE  SnapsOK'
<1>1. \A d \in Callers : d # c => th'[d] = th[d]
  BY DEF Stepped
<1>2. Snaps' = Snaps
  BY DEF Snaps
<1>3. \A d \in Callers : Has(th'[d].todo, "build") => th'[d].env \notin Snaps' \cup QueuedSnaps'
  BY <1>1, <1>2 DEF SnapsOK
<1> QED BY <1>2, <1>3 DEF SnapsOK

LEMMA LeasesHeld ==
    ASSUME NemoTyping, LeasesOK, NEW c \in Callers, Stepped(c), th'[c].t = th[c].t, Leases(th'[c].todo) <=> Leases(th[c].todo),
           goldens' = goldens
    PROVE  LeasesOK'
<1>1. \A d \in Callers : /\ Leases(th'[d].todo) <=> Leases(th[d].todo)
                         /\ th'[d].t = th[d].t
  BY DEF Stepped
<1>2. \A t \in Tasks : {d \in Callers : t \in th'[d].t /\ Leases(th'[d].todo)} = {d \in Callers : t \in th[d].t /\ Leases(th[d].todo)}
  BY <1>1
<1> QED BY <1>1, <1>2 DEF LeasesOK

LEMMA BoundedHeld ==
    ASSUME NemoTyping, NemoTyping', Bounded, NEW c \in Callers, Stepped(c), Owes(th'[c].todo) => Owes(th[c].todo),
           UNCHANGED <<pendingEnvs, pendingSnaps, retrying>>
    PROVE  Bounded'
<1>1. Backlog' = Backlog /\ RetryInflight' = RetryInflight
  BY DEF Backlog, RetryInflight
<1>2. Backlog' + RetryInflight' <= Backlog + RetryInflight
  BY <1>1, BoundsTyped
<1>3. Owing' \subseteq Owing
  BY DEF Stepped, Owing
<1> QED BY <1>2, <1>3, BoundedLess

LEMMA QueuesStay ==
    ASSUME UNCHANGED <<pendingEnvs, pendingSnaps, retrying>>
    PROVE  Queued' = Queued /\ QueuedSnaps' = QueuedSnaps
BY DEF Queued, QueuedSnaps, EnvsInRetry, SnapsInRetry

\* A call that waits for its session's lock does nothing else.
LEMMA WaitersBare ==
    ASSUME Control, NEW d \in Callers, Has(th[d].todo, "lock")
    PROVE  Bare(th[d].todo)
<1>1. ListOK(th[d].todo) /\ th[d].todo # <<>>
  <2>1. ListOK(th[d].todo)
    BY DEF Control, ThreadOK, ListFor
  <2>2. th[d].todo # <<>>
    BY DEF Has
  <2> QED BY <2>1, <2>2
<1>2. \A y : Has(th[d].todo, y) <=> y = "lock"
  BY <1>1, Alone
<1> QED BY <1>2 DEF Bare, Hand, Leases, Resumed, Fixed, Owes

--------------------------------------------------------------------------------
(* The steps of a seed.                                                         *)

\* What is known of a seed under way.
LEMMA SeedAt ==
    ASSUME Control, NEW c \in Callers, NEW x \in {"lease", "build", "reset", "unlease", "publish"}, At(c, x)
    PROVE  /\ th[c].op = "seed" /\ th[c] \in Thread /\ ThreadOK(th[c]) /\ th[c].round = 0
           /\ ListFor(th[c].todo, "seed") /\ ListOK(th[c].todo) /\ th[c].todo # <<>> /\ Head(th[c].todo) = x
           /\ Has(th[c].todo, x) /\ ~Has(th[c].todo, "lock") /\ ~Has(th[c].todo, "again") /\ Before(th[c].todo)
           /\ \E t \in Tasks : th[c].t = {t}
           /\ \E s \in Sessions : th[c].s = {s}
           /\ x \notin Of["close"] /\ x \notin Late
           /\ Turn(th[c].todo, Tail(th[c].todo), "seed")
<1>1. /\ x \in Of[th[c].op] /\ ThreadOK(th[c]) /\ ListFor(th[c].todo, th[c].op) /\ ListOK(th[c].todo)
      /\ th[c].todo # <<>> /\ Head(th[c].todo) = x /\ Has(th[c].todo, x)
  BY First
<1>2. th[c].op \in Ops /\ th[c] \in Thread /\ th[c].round \in 0 .. 2
  BY <1>1 DEF ThreadOK, Thread
<1>3. th[c].op = "seed" /\ "seed" \in Ops /\ x \notin Of["close"] /\ x \notin Late
  BY <1>1, <1>2 DEF Of, Ops, Common, Late
<1>4. ~Has(th[c].todo, "lock") /\ ~Has(th[c].todo, "again")
  <2>1. "again" \in Steps /\ "again" \notin Of["seed"]
    BY DEF Steps, Of, Common
  <2> QED BY <1>1, <1>3, <2>1, Alone DEF ListFor
<1>5. th[c].round = 0
  BY <1>1, <1>2, <1>4 DEF ThreadOK
<1>6. Turn(th[c].todo, Tail(th[c].todo), "seed") /\ Before(th[c].todo)
  BY <1>1, <1>3, Turned, Behind
<1> QED BY <1>1, <1>2, <1>3, <1>4, <1>5, <1>6 DEF ThreadOK

\* env.reset resumes what its call has in hand.
LEMMA ResetInv ==
    ASSUME NemoInv, NEW c \in Callers, ResetEnv(c)
    PROVE  NemoInv'
<1> DEFINE q == th[c].todo
           p == th'[c].todo
<1>1. /\ NemoTyping /\ Control /\ Locks /\ Numbers /\ EnvsOK /\ SnapsOK /\ LeasesOK /\ Bounded /\ Terminal
  BY DEF NemoInv
<1>2. /\ At(c, "reset")
      /\ replicas' \in {replicas, replicas \cup {th[c].env}}
      /\ \/ replicas' = replicas \cup {th[c].env} /\ Goes(c)
         \/ Turns(c, ResetUndone)
      /\ UNCHANGED <<rollouts, taskOf, goldens, pendingEnvs, pendingSnaps, retrying, engine, stored, cleanClose>>
  BY DEF ResetEnv
<1>3. /\ th[c].op = "seed" /\ ListFor(q, "seed") /\ q # <<>> /\ Head(q) = "reset" /\ th[c].round = 0 /\ ThreadOK(th[c])
      /\ Has(q, "reset") /\ ~Has(q, "lock") /\ ~Has(q, "again") /\ Turn(q, Tail(q), "seed") /\ Before(q)
      /\ "reset" \notin Of["close"] /\ "reset" \notin Late
  BY <1>1, <1>2, SeedAt
<1>4. /\ Hand(q) /\ Leases(q) /\ Owes(q) /\ ~Has(q, "build")
  BY <1>3 DEF Turn, Before
<1>5. /\ Stepped(c) /\ th'[c].op = th[c].op /\ th'[c].s = th[c].s /\ th'[c].t = th[c].t /\ th'[c].env = th[c].env
      /\ Hand(p) /\ Leases(p) /\ Owes(p) /\ ~Has(p, "build") /\ ~Fixed(p)
      /\ Resumed(p) => th[c].env \in replicas'
  <2>1. CASE replicas' = replicas \cup {th[c].env} /\ Goes(c)
    <3>1. /\ Stepped(c) /\ p = Tail(q)
          /\ th'[c].op = th[c].op /\ th'[c].s = th[c].s /\ th'[c].t = th[c].t /\ th'[c].env = th[c].env
          /\ \A x : Has(p, x) => Has(q, x)
      BY <1>1, <1>3, <2>1, Going
    <3> QED BY <1>3, <1>4, <2>1, <3>1 DEF Turn
  <2>2. CASE Turns(c, ResetUndone)
    <3>1. th[c].reserved
      BY <1>3, <1>4 DEF ThreadOK
    <3>2. /\ Stepped(c) /\ p = ResetUndone /\ th'[c].op = th[c].op /\ th'[c].s = th[c].s /\ th'[c].t = th[c].t
          /\ th'[c].env = th[c].env
      BY <1>1, <1>3, <2>2, <3>1, SeedPlan, Turning
    <3> QED BY <3>2, SeedPlan
  <2> QED BY <1>2, <2>1, <2>2
<1>6. th[c].env # 0 /\ th[c].env \in InHand /\ th[c].env \in Nat
  BY <1>1, <1>3, <1>4 DEF Numbers, InHand, NemoTyping, Thread
<1>7. NemoTyping'
  BY <1>1, <1>2, <1>5, <1>6 DEF NemoTyping, Stepped
<1>8. Control' /\ Terminal'
  BY <1>2, <1>3, <1>5, <1>7, AtWorkKeeps
<1>9. Queued' = Queued /\ QueuedSnaps' = QueuedSnaps /\ OutRollouts' = OutRollouts /\ Snaps' = Snaps
  BY <1>2, QueuesStay DEF OutRollouts, Snaps
<1>10. Locks'
  <2>1. \A d \in Callers : Has(th'[d].todo, "build") => \A t \in th'[d].t : goldens'[t].snap = 0
    BY <1>1, <1>2, <1>5 DEF Stepped, Locks
  <2> QED BY <1>1, <1>3, <1>5, <2>1, LocksHeld
<1>11. Numbers'
  BY <1>1, <1>2, <1>5, <1>6, <1>9, NumbersHeld
<1>12. EnvsOK'
  BY <1>1, <1>2, <1>4, <1>5, <1>9, EnvsHeld
<1>13. SnapsOK'
  BY <1>1, <1>2, <1>5, <1>9, SnapsHeld
<1>14. LeasesOK'
  BY <1>1, <1>2, <1>4, <1>5, LeasesHeld
<1>15. Bounded'
  BY <1>1, <1>2, <1>4, <1>5, <1>7, BoundedHeld
<1> QED BY <1>7, <1>8, <1>10, <1>11, <1>12, <1>13, <1>14, <1>15 DEF NemoInv

\* A lease given back was counted.
LEMMA UnleaseInv ==
    ASSUME NemoInv, NEW c \in Callers, Unlease(c)
    PROVE  NemoInv'
<1> DEFINE q == th[c].todo
           p == th'[c].todo
<1>1. /\ NemoTyping /\ Control /\ Locks /\ Numbers /\ EnvsOK /\ SnapsOK /\ LeasesOK /\ Bounded /\ Terminal
  BY DEF NemoInv
<1>2. /\ At(c, "unlease") /\ Goes(c)
      /\ goldens' = [t \in Tasks |-> IF t \in th[c].t /\ HasGolden(t) THEN [goldens[t] EXCEPT !.leases = @ - 1] ELSE goldens[t]]
      /\ UNCHANGED <<rollouts, taskOf, pendingEnvs, pendingSnaps, retrying, engine, replicas, stored, cleanClose>>
  BY DEF Unlease
<1>3. /\ th[c].op = "seed" /\ ListFor(q, "seed") /\ q # <<>> /\ Head(q) = "unlease"
      /\ ~Has(q, "lock") /\ Turn(q, Tail(q), "seed") /\ Before(q)
      /\ "unlease" \notin Of["close"] /\ "unlease" \notin Late /\ \E t \in Tasks : th[c].t = {t}
  BY <1>1, <1>2, SeedAt
<1>4. PICK t \in Tasks : th[c].t = {t}
  BY <1>3
<1>5. /\ Stepped(c) /\ p = Tail(q) /\ th'[c].op = th[c].op /\ th'[c].s = th[c].s /\ th'[c].t = th[c].t /\ th'[c].env = th[c].env
      /\ \A x : Has(p, x) => Has(q, x)
  BY <1>1, <1>2, <1>3, Going
<1>6. /\ Leases(q) /\ ~Leases(p) /\ (Hand(p) <=> Hand(q)) /\ (Resumed(p) <=> Resumed(q)) /\ ~Fixed(p) /\ (Owes(p) <=> Owes(q))
      /\ ~Has(q, "build") /\ ~Has(p, "build")
  BY <1>3, <1>5 DEF Turn, Before
<1>7. goldens[t].snap # 0
  BY <1>1, <1>4, <1>6 DEF LeasesOK
<1>8. \A u \in Tasks : /\ goldens[u] \in [snap : Nat, leases : Int]
                       /\ goldens'[u] = IF u = t THEN [goldens[u] EXCEPT !.leases = @ - 1] ELSE goldens[u]
  BY <1>1, <1>2, <1>4, <1>7 DEF NemoTyping, HasGolden
<1>9. \A u \in Tasks : /\ goldens'[u].snap = goldens[u].snap /\ goldens'[u] \in [snap : Nat, leases : Int]
                       /\ goldens'[u].leases = IF u = t THEN goldens[u].leases - 1 ELSE goldens[u].leases
  <2>1. ASSUME NEW g \in [snap : Nat, leases : Int], NEW h, h = [g EXCEPT !.leases = @ - 1]
        PROVE  h.snap = g.snap /\ h \in [snap : Nat, leases : Int] /\ h.leases = g.leases - 1
    BY <2>1
  <2> QED BY <1>8, <2>1
<1>10. NemoTyping'
  BY <1>1, <1>2, <1>5, <1>9 DEF NemoTyping, Stepped
<1>11. Control' /\ Terminal'
  BY <1>2, <1>3, <1>5, <1>10, AtWorkKeeps
<1>12. Queued' = Queued /\ QueuedSnaps' = QueuedSnaps /\ OutRollouts' = OutRollouts /\ Snaps' = Snaps
  BY <1>2, <1>9, QueuesStay DEF OutRollouts, Snaps
<1>13. Locks'
  <2>1. \A d \in Callers : Has(th'[d].todo, "build") => \A u \in th'[d].t : goldens'[u].snap = 0
    <3>1. \A d \in Callers : Has(th'[d].todo, "build") => d # c /\ th'[d] = th[d] /\ th[d].t \subseteq Tasks
      BY <1>1, <1>5, <1>6 DEF Stepped, NemoTyping, Thread
    <3> QED BY <1>1, <1>9, <3>1 DEF Locks
  <2> QED BY <1>1, <1>3, <1>5, <1>6, <2>1, LocksHeld
<1>14. Numbers'
  <2>1. Hand(p) => th'[c].env \in InHand
    BY <1>5, <1>6 DEF InHand
  <2>2. Hand(p) /\ Has(p, "reset") => th'[c].env # 0
    BY <1>1, <1>5, <1>6 DEF Numbers
  <2> QED BY <1>1, <1>2, <1>5, <1>12, <2>1, <2>2, NumbersHeld
<1>15. EnvsOK'
  BY <1>1, <1>2, <1>5, <1>6, <1>12, EnvsHeld
<1>16. SnapsOK'
  BY <1>1, <1>2, <1>5, <1>6, <1>9, <1>12, SnapsHeld
<1>17. LeasesOK'
  <2> DEFINE S(u) == {d \in Callers : u \in th[d].t /\ Leases(th[d].todo)}
             Z(u) == {d \in Callers : u \in th'[d].t /\ Leases(th'[d].todo)}
  <2>1. \A d \in Callers : d # c => th'[d] = th[d]
    BY <1>5 DEF Stepped
  <2>2. \A u \in Tasks : u # t => Z(u) = S(u)
    BY <1>4, <1>5, <2>1
  <2>3. Z(t) = S(t) \ {c} /\ c \in S(t)
    BY <1>4, <1>6, <2>1
  <2>4. IsFiniteSet(S(t))
    BY OwingFinite
  <2>5. Cardinality(S(t)) \in Nat /\ Cardinality(S(t) \ {c}) = Cardinality(S(t)) - 1
    BY <2>3, <2>4, FS_RemoveElement, FS_CardinalityType
  <2>6. \A u \in Tasks : goldens[u].leases = Cardinality(S(u))
    BY <1>1 DEF LeasesOK
  <2>7. \A u \in Tasks : goldens'[u].leases = Cardinality(Z(u))
    BY <1>9, <2>2, <2>3, <2>5, <2>6
  <2>8. \A d \in Callers : Leases(th'[d].todo) => d # c /\ \A u \in th'[d].t : goldens'[u].snap # 0
    BY <1>1, <1>6, <1>9, <2>1 DEF LeasesOK, NemoTyping, Thread
  <2> QED BY <2>7, <2>8 DEF LeasesOK
<1>18. Bounded'
  BY <1>1, <1>2, <1>5, <1>6, <1>10, BoundedHeld
<1> QED BY <1>10, <1>11, <1>13, <1>14, <1>15, <1>16, <1>17, <1>18 DEF NemoInv

\* The new rollout takes the place of the old, which is in hand in its stead.
LEMMA PublishInv ==
    ASSUME NemoInv, NEW c \in Callers, Publish(c)
    PROVE  NemoInv'
<1> DEFINE q == th[c].todo
           p == th'[c].todo
           e == th[c].env
<1>1. /\ NemoTyping /\ Control /\ Locks /\ Numbers /\ EnvsOK /\ SnapsOK /\ LeasesOK /\ Bounded /\ Terminal
  BY DEF NemoInv
<1>2. /\ At(c, "publish")
      /\ \E s \in th[c].s : \/ rollouts' = [rollouts EXCEPT ![s] = e] /\ Becomes(c, [Rest(c) EXCEPT !.env = rollouts[s]])
                            \/ Goes(c) /\ UNCHANGED rollouts
      /\ UNCHANGED <<taskOf, goldens, pendingEnvs, pendingSnaps, retrying, engine, replicas, stored, cleanClose>>
  BY DEF Publish
<1>3. /\ th[c].op = "seed" /\ ListFor(q, "seed") /\ q # <<>> /\ Head(q) = "publish" /\ ThreadOK(th[c]) /\ th[c] \in Thread
      /\ ~Has(q, "lock") /\ ~Has(q, "again") /\ Turn(q, Tail(q), "seed") /\ Before(q) /\ th[c].round = 0
      /\ "publish" \notin Of["close"] /\ "publish" \notin Late /\ ListOK(q)
      /\ \E s \in Sessions : th[c].s = {s}
  BY <1>1, <1>2, SeedAt
<1>4. PICK s \in Sessions : th[c].s = {s}
  BY <1>3
<1>5. /\ Hand(q) /\ Resumed(q) /\ Owes(q) /\ ~Has(q, "reset") /\ ~Has(q, "build")
      /\ Hand(Tail(q)) /\ (Leases(Tail(q)) <=> Leases(q)) /\ ~Resumed(Tail(q)) /\ ~Fixed(Tail(q)) /\ Owes(Tail(q))
  <2>1. Head(q) # "build"
    BY <1>3
  <2>2. ~Has(q, "build")
    BY <1>3, <2>1, Alone
  <2> QED BY <1>3, <2>2 DEF Turn, Before
<1>6. \A x : Has(Tail(q), x) => Has(q, x)
  BY <1>3, Popped
<1>7. Queued' = Queued /\ QueuedSnaps' = QueuedSnaps /\ Snaps' = Snaps
  BY <1>2, QueuesStay DEF Snaps
<1>8. ASSUME Stepped(c), p = Tail(q), th'[c].op = th[c].op, th'[c].s = th[c].s, th'[c].t = th[c].t, NemoTyping'
      PROVE  Control' /\ Terminal' /\ Locks' /\ SnapsOK' /\ LeasesOK' /\ Bounded'
  <2>1. Control' /\ Terminal'
    BY <1>2, <1>3, <1>8, AtWorkKeeps
  <2>2. ~Has(p, "build")
    BY <1>5, <1>6, <1>8
  <2>3. \A d \in Callers : Has(th'[d].todo, "build") => \A u \in th'[d].t : goldens'[u].snap = 0
    BY <1>1, <1>2, <1>8, <2>2 DEF Stepped, Locks
  <2>4. Locks'
    BY <1>1, <1>3, <1>8, <2>2, <2>3, LocksHeld
  <2>5. SnapsOK'
    BY <1>1, <1>2, <1>7, <1>8, <2>2, SnapsHeld
  <2>6. LeasesOK'
    BY <1>1, <1>2, <1>5, <1>8, LeasesHeld
  <2>7. Bounded'
    BY <1>1, <1>2, <1>5, <1>8, BoundedHeld
  <2> QED BY <2>1, <2>4, <2>5, <2>6, <2>7
<1>9. e \in InHand /\ e \in replicas /\ e \in Nat /\ e # 0
  BY <1>1, <1>5 DEF InHand, EnvsOK, NemoTyping
<1>10. CASE Goes(c) /\ UNCHANGED rollouts
  <2>1. /\ Stepped(c) /\ p = Tail(q) /\ th'[c].op = th[c].op /\ th'[c].s = th[c].s /\ th'[c].t = th[c].t /\ th'[c].env = th[c].env
    BY <1>1, <1>3, <1>10, Going
  <2>2. NemoTyping'
    BY <1>1, <1>2, <1>10, <2>1 DEF NemoTyping, Stepped
  <2>3. OutRollouts' = OutRollouts
    BY <1>10 DEF OutRollouts
  <2>4. Numbers'
    BY <1>1, <1>2, <1>7, <1>9, <2>1, <2>3, NumbersHeld
  <2>5. EnvsOK'
    BY <1>1, <1>2, <1>5, <1>7, <1>10, <2>1, EnvsHeld
  <2> QED BY <1>8, <2>1, <2>2, <2>4, <2>5 DEF NemoInv
<1>11. CASE rollouts' = [rollouts EXCEPT ![s] = e] /\ Becomes(c, [Rest(c) EXCEPT !.env = rollouts[s]])
  <2> DEFINE o == rollouts[s]
             n == [Rest(c) EXCEPT !.env = o]
  <2>1. o \in Nat /\ o \in OutRollouts
    BY <1>1 DEF NemoTyping, OutRollouts
  <2>2. /\ n \in Thread /\ n.todo = Tail(q) /\ n.op = "seed" /\ n.s = th[c].s /\ n.t = th[c].t /\ n.env = o
        /\ n.round = 0 /\ n.reserved = th[c].reserved
    <3>1. Tail(q) \in Seq(Steps)
      BY <1>3 DEF Turn, ListFor, ListOK
    <3> QED BY <1>3, <2>1, <3>1 DEF Rest, Thread
  <2> HIDE DEF n
  <2>3. ThreadOK(n)
    <3>1. th[c].reserved /\ ListFor(Tail(q), "seed") /\ ~Has(Tail(q), "again")
      BY <1>3, <1>5, <1>6 DEF ThreadOK, Turn
    <3> QED BY <1>3, <2>2, <3>1 DEF ThreadOK
  <2>4. Stepped(c) /\ th'[c] = n
    BY <1>1, <1>11, <2>3, Placing DEF n
  <2>5. p = Tail(q) /\ th'[c].op = th[c].op /\ th'[c].s = th[c].s /\ th'[c].t = th[c].t /\ th'[c].env = o
    BY <1>3, <2>2, <2>4
  <2>6. \A z \in Sessions : rollouts'[z] = IF z = s THEN e ELSE rollouts[z]
    BY <1>1, <1>11 DEF NemoTyping
  <2>7. NemoTyping'
    <3>1. rollouts' \in [Sessions -> Nat]
      BY <1>1, <1>9, <1>11 DEF NemoTyping
    <3> QED BY <1>1, <1>2, <2>4, <3>1 DEF NemoTyping, Stepped
  <2>8. OutRollouts' \subseteq OutRollouts \cup {e}
    BY <2>6 DEF OutRollouts
  <2>9. Numbers'
    <3>1. ~Has(p, "reset")
      BY <1>5, <1>6, <2>5
    <3> QED BY <1>1, <1>2, <1>7, <1>9, <2>1, <2>4, <2>5, <2>8, <3>1, NumbersHeld
  <2>10. \A d \in Callers : d # c => th'[d] = th[d]
    BY <2>4 DEF Stepped
  <2>11. e \notin OutRollouts \cup Queued /\ \A d \in Callers : d # c /\ Hand(th[d].todo) => th[d].env # e
    BY <1>1, <1>5, <1>9 DEF EnvsOK
  <2>12. o # 0 => o \in replicas /\ o \notin Queued /\ \A z \in Sessions : z # s => rollouts[z] # o
    BY <1>1 DEF EnvsOK
  <2>13. o # 0 => o \notin OutRollouts'
    BY <2>6, <2>11, <2>12, <2>1 DEF OutRollouts
  <2>14. EnvsOK'
    <3>1. ASSUME NEW d \in Callers, Fixed(th'[d].todo), NEW z \in th'[d].s PROVE rollouts'[z] = th'[d].env /\ th'[d].env # 0
      <4>1. d # c /\ th'[d] = th[d]
        BY <1>5, <2>5, <2>10, <3>1
      <4>2. z # s
        <5>1. ~Has(th[d].todo, "lock")
          BY <1>1, <3>1, <4>1, WaitersBare DEF Bare
        <5> QED BY <1>1, <1>3, <1>4, <3>1, <4>1, <5>1 DEF Locks
      <4>3. z \in Sessions
        BY <1>1, <3>1, <4>1 DEF NemoTyping, Thread
      <4> QED BY <1>1, <2>6, <3>1, <4>1, <4>2, <4>3 DEF EnvsOK
    <3>2. \A z \in Sessions : rollouts'[z] # 0 => rollouts'[z] \in replicas' /\ rollouts'[z] \notin Queued'
      BY <1>1, <1>2, <1>7, <1>9, <2>6, <2>11 DEF EnvsOK
    <3>3. ASSUME NEW y \in Sessions, NEW z \in Sessions, y # z, rollouts'[y] = rollouts'[z] PROVE rollouts'[y] = 0
      <4>1. \A x \in Sessions : rollouts[x] # e
        BY <2>11 DEF OutRollouts
      <4> QED BY <1>1, <2>6, <3>3, <4>1 DEF EnvsOK
    <3>4. ASSUME NEW d \in Callers, Hand(th'[d].todo), th'[d].env # 0
          PROVE  /\ th'[d].env \notin OutRollouts' \cup Queued'
                 /\ \A a \in Callers : a # d /\ Hand(th'[a].todo) => th'[a].env # th'[d].env
      <4>1. \A a \in Callers : a # c /\ Hand(th'[a].todo) => Hand(th[a].todo) /\ th'[a].env = th[a].env /\ th[a].env # e
        BY <2>10, <2>11
      <4>2. \A a \in Callers : a # c /\ Hand(th[a].todo) /\ th[a].env # 0 => th[a].env \notin OutRollouts \cup Queued
        BY <1>1 DEF EnvsOK
      <4>3. CASE d = c
        BY <1>7, <2>1, <2>5, <2>12, <2>13, <3>4, <4>1, <4>2, <4>3
      <4>4. CASE d # c
        <5>1. Hand(th[d].todo) /\ th'[d].env = th[d].env /\ th[d].env # e /\ th[d].env # 0
          BY <3>4, <4>1, <4>4
        <5>2. th[d].env \notin OutRollouts' \cup Queued' /\ th[d].env # o
          BY <1>7, <2>1, <2>8, <4>2, <4>4, <5>1
        <5>3. \A a \in Callers : a # d /\ a # c /\ Hand(th'[a].todo) => th'[a].env # th'[d].env
          BY <1>1, <4>1, <5>1 DEF EnvsOK
        <5> QED BY <2>5, <5>1, <5>2, <5>3
      <4> QED BY <4>3, <4>4
    <3>5. \A d \in Callers : Resumed(th'[d].todo) => th'[d].env \in replicas'
      BY <1>1, <1>2, <1>5, <2>5, <2>10 DEF EnvsOK
    <3>6. replicas' \subseteq OutRollouts' \cup Queued' \cup InHand'
      <4>1. e \in OutRollouts' /\ o \in InHand'
        BY <1>5, <2>5, <2>6 DEF OutRollouts, InHand
      <4>2. OutRollouts \subseteq OutRollouts' \cup {o}
        BY <2>6 DEF OutRollouts
      <4>3. InHand \subseteq InHand' \cup {e}
        BY <2>10 DEF InHand
      <4> QED BY <1>1, <1>2, <1>7, <4>1, <4>2, <4>3 DEF EnvsOK
    <3> QED BY <3>1, <3>2, <3>3, <3>4, <3>5, <3>6 DEF EnvsOK
  <2> QED BY <1>8, <2>4, <2>5, <2>7, <2>9, <2>14 DEF NemoInv
<1> QED BY <1>2, <1>4, <1>10, <1>11

\* The golden is its builder's snapshot, with its lease.
LEMMA BuildInv ==
    ASSUME NemoInv, NEW c \in Callers, Build(c)
    PROVE  NemoInv'
<1> DEFINE q == th[c].todo
           p == th'[c].todo
           e == th[c].env
<1>1. /\ NemoTyping /\ Control /\ Locks /\ Numbers /\ EnvsOK /\ SnapsOK /\ LeasesOK /\ Bounded /\ Terminal
  BY DEF NemoInv
<1>2. /\ At(c, "build")
      /\ \E t \in th[c].t :
           \/ /\ goldens' = [goldens EXCEPT ![t] = [snap |-> e, leases |-> 1]]
              /\ stored' = stored \cup {e}
              /\ Goes(c) /\ UNCHANGED replicas
           \/ /\ Turns(c, SeedUndone)
              /\ replicas' \in {replicas, replicas \cup {e}}
              /\ UNCHANGED <<goldens, stored>>
      /\ UNCHANGED <<rollouts, taskOf, pendingEnvs, pendingSnaps, retrying, engine, cleanClose>>
  BY DEF Build
<1>3. /\ th[c].op = "seed" /\ ListFor(q, "seed") /\ q # <<>> /\ Head(q) = "build" /\ ThreadOK(th[c]) /\ th[c] \in Thread
      /\ Has(q, "build") /\ ~Has(q, "lock") /\ ~Has(q, "again") /\ Turn(q, Tail(q), "seed") /\ th[c].round = 0
      /\ "build" \notin Of["close"] /\ "build" \notin Late /\ ListOK(q)
      /\ \E t \in Tasks : th[c].t = {t}
  BY <1>1, <1>2, SeedAt
<1>4. PICK t \in Tasks : th[c].t = {t}
  BY <1>3
<1>5. Hand(q) /\ ~Leases(q) /\ ~Resumed(q) /\ ~Fixed(q) /\ Owes(q) /\ Has(q, "reset")
  BY <1>3 DEF Turn
<1>6. e # 0 /\ e \in Nat /\ e \in InHand /\ e \notin Snaps \cup QueuedSnaps /\ goldens[t].snap = 0
  BY <1>1, <1>3, <1>4, <1>5 DEF Numbers, NemoTyping, Thread, InHand, SnapsOK, Locks
<1>7. Queued' = Queued /\ QueuedSnaps' = QueuedSnaps /\ OutRollouts' = OutRollouts
  BY <1>2, QueuesStay DEF OutRollouts
<1>8. CASE Turns(c, SeedUndone) /\ replicas' \in {replicas, replicas \cup {e}} /\ UNCHANGED <<goldens, stored>>
  <2>1. th[c].reserved
    BY <1>3, <1>5 DEF ThreadOK
  <2>2. /\ Stepped(c) /\ p = SeedUndone /\ th'[c].op = th[c].op /\ th'[c].s = th[c].s /\ th'[c].t = th[c].t
        /\ th'[c].env = th[c].env
    BY <1>1, <1>3, <1>8, <2>1, SeedPlan, Turning
  <2>3. /\ Hand(p) /\ Owes(p) /\ ~Leases(p) /\ ~Resumed(p) /\ ~Fixed(p) /\ ~Has(p, "build") /\ ~Has(p, "reset")
    BY <2>2, SeedPlan
  <2>4. NemoTyping'
    BY <1>1, <1>2, <1>6, <1>8, <2>2 DEF NemoTyping, Stepped
  <2>5. Control' /\ Terminal'
    BY <1>2, <1>3, <2>2, <2>4, AtWorkKeeps
  <2>6. Snaps' = Snaps
    BY <1>8 DEF Snaps
  <2>7. Locks'
    <3>1. \A d \in Callers : Has(th'[d].todo, "build") => \A u \in th'[d].t : goldens'[u].snap = 0
      BY <1>1, <1>8, <2>2, <2>3 DEF Stepped, Locks
    <3> QED BY <1>1, <1>3, <2>2, <2>3, <3>1, LocksHeld
  <2>8. Numbers'
    BY <1>1, <1>2, <1>6, <1>7, <2>2, <2>3, <2>6, NumbersHeld
  <2>9. EnvsOK'
    BY <1>1, <1>2, <1>5, <1>7, <1>8, <2>2, <2>3, EnvsHeld
  <2>10. SnapsOK'
    BY <1>1, <1>7, <1>8, <2>2, <2>3, SnapsHeld
  <2>11. LeasesOK'
    BY <1>1, <1>5, <1>8, <2>2, <2>3, LeasesHeld
  <2>12. Bounded'
    BY <1>1, <1>2, <1>5, <2>2, <2>4, BoundedHeld
  <2> QED BY <2>4, <2>5, <2>7, <2>8, <2>9, <2>10, <2>11, <2>12 DEF NemoInv
<1>9. CASE /\ goldens' = [goldens EXCEPT ![t] = [snap |-> e, leases |-> 1]]
           /\ stored' = stored \cup {e} /\ Goes(c) /\ UNCHANGED replicas
  <2>1. /\ Stepped(c) /\ p = Tail(q) /\ th'[c].op = th[c].op /\ th'[c].s = th[c].s /\ th'[c].t = th[c].t /\ th'[c].env = th[c].env
    BY <1>1, <1>3, <1>9, Going
  <2>2. Hand(p) /\ Leases(p) /\ ~Resumed(p) /\ ~Fixed(p) /\ Owes(p) /\ ~Has(p, "build")
    BY <1>3, <2>1 DEF Turn, Leases
  <2>3. \A d \in Callers : d # c => th'[d] = th[d]
    BY <2>1 DEF Stepped
  <2>4. \A u \in Tasks : /\ u # t => goldens'[u] = goldens[u]
                         /\ u = t => goldens'[u].snap = e /\ goldens'[u].leases = 1
    BY <1>1, <1>9 DEF NemoTyping
  <2>5. NemoTyping'
    <3>1. goldens' \in [Tasks -> [snap : Nat, leases : Int]]
      BY <1>1, <1>6, <1>9 DEF NemoTyping
    <3> QED BY <1>1, <1>2, <1>6, <1>9, <2>1, <3>1 DEF NemoTyping, Stepped
  <2>6. Control' /\ Terminal'
    BY <1>2, <1>3, <2>1, <2>5, AtWorkKeeps
  <2>7. Snaps' \subseteq Snaps \cup {e}
    BY <2>4 DEF Snaps
  <2>8. Locks'
    <3>1. ASSUME NEW d \in Callers, Has(th'[d].todo, "build"), NEW u \in th'[d].t PROVE goldens'[u].snap = 0
      <4>1. d # c /\ th'[d] = th[d] /\ th[d].t \subseteq Tasks
        BY <1>1, <2>2, <2>3, <3>1 DEF NemoTyping, Thread
      <4>2. u # t
        BY <1>1, <1>3, <1>4, <3>1, <4>1 DEF Locks
      <4> QED BY <1>1, <2>4, <3>1, <4>1, <4>2 DEF Locks
    <3> QED BY <1>1, <1>3, <2>1, <2>2, <3>1, LocksHeld
  <2>9. Numbers'
    BY <1>1, <1>2, <1>6, <1>7, <2>1, <2>7, NumbersHeld
  <2>10. EnvsOK'
    BY <1>1, <1>2, <1>5, <1>7, <1>9, <2>1, <2>2, EnvsHeld
  <2>11. SnapsOK'
    <3>1. \A u \in Tasks : goldens'[u].snap # 0 => goldens'[u].snap \in stored' /\ goldens'[u].snap \notin QueuedSnaps'
      BY <1>1, <1>6, <1>7, <1>9, <2>4 DEF SnapsOK
    <3>2. \A u \in Tasks : goldens[u].snap # e
      BY <1>6 DEF Snaps
    <3>3. \A u, v \in Tasks : u # v /\ goldens'[u].snap = goldens'[v].snap => goldens'[u].snap = 0
      BY <1>1, <2>4, <3>2 DEF SnapsOK
    <3>4. ASSUME NEW d \in Callers, Has(th'[d].todo, "build") PROVE th'[d].env \notin Snaps' \cup QueuedSnaps'
      <4>1. d # c /\ th'[d] = th[d]
        BY <2>2, <2>3, <3>4
      <4>2. Hand(th[d].todo) /\ th[d].env # 0
        BY <1>1, <3>4, <4>1, BuildersEnv
      <4>3. th[d].env # e
        BY <1>1, <1>5, <1>6, <4>1, <4>2 DEF EnvsOK
      <4> QED BY <1>1, <1>7, <2>7, <3>4, <4>1, <4>3 DEF SnapsOK
    <3>5. stored' \subseteq Snaps' \cup QueuedSnaps'
      <4>1. e \in Snaps'
        BY <2>4 DEF Snaps
      <4>2. Snaps \subseteq Snaps' \cup {0}
        BY <1>6, <2>4 DEF Snaps
      <4>3. 0 \notin stored
        BY <1>1 DEF NemoTyping
      <4> QED BY <1>1, <1>7, <1>9, <4>1, <4>2, <4>3 DEF SnapsOK
    <3> QED BY <3>1, <3>3, <3>4, <3>5 DEF SnapsOK
  <2>12. LeasesOK'
    <3> DEFINE S(u) == {d \in Callers : u \in th[d].t /\ Leases(th[d].todo)}
               Z(u) == {d \in Callers : u \in th'[d].t /\ Leases(th'[d].todo)}
    <3>1. \A u \in Tasks : u # t => Z(u) = S(u)
      BY <1>4, <2>1, <2>3
    <3>2. S(t) = {}
      BY <1>1, <1>6 DEF LeasesOK
    <3>3. Z(t) = {c}
      BY <1>4, <2>1, <2>2, <2>3, <3>2
    <3>4. Cardinality({c}) = 1
      BY FS_Singleton
    <3>5. \A u \in Tasks : goldens[u].leases = Cardinality(S(u))
      BY <1>1 DEF LeasesOK
    <3>6. \A u \in Tasks : goldens'[u].leases = Cardinality(Z(u))
      BY <2>4, <3>1, <3>3, <3>4, <3>5
    <3>7. ASSUME NEW d \in Callers, Leases(th'[d].todo), NEW u \in th'[d].t PROVE goldens'[u].snap # 0
      <4>1. u \in Tasks /\ (u = t => goldens'[u].snap = e)
        BY <2>4, <2>5, <3>7 DEF NemoTyping, Thread
      <4>2. CASE u # t
        <5>1. d # c /\ th'[d] = th[d]
          BY <1>4, <2>1, <2>3, <3>7, <4>2
        <5> QED BY <1>1, <2>4, <3>7, <4>1, <4>2, <5>1 DEF LeasesOK
      <4> QED BY <1>6, <4>1, <4>2
    <3> QED BY <3>6, <3>7 DEF LeasesOK
  <2>13. Bounded'
    BY <1>1, <1>2, <1>5, <2>1, <2>5, BoundedHeld
  <2> QED BY <2>5, <2>6, <2>8, <2>9, <2>10, <2>11, <2>12, <2>13 DEF NemoInv
<1> QED BY <1>2, <1>4, <1>8, <1>9

\* An environment is made, under a number of its own.
LEMMA LeaseInv ==
    ASSUME NemoInv, NEW c \in Callers, Lease(c)
    PROVE  NemoInv'
<1> DEFINE q == th[c].todo
           p == th'[c].todo
           e == Len(taskOf) + 1
<1>1. /\ NemoTyping /\ Control /\ Locks /\ Numbers /\ EnvsOK /\ SnapsOK /\ LeasesOK /\ Bounded /\ Terminal
  BY DEF NemoInv
<1>2. /\ At(c, "lease")
      /\ UNCHANGED <<rollouts, pendingEnvs, pendingSnaps, retrying, engine, replicas, stored, cleanClose>>
  BY DEF Lease
<1>3. /\ th[c].op = "seed" /\ ListFor(q, "seed") /\ q # <<>> /\ Head(q) = "lease" /\ ThreadOK(th[c]) /\ th[c] \in Thread
      /\ Has(q, "lease") /\ ~Has(q, "lock") /\ ~Has(q, "again") /\ Turn(q, Tail(q), "seed") /\ th[c].round = 0
      /\ "lease" \notin Of["close"] /\ "lease" \notin Late /\ ListOK(q)
      /\ \E t \in Tasks : th[c].t = {t}
  BY <1>1, <1>2, SeedAt
<1>4. PICK t \in Tasks : th[c].t = {t}
  BY <1>3
<1>5. /\ GoldenLockedBy(t) = {} /\ taskOf' = Append(taskOf, t)
      /\ LET mine == [Rest(c) EXCEPT !.env = e] IN
          IF HasGolden(t)
          THEN goldens' = [goldens EXCEPT ![t] = Leased(t)] /\ Becomes(c, mine)
          ELSE Becomes(c, [mine EXCEPT !.todo = <<"build">> \o @]) /\ UNCHANGED goldens
  BY <1>4 DEF Lease
<1>6. /\ ~Hand(q) /\ ~Leases(q) /\ ~Resumed(q) /\ ~Fixed(q) /\ Owes(q) /\ ~Has(q, "build")
      /\ Hand(Tail(q)) /\ Leases(Tail(q)) /\ ~Resumed(Tail(q)) /\ ~Fixed(Tail(q)) /\ Owes(Tail(q))
      /\ ListFor(Tail(q), "seed") /\ th[c].reserved /\ Tail(q) \in Seq(Steps)
  BY <1>3 DEF Turn, ListFor, ListOK, ThreadOK
<1>7. Len(taskOf) \in Nat /\ e \in Nat /\ e # 0 /\ Len(taskOf') = e /\ taskOf' \in Seq(Tasks)
  <2>1. taskOf \in Seq(Tasks)
    BY <1>1 DEF NemoTyping
  <2> QED BY <1>5, <2>1
<1>8. PICK n \in Thread : /\ Becomes(c, n) /\ ThreadOK(n) /\ n.op = "seed" /\ n.s = th[c].s /\ n.t = th[c].t /\ n.env = e
                          /\ Hand(n.todo) /\ ~Resumed(n.todo) /\ ~Fixed(n.todo) /\ Owes(n.todo)
                          /\ \/ /\ HasGolden(t) /\ goldens' = [goldens EXCEPT ![t] = Leased(t)]
                                /\ Leases(n.todo) /\ ~Has(n.todo, "build")
                             \/ ~HasGolden(t) /\ goldens' = goldens /\ ~Leases(n.todo) /\ Has(n.todo, "build")
  <2> DEFINE m == [Rest(c) EXCEPT !.env = e]
             z == <<"build">> \o Tail(q)
  <2>1. /\ m \in Thread /\ m.todo = Tail(q) /\ m.op = "seed" /\ m.s = th[c].s /\ m.t = th[c].t /\ m.env = e
        /\ m.round = 0 /\ m.reserved
    BY <1>3, <1>6, <1>7 DEF Rest, Thread
  <2> HIDE DEF m
  <2>2. CASE HasGolden(t)
    <3>1. ThreadOK(m)
      <4>1. ~Has(Tail(q), "again")
        BY <1>3, Popped
      <4> QED BY <1>3, <1>6, <2>1, <4>1 DEF ThreadOK
    <3>2. ~Has(Tail(q), "build")
      BY <1>6 DEF Leases
    <3> QED BY <1>5, <1>6, <2>1, <2>2, <3>1, <3>2 DEF m
  <2>3. CASE ~HasGolden(t)
    <3> DEFINE w == [m EXCEPT !.todo = z]
    <3>1. /\ ListFor(z, "seed") /\ Hand(z) /\ ~Leases(z) /\ ~Resumed(z) /\ ~Fixed(z) /\ Owes(z)
          /\ Has(z, "build") /\ ~Has(z, "again")
      BY <1>3, BuildFirst
    <3>2. Becomes(c, w) /\ goldens' = goldens
      BY <1>5, <2>1, <2>3 DEF m
    <3> HIDE DEF z
    <3>3. z \in Seq(Steps)
      BY <3>1 DEF ListFor, ListOK
    <3>4. /\ w \in Thread /\ w.todo = z /\ w.op = "seed" /\ w.s = th[c].s /\ w.t = th[c].t /\ w.env = e
          /\ w.round = 0 /\ w.reserved
      BY <2>1, <3>3 DEF Thread
    <3> HIDE DEF w
    <3>5. ThreadOK(w)
      BY <1>3, <3>1, <3>4 DEF ThreadOK
    <3> QED BY <2>3, <3>1, <3>2, <3>4, <3>5
  <2> QED BY <2>2, <2>3
<1>9. Stepped(c) /\ th'[c] = n
  BY <1>1, <1>8, Placing
<1>10. \A d \in Callers : d # c => th'[d] = th[d]
  BY <1>9 DEF Stepped
<1>11. \A u \in Tasks : /\ goldens'[u].snap = goldens[u].snap /\ goldens'[u] \in [snap : Nat, leases : Int]
                        /\ goldens'[u].leases = IF u = t /\ HasGolden(t) THEN goldens[u].leases + 1 ELSE goldens[u].leases
  <2>1. ASSUME NEW g \in [snap : Nat, leases : Int], NEW h, h = [g EXCEPT !.leases = @ + 1]
        PROVE  h.snap = g.snap /\ h \in [snap : Nat, leases : Int] /\ h.leases = g.leases + 1
    BY <2>1
  <2>2. \A u \in Tasks : goldens[u] \in [snap : Nat, leases : Int]
    BY <1>1 DEF NemoTyping
  <2>3. \A u \in Tasks : goldens'[u] = IF u = t /\ HasGolden(t) THEN [goldens[u] EXCEPT !.leases = @ + 1] ELSE goldens[u]
    BY <1>1, <1>8 DEF NemoTyping, Leased
  <2> QED BY <2>1, <2>2, <2>3
<1>12. NemoTyping'
  <2>1. goldens' \in [Tasks -> [snap : Nat, leases : Int]]
    BY <1>1, <1>8, <1>11 DEF NemoTyping
  <2> QED BY <1>1, <1>2, <1>7, <1>9, <2>1 DEF NemoTyping, Stepped
<1>13. Control' /\ Terminal'
  BY <1>2, <1>3, <1>8, <1>9, <1>12, AtWorkKeeps
<1>14. Queued' = Queued /\ QueuedSnaps' = QueuedSnaps /\ OutRollouts' = OutRollouts /\ Snaps' = Snaps
  BY <1>2, <1>11, QueuesStay DEF OutRollouts, Snaps
<1>15. /\ e \notin Queued \cup QueuedSnaps \cup OutRollouts \cup Snaps \cup InHand
       /\ \A x \in Queued \cup QueuedSnaps \cup OutRollouts \cup Snaps \cup InHand : x <= e
  <2>1. \A x \in Queued \cup QueuedSnaps \cup OutRollouts \cup Snaps \cup InHand : x <= Len(taskOf) /\ x \in Nat
    <3>1. Queued \cup QueuedSnaps \subseteq Nat
      <4>1. /\ ToSet(pendingEnvs) \subseteq Nat /\ ToSet(pendingSnaps) \subseteq Nat
            /\ ToSet(retrying.left) \subseteq Nat /\ ToSet(retrying.failed) \subseteq Nat
        <5>1. /\ pendingEnvs \in Seq(Nat) /\ pendingSnaps \in Seq(Nat) /\ retrying.left \in Seq(Nat) /\ retrying.failed \in Seq(Nat)
          BY <1>1 DEF NemoTyping
        <5> QED BY <5>1, InBoth
      <4>2. EnvsInRetry \cup SnapsInRetry \subseteq ToSet(retrying.left) \cup ToSet(retrying.failed)
        BY <1>1, Rounds
      <4> QED BY <4>1, <4>2 DEF Queued, QueuedSnaps
    <3>2. OutRollouts \subseteq Nat /\ Snaps \subseteq Nat /\ InHand \subseteq Nat
      BY <1>1 DEF OutRollouts, Snaps, InHand, NemoTyping, Thread
    <3> QED BY <1>1, <3>1, <3>2 DEF Numbers
  <2>2. ASSUME NEW x \in Nat, NEW l \in Nat, x <= l PROVE x <= l + 1 /\ x # l + 1
    BY <2>2
  <2> QED BY <1>7, <2>1, <2>2
<1>16. Hand(p) /\ Owes(p) /\ th'[c].env = e /\ th'[c].s = th[c].s /\ th'[c].t = th[c].t /\ ~Fixed(p) /\ ~Resumed(p)
  BY <1>8, <1>9
<1>17. Locks'
  <2>1. ASSUME Has(p, "build"), NEW d \in Callers, d # c, Has(th[d].todo, "build") PROVE th[d].t \cap th[c].t = {}
    <3>1. /\ ListFor(th[d].todo, th[d].op) /\ ListOK(th[d].todo) /\ th[d].op \in Ops /\ ThreadOK(th[d])
      BY <1>1 DEF Control, ThreadOK, Thread, ListFor
    <3>2. th[d].todo # <<>>
      BY <2>1 DEF Has
    <3>3. th[d].op = "seed" /\ At(d, "build")
      BY <2>1, <3>1, <3>2, BuildHands, Alone DEF At
    <3>4. th[d].t # {t}
      BY <1>5, <2>1, <3>3 DEF GoldenLockedBy
    <3>5. \E u \in Tasks : th[d].t = {u}
      BY <3>1, <3>3 DEF ThreadOK
    <3> QED BY <1>4, <3>4, <3>5
  <2>2. ASSUME NEW d \in Callers, Has(th'[d].todo, "build"), NEW u \in th'[d].t PROVE goldens'[u].snap = 0
    <3>1. CASE d = c
      BY <1>4, <1>8, <1>9, <2>2, <3>1 DEF HasGolden
    <3>2. CASE d # c
      <4>1. th'[d] = th[d] /\ u \in Tasks
        BY <1>10, <1>12, <2>2, <3>2 DEF NemoTyping, Thread
      <4> QED BY <1>1, <1>11, <2>2, <4>1 DEF Locks
    <3> QED BY <3>1, <3>2
  <2> QED BY <1>1, <1>3, <1>9, <1>16, <2>1, <2>2, LocksHeld
<1>18. Numbers'
  <2>1. InHand' \subseteq InHand \cup {e}
    BY <1>10, <1>16 DEF InHand
  <2>2. e <= e
    BY <1>7
  <2>3. \A x \in Queued' \cup QueuedSnaps' \cup OutRollouts' \cup InHand' \cup Snaps' : x <= Len(taskOf')
    BY <1>7, <1>14, <1>15, <2>1, <2>2
  <2>4. \A d \in Callers : Hand(th'[d].todo) /\ Has(th'[d].todo, "reset") => th'[d].env # 0
    BY <1>1, <1>7, <1>10, <1>16 DEF Numbers
  <2> QED BY <2>3, <2>4 DEF Numbers
<1>19. EnvsOK'
  <2>1. ASSUME NEW d \in Callers, Fixed(th'[d].todo) PROVE \A s \in th'[d].s : rollouts'[s] = th'[d].env /\ th'[d].env # 0
    BY <1>1, <1>2, <1>10, <1>16, <2>1 DEF EnvsOK
  <2>2. \A s \in Sessions : rollouts'[s] # 0 => rollouts'[s] \in replicas' /\ rollouts'[s] \notin Queued'
    BY <1>1, <1>2, <1>14 DEF EnvsOK
  <2>3. \A s, z \in Sessions : s # z /\ rollouts'[s] = rollouts'[z] => rollouts'[s] = 0
    BY <1>1, <1>2 DEF EnvsOK
  <2>4. \A d \in Callers : d # c /\ Hand(th'[d].todo) => Hand(th[d].todo) /\ th'[d].env = th[d].env /\ th[d].env # e
    BY <1>10, <1>15 DEF InHand
  <2>5. ASSUME NEW d \in Callers, Hand(th'[d].todo), th'[d].env # 0
        PROVE  /\ th'[d].env \notin OutRollouts' \cup Queued'
               /\ \A a \in Callers : a # d /\ Hand(th'[a].todo) => th'[a].env # th'[d].env
    <3>1. CASE d = c
      BY <1>14, <1>15, <1>16, <2>4, <3>1
    <3>2. CASE d # c
      BY <1>1, <1>14, <1>16, <2>4, <2>5, <3>2 DEF EnvsOK
    <3> QED BY <3>1, <3>2
  <2>6. \A d \in Callers : Resumed(th'[d].todo) => th'[d].env \in replicas'
    BY <1>1, <1>2, <1>10, <1>16 DEF EnvsOK
  <2>7. InHand \subseteq InHand'
    BY <1>6, <1>10 DEF InHand
  <2>8. replicas' \subseteq OutRollouts' \cup Queued' \cup InHand'
    BY <1>1, <1>2, <1>14, <2>7 DEF EnvsOK
  <2> QED BY <2>1, <2>2, <2>3, <2>5, <2>6, <2>8 DEF EnvsOK
<1>20. SnapsOK'
  BY <1>1, <1>2, <1>9, <1>11, <1>14, <1>15, <1>16, SnapsHeld
<1>21. LeasesOK'
  <2> DEFINE S(u) == {d \in Callers : u \in th[d].t /\ Leases(th[d].todo)}
             Z(u) == {d \in Callers : u \in th'[d].t /\ Leases(th'[d].todo)}
  <2>1. \A u \in Tasks : goldens[u].leases = Cardinality(S(u))
    BY <1>1 DEF LeasesOK
  <2>2. \A d \in Callers : d # c /\ Leases(th'[d].todo) => \A u \in th'[d].t : goldens'[u].snap # 0
    BY <1>1, <1>10, <1>11, <1>12 DEF LeasesOK, NemoTyping, Thread
  <2>3. CASE Leases(p)
    <3>1. HasGolden(t)
      BY <1>8, <1>9, <2>3
    <3>2. \A u \in Tasks : u # t => Z(u) = S(u)
      BY <1>4, <1>10, <1>16
    <3>3. Z(t) = S(t) \cup {c} /\ c \notin S(t)
      BY <1>4, <1>6, <1>10, <1>16, <2>3
    <3>4. IsFiniteSet(S(t))
      BY OwingFinite
    <3>5. Cardinality(S(t) \cup {c}) = Cardinality(S(t)) + 1
      BY <3>3, <3>4, FS_AddElement
    <3>6. \A u \in Tasks : goldens'[u].leases = Cardinality(Z(u))
      BY <1>11, <2>1, <3>1, <3>2, <3>3, <3>5
    <3>7. \A u \in th'[c].t : goldens'[u].snap # 0
      BY <1>4, <1>11, <1>16, <3>1 DEF HasGolden
    <3> QED BY <2>2, <3>6, <3>7 DEF LeasesOK
  <2>4. CASE ~Leases(p)
    <3>1. ~HasGolden(t)
      BY <1>8, <1>9, <2>4
    <3>2. \A u \in Tasks : Z(u) = S(u)
      BY <1>6, <1>10, <2>4
    <3>3. \A u \in Tasks : goldens'[u].leases = Cardinality(Z(u))
      BY <1>11, <2>1, <3>1, <3>2
    <3> QED BY <2>2, <2>4, <3>3 DEF LeasesOK
  <2> QED BY <2>3, <2>4
<1>22. Bounded'
  BY <1>1, <1>2, <1>6, <1>9, <1>12, BoundedHeld
<1> QED BY <1>12, <1>13, <1>17, <1>18, <1>19, <1>20, <1>21, <1>22 DEF NemoInv

--------------------------------------------------------------------------------
(* What ends a rollout.                                                         *)

\* A session gives up its rollout to the call that is to close it.
LEMMA HandedOver ==
    ASSUME NemoTyping, Control, Locks, EnvsOK, NemoTyping', NEW c \in Callers, Stepped(c), NEW s \in Sessions,
           rollouts[s] # 0, rollouts' = [rollouts EXCEPT ![s] = 0], replicas' = replicas, Queued' = Queued,
           ~Hand(th[c].todo), Hand(th'[c].todo), th'[c].env = rollouts[s], ~Fixed(th'[c].todo), ~Resumed(th'[c].todo),
           \A d \in Callers : d # c /\ s \in th[d].s => Has(th[d].todo, "lock")
    PROVE  EnvsOK' /\ OutRollouts' \subseteq OutRollouts \cup {0}
<1> DEFINE e == rollouts[s]
<1>1. \A z \in Sessions : rollouts'[z] = IF z = s THEN 0 ELSE rollouts[z]
  BY DEF NemoTyping
<1>2. \A d \in Callers : d # c => th'[d] = th[d]
  BY DEF Stepped
<1>3. e \in OutRollouts /\ e \notin Queued /\ \A z \in Sessions : z # s => rollouts[z] # e
  BY DEF OutRollouts, EnvsOK
<1>4. OutRollouts' \subseteq OutRollouts \cup {0} /\ e \notin OutRollouts'
  BY <1>1, <1>3 DEF OutRollouts
<1>5. ASSUME NEW d \in Callers, Fixed(th'[d].todo), NEW z \in th'[d].s PROVE rollouts'[z] = th'[d].env /\ th'[d].env # 0
  <2>1. d # c /\ th'[d] = th[d]
    BY <1>2, <1>5
  <2>2. z # s
    BY <1>5, <2>1, WaitersBare DEF Bare
  <2>3. z \in Sessions
    BY <1>5, <2>1 DEF NemoTyping, Thread
  <2> QED BY <1>1, <1>5, <2>1, <2>2, <2>3 DEF EnvsOK
<1>6. \A z \in Sessions : rollouts'[z] # 0 => rollouts'[z] \in replicas' /\ rollouts'[z] \notin Queued'
  BY <1>1 DEF EnvsOK
<1>7. \A y, z \in Sessions : y # z /\ rollouts'[y] = rollouts'[z] => rollouts'[y] = 0
  BY <1>1 DEF EnvsOK
<1>8. \A a \in Callers : a # c /\ Hand(th'[a].todo) => Hand(th[a].todo) /\ th'[a].env = th[a].env
  BY <1>2
<1>9. \A a \in Callers : a # c /\ Hand(th[a].todo) /\ th[a].env # 0 => th[a].env \notin OutRollouts \cup Queued /\ th[a].env # e
  BY <1>3 DEF EnvsOK
<1>10. ASSUME NEW d \in Callers, Hand(th'[d].todo), th'[d].env # 0
       PROVE  /\ th'[d].env \notin OutRollouts' \cup Queued'
              /\ \A a \in Callers : a # d /\ Hand(th'[a].todo) => th'[a].env # th'[d].env
  <2>1. CASE d = c
    BY <1>3, <1>4, <1>8, <1>9, <1>10, <2>1
  <2>2. CASE d # c
    <3>1. Hand(th[d].todo) /\ th'[d].env = th[d].env /\ th[d].env # e /\ th[d].env # 0
      BY <1>8, <1>9, <1>10, <2>2
    <3>2. th[d].env \notin OutRollouts' \cup Queued'
      BY <1>4, <1>9, <2>2, <3>1
    <3>3. \A a \in Callers : a # d /\ a # c /\ Hand(th'[a].todo) => th'[a].env # th'[d].env
      BY <1>8, <3>1 DEF EnvsOK
    <3> QED BY <3>1, <3>2, <3>3
  <2> QED BY <2>1, <2>2
<1>11. \A d \in Callers : Resumed(th'[d].todo) => th'[d].env \in replicas'
  BY <1>2 DEF EnvsOK
<1>12. replicas' \subseteq OutRollouts' \cup Queued' \cup InHand'
  <2>1. e \in InHand'
    BY DEF InHand
  <2>2. OutRollouts \subseteq OutRollouts' \cup {e}
    BY <1>1 DEF OutRollouts
  <2>3. InHand \subseteq InHand'
    BY <1>2 DEF InHand
  <2> QED BY <2>1, <2>2, <2>3 DEF EnvsOK
<1> QED BY <1>4, <1>5, <1>6, <1>7, <1>10, <1>11, <1>12 DEF EnvsOK

\* _detach_rollout: the rollout goes from its session to the call.
LEMMA DetachInv ==
    ASSUME NemoInv, NEW c \in Callers, Detach(c)
    PROVE  NemoInv'
<1> DEFINE q == th[c].todo
           p == th'[c].todo
<1>1. /\ NemoTyping /\ Control /\ Locks /\ Numbers /\ EnvsOK /\ SnapsOK /\ LeasesOK /\ Bounded /\ Terminal
  BY DEF NemoInv
<1>2. /\ At(c, "detach") /\ Goes(c) /\ \E s \in th[c].s : rollouts' = [rollouts EXCEPT ![s] = 0]
      /\ UNCHANGED <<taskOf, goldens, pendingEnvs, pendingSnaps, retrying, engine, replicas, stored, cleanClose>>
  BY DEF Detach
<1>3. /\ ListFor(q, th[c].op) /\ q # <<>> /\ Head(q) = "detach" /\ ListOK(q) /\ ThreadOK(th[c]) /\ th[c].op \in Ops
      /\ Turn(q, Tail(q), th[c].op)
  <2>1. ListFor(q, th[c].op) /\ q # <<>> /\ Head(q) = "detach" /\ ListOK(q) /\ ThreadOK(th[c])
    BY <1>1, <1>2, First
  <2>2. th[c].op \in Ops
    BY <2>1 DEF ThreadOK, Thread
  <2> QED BY <2>1, <2>2, Turned
<1>4. /\ th[c].op \in {"verify", "end"} /\ ~Hand(q) /\ Hand(Tail(q)) /\ ~Leases(q) /\ ~Leases(Tail(q))
      /\ ~Resumed(q) /\ ~Resumed(Tail(q)) /\ Fixed(q) /\ ~Fixed(Tail(q)) /\ (Owes(Tail(q)) <=> Owes(q)) /\ ListFor(Tail(q), th[c].op)
  BY <1>3 DEF Turn
<1>5. ~Has(q, "lock") /\ ~Has(Tail(q), "build") /\ ~Has(Tail(q), "reset")
  <2>1. ~Has(q, "lock")
    BY <1>3, Alone
  <2>2. {"build", "reset"} \cap Of[th[c].op] = {} /\ {"build", "reset"} \subseteq Steps
    BY <1>4 DEF Of, Common, Steps
  <2> QED BY <1>4, <2>1, <2>2 DEF ListFor
<1>6. PICK s \in Sessions : th[c].s = {s}
  BY <1>3, <1>4 DEF ThreadOK
<1>7. rollouts[s] = th[c].env /\ rollouts[s] # 0 /\ rollouts' = [rollouts EXCEPT ![s] = 0]
  BY <1>1, <1>2, <1>4, <1>6 DEF EnvsOK
<1>8. /\ Stepped(c) /\ p = Tail(q) /\ th'[c].op = th[c].op /\ th'[c].s = th[c].s /\ th'[c].t = th[c].t /\ th'[c].env = th[c].env
  BY <1>1, <1>2, <1>3, Going
<1>9. NemoTyping'
  <2>1. rollouts' \in [Sessions -> Nat]
    BY <1>1, <1>7 DEF NemoTyping
  <2> QED BY <1>1, <1>2, <1>8, <2>1 DEF NemoTyping, Stepped
<1>10. Control' /\ Terminal'
  <2>1. "detach" \notin Of["close"] /\ "detach" \notin Late
    BY DEF Of, Late
  <2> QED BY <1>2, <1>8, <1>9, <2>1, AtWorkKeeps
<1>11. Queued' = Queued /\ QueuedSnaps' = QueuedSnaps /\ Snaps' = Snaps
  BY <1>2, QueuesStay DEF Snaps
<1>12. Locks'
  <2>1. \A d \in Callers : Has(th'[d].todo, "build") => \A u \in th'[d].t : goldens'[u].snap = 0
    BY <1>1, <1>2, <1>5, <1>8 DEF Stepped, Locks
  <2> QED BY <1>1, <1>5, <1>8, <2>1, LocksHeld
<1>13. \A d \in Callers : d # c /\ s \in th[d].s => Has(th[d].todo, "lock")
  BY <1>1, <1>5, <1>6 DEF Locks
<1>14. EnvsOK' /\ OutRollouts' \subseteq OutRollouts \cup {0}
  BY <1>1, <1>2, <1>4, <1>7, <1>8, <1>9, <1>11, <1>13, HandedOver
<1>15. Numbers'
  <2>1. th'[c].env \in OutRollouts
    BY <1>7, <1>8 DEF OutRollouts
  <2> QED BY <1>1, <1>2, <1>5, <1>8, <1>11, <1>14, <2>1, NumbersHeld
<1>16. SnapsOK'
  BY <1>1, <1>2, <1>5, <1>8, <1>11, SnapsHeld
<1>17. LeasesOK'
  BY <1>1, <1>2, <1>4, <1>8, LeasesHeld
<1>18. Bounded'
  BY <1>1, <1>2, <1>4, <1>8, <1>9, BoundedHeld
<1> QED BY <1>9, <1>10, <1>12, <1>14, <1>15, <1>16, <1>17, <1>18 DEF NemoInv

\* _close_env: what was in hand is gone, or in the backlog, in the place reserved for it.
LEMMA CloseEnvInv ==
    ASSUME NemoInv, NEW c \in Callers, CloseEnv(c)
    PROVE  NemoInv'
<1> DEFINE q == th[c].todo
           p == th'[c].todo
           e == th[c].env
<1>1. /\ NemoTyping /\ Control /\ Locks /\ Numbers /\ EnvsOK /\ SnapsOK /\ LeasesOK /\ Bounded /\ Terminal
  BY DEF NemoInv
<1>2. /\ At(c, "close_env") /\ Goes(c)
      /\ \/ replicas' = replicas \ {e} /\ UNCHANGED pendingEnvs
         \/ e \in replicas /\ pendingEnvs' = CloseQueues(e) /\ UNCHANGED replicas
      /\ UNCHANGED <<rollouts, taskOf, goldens, pendingSnaps, retrying, engine, stored, cleanClose>>
  BY DEF CloseEnv
<1>3. /\ ListFor(q, th[c].op) /\ q # <<>> /\ Head(q) = "close_env" /\ ListOK(q) /\ ThreadOK(th[c]) /\ th[c].op \in Ops
      /\ Turn(q, Tail(q), th[c].op)
  <2>1. ListFor(q, th[c].op) /\ q # <<>> /\ Head(q) = "close_env" /\ ListOK(q) /\ ThreadOK(th[c])
    BY <1>1, <1>2, First
  <2>2. th[c].op \in Ops
    BY <2>1 DEF ThreadOK, Thread
  <2> QED BY <2>1, <2>2, Turned
<1>4. /\ Hand(q) /\ ~Hand(Tail(q)) /\ ~Leases(q) /\ ~Leases(Tail(q)) /\ ~Resumed(q) /\ ~Resumed(Tail(q))
      /\ ~Fixed(q) /\ ~Fixed(Tail(q)) /\ Owes(q) /\ ~Owes(Tail(q))
  BY <1>3 DEF Turn
<1>5. /\ Stepped(c) /\ p = Tail(q) /\ th'[c].op = th[c].op /\ th'[c].s = th[c].s /\ th'[c].t = th[c].t /\ th'[c].env = th[c].env
  BY <1>1, <1>2, <1>3, Going
<1>6. ~Has(q, "lock") /\ ~Has(p, "build")
  <2>1. ~Has(q, "lock") /\ ~Has(q, "build")
    BY <1>3, Alone
  <2> QED BY <1>3, <1>5, <2>1, Popped
<1>7. e \in Nat /\ e \in InHand /\ (e # 0 => e \notin OutRollouts \cup Queued)
      /\ \A d \in Callers : d # c /\ Hand(th[d].todo) /\ th[d].env # 0 => th[d].env # e
  BY <1>1, <1>4 DEF NemoTyping, Thread, InHand, EnvsOK
<1>8. \A d \in Callers : d # c => th'[d] = th[d]
  BY <1>5 DEF Stepped
<1>9. InHand' \subseteq InHand /\ InHand \subseteq InHand' \cup {e}
  BY <1>4, <1>5, <1>8 DEF InHand
<1>10. e \in replicas => /\ CloseQueues(e) = Append(pendingEnvs, e) /\ CloseQueues(e) \in Seq(Nat)
                         /\ ToSet(CloseQueues(e)) = ToSet(pendingEnvs) \cup {e} /\ Len(CloseQueues(e)) = Len(pendingEnvs) + 1
  <2>1. pendingEnvs \in Seq(Nat)
    BY <1>1 DEF NemoTyping
  <2>2. /\ Append(pendingEnvs, e) \in Seq(Nat) /\ Len(Append(pendingEnvs, e)) = Len(pendingEnvs) + 1
        /\ ToSet(Append(pendingEnvs, e)) = ToSet(pendingEnvs) \cup {e}
    BY <1>7, <2>1, OneMore
  <2>3. e \in replicas => ToSet(pendingEnvs) \cap {e} = {}
    BY <1>1, <1>7 DEF NemoTyping, Queued
  <2> QED BY <2>2, <2>3 DEF CloseQueues
<1>11. NemoTyping'
  <2>1. pendingEnvs' \in Seq(Nat) /\ replicas' \subseteq Nat \ {0}
    BY <1>1, <1>2, <1>10 DEF NemoTyping
  <2> QED BY <1>1, <1>2, <1>5, <2>1 DEF NemoTyping, Stepped
<1>12. Control' /\ Terminal'
  <2>1. "close_env" \notin Of["close"] /\ "close_env" \notin Late
    BY DEF Of, Late
  <2> QED BY <1>2, <1>5, <1>11, <2>1, AtWorkKeeps
<1>13. QueuedSnaps' = QueuedSnaps /\ Snaps' = Snaps /\ OutRollouts' = OutRollouts
  BY <1>2 DEF QueuedSnaps, SnapsInRetry, Snaps, OutRollouts
<1>14. \/ replicas' = replicas \ {e} /\ Queued' = Queued
       \/ e \in replicas /\ replicas' = replicas /\ Queued' = Queued \cup {e}
  BY <1>2, <1>10 DEF Queued, EnvsInRetry
<1>15. Locks'
  <2>1. \A d \in Callers : Has(th'[d].todo, "build") => \A u \in th'[d].t : goldens'[u].snap = 0
    BY <1>1, <1>2, <1>6, <1>8 DEF Locks
  <2> QED BY <1>1, <1>5, <1>6, <2>1, LocksHeld
<1>16. Numbers'
  BY <1>1, <1>2, <1>4, <1>5, <1>7, <1>13, <1>14, NumbersHeld
<1>17. EnvsOK'
  <2>1. ASSUME NEW d \in Callers, Fixed(th'[d].todo) PROVE \A s \in th'[d].s : rollouts'[s] = th'[d].env /\ th'[d].env # 0
    BY <1>1, <1>2, <1>4, <1>5, <1>8, <2>1 DEF EnvsOK
  <2>2. 0 \notin replicas
    BY <1>1 DEF NemoTyping
  <2>3. \A s \in Sessions : rollouts'[s] # 0 => rollouts'[s] \in replicas' /\ rollouts'[s] \notin Queued'
    <3>1. \A s \in Sessions : rollouts[s] # 0 => rollouts[s] # e
      BY <1>7 DEF OutRollouts
    <3> QED BY <1>1, <1>2, <1>14, <3>1 DEF EnvsOK
  <2>4. \A s, z \in Sessions : s # z /\ rollouts'[s] = rollouts'[z] => rollouts'[s] = 0
    BY <1>1, <1>2 DEF EnvsOK
  <2>5. \A d \in Callers : Hand(th'[d].todo) => d # c /\ Hand(th[d].todo) /\ th'[d].env = th[d].env /\ (th[d].env # 0 => th[d].env # e)
    BY <1>4, <1>5, <1>7, <1>8
  <2>6. ASSUME NEW d \in Callers, Hand(th'[d].todo), th'[d].env # 0
        PROVE  /\ th'[d].env \notin OutRollouts' \cup Queued'
               /\ \A a \in Callers : a # d /\ Hand(th'[a].todo) => th'[a].env # th'[d].env
    <3>1. Hand(th[d].todo) /\ th'[d].env = th[d].env /\ th[d].env # 0 /\ th[d].env # e
      BY <2>5, <2>6
    <3>2. th[d].env \notin OutRollouts \cup Queued
      BY <1>1, <3>1 DEF EnvsOK
    <3>3. \A a \in Callers : a # d /\ Hand(th'[a].todo) => th'[a].env # th'[d].env
      BY <1>1, <2>5, <3>1 DEF EnvsOK
    <3> QED BY <1>13, <1>14, <3>1, <3>2, <3>3
  <2>7. ASSUME NEW d \in Callers, Resumed(th'[d].todo) PROVE th'[d].env \in replicas'
    <3>1. d # c /\ th'[d] = th[d] /\ Resumed(th[d].todo)
      BY <1>4, <1>5, <1>8, <2>7
    <3>2. th[d].op \in Ops /\ ListFor(th[d].todo, th[d].op)
      BY <1>1 DEF Control, ThreadOK, Thread
    <3>3. Hand(th[d].todo)
      BY <3>1, <3>2, ResumedInHand
    <3>4. th[d].env \in replicas /\ th[d].env # 0
      BY <1>1, <2>2, <3>1 DEF EnvsOK
    <3> QED BY <1>7, <1>14, <3>1, <3>3, <3>4
  <2>8. replicas' \subseteq OutRollouts' \cup Queued' \cup InHand'
    BY <1>1, <1>9, <1>13, <1>14 DEF EnvsOK
  <2> QED BY <2>1, <2>3, <2>4, <2>6, <2>7, <2>8 DEF EnvsOK
<1>18. SnapsOK'
  BY <1>1, <1>2, <1>5, <1>6, <1>13, SnapsHeld
<1>19. LeasesOK'
  BY <1>1, <1>2, <1>4, <1>5, LeasesHeld
<1>20. Bounded'
  <2>1. Owing' = Owing \ {c} /\ c \in Owing
    BY <1>4, <1>5, <1>8 DEF Owing
  <2>2. IsFiniteSet(Owing) /\ Cardinality(Owing) \in Nat
    <3>1. Owing \subseteq Callers
      BY DEF Owing
    <3> QED BY <3>1, OwingFinite
  <2>3. Cardinality(Owing') = Cardinality(Owing) - 1
    BY <2>1, <2>2, FS_RemoveElement
  <2>4. RetryInflight' = RetryInflight /\ (Backlog' = Backlog \/ Backlog' = Backlog + 1)
    <3>1. RetryInflight' = RetryInflight
      BY <1>2 DEF RetryInflight
    <3>2. CASE pendingEnvs' = pendingEnvs
      BY <1>2, <3>1, <3>2 DEF Backlog
    <3>3. CASE Len(pendingEnvs') = Len(pendingEnvs) + 1
      <4>1. ASSUME NEW a \in Nat, NEW b \in Nat PROVE (a + 1) + b = (a + b) + 1
        OBVIOUS
      <4>2. Len(pendingEnvs) \in Nat /\ Len(pendingSnaps) \in Nat
        BY <1>1, BoundsTyped
      <4>3. Backlog' = (Len(pendingEnvs) + 1) + Len(pendingSnaps)
        BY <1>2, <3>3, Zenon DEF Backlog
      <4>4. Backlog' = (Len(pendingEnvs) + Len(pendingSnaps)) + 1
        BY <4>1, <4>2, <4>3, Zenon
      <4>5. Backlog = Len(pendingEnvs) + Len(pendingSnaps)
        BY DEF Backlog
      <4>6. Backlog' = Backlog + 1
        BY <4>4, <4>5, Zenon
      <4> QED BY <3>1, <4>6
    <3> QED BY <1>2, <1>10, <3>2, <3>3
  <2>5. Backlog \in Nat /\ RetryInflight \in Nat /\ MaxPending \in Nat
    BY <1>1, BoundsTyped
  <2>6. PICK b \in Nat, i \in Nat, w \in Nat, m \in Nat :
           b = Backlog /\ i = RetryInflight /\ w = Cardinality(Owing) /\ m = MaxPending
    BY <2>2, <2>5
  <2>7. b + i + w <= m
    BY <1>1, <2>6, Zenon DEF Bounded, Owing
  <2>8. b + i + (w - 1) <= m /\ (b + 1) + i + (w - 1) <= m
    BY <2>7
  <2>9. Backlog' + RetryInflight' + Cardinality(Owing') <= MaxPending
    BY <2>3, <2>4, <2>6, <2>8, Zenon
  <2> QED BY <2>9 DEF Bounded, Owing
<1> QED BY <1>11, <1>12, <1>15, <1>16, <1>17, <1>18, <1>19, <1>20 DEF NemoInv

\* _reap_idle_rollouts takes only what no call has locked, with a place reserved for it.
LEMMA ReapInv ==
    ASSUME NemoInv, NEW c \in Callers, Reap(c)
    PROVE  NemoInv'
<1> DEFINE q == th[c].todo
           p == th'[c].todo
           taken == <<"close_env", "release", "unlock">> \o q
<1>1. /\ NemoTyping /\ Control /\ Locks /\ Numbers /\ EnvsOK /\ SnapsOK /\ LeasesOK /\ Bounded /\ Terminal
  BY DEF NemoInv
<1>2. /\ At(c, "reap")
      /\ UNCHANGED <<taskOf, goldens, pendingEnvs, pendingSnaps, retrying, engine, replicas, stored, cleanClose>>
  BY DEF Reap
<1>3. /\ ListFor(q, th[c].op) /\ q # <<>> /\ Head(q) = "reap" /\ ListOK(q) /\ ThreadOK(th[c]) /\ th[c].op \in Ops
      /\ Turn(q, Tail(q), th[c].op) /\ "reap" \in Of[th[c].op]
  <2>1. ListFor(q, th[c].op) /\ q # <<>> /\ Head(q) = "reap" /\ ListOK(q) /\ ThreadOK(th[c]) /\ "reap" \in Of[th[c].op]
    BY <1>1, <1>2, First
  <2>2. th[c].op \in Ops
    BY <2>1 DEF ThreadOK, Thread
  <2> QED BY <2>1, <2>2, Turned
<1>4. th[c].op = "maintain"
  BY <1>3, WhoLocks
<1>5. /\ ListFor(taken, "maintain") /\ Hand(taken) /\ ~Leases(taken) /\ ~Resumed(taken) /\ ~Fixed(taken) /\ Owes(taken)
      /\ ~Has(taken, "build") /\ ~Has(taken, "again") /\ ~Has(taken, "reset") /\ Bare(q)
  BY <1>3, <1>4, ReapFirst
<1>6. ListFor(Tail(q), "maintain") /\ Bare(Tail(q)) /\ ~Has(q, "lock")
  <2>1. \A x : Has(Tail(q), x) => Has(q, x)
    BY <1>3, Popped
  <2>2. Same(q, Tail(q)) /\ ListFor(Tail(q), "maintain")
    BY <1>3, <1>4 DEF Turn, Telling
  <2>3. ~Has(q, "lock")
    BY <1>3, Alone
  <2> QED BY <1>5, <2>1, <2>2, <2>3 DEF Same, Bare
<1>7. th[c] \in Thread /\ th[c].round = 0
  BY <1>3, <1>5 DEF ThreadOK, Thread, Bare
<1>8. PICK n \in Thread : /\ Becomes(c, n) /\ ThreadOK(n) /\ n.op = th[c].op /\ n.t = th[c].t
                          /\ \/ /\ n.s = th[c].s /\ n.env = th[c].env /\ Bare(n.todo) /\ rollouts' = rollouts
                             \/ \E s \in Sessions :
                                   /\ Idle(s) /\ ~(Pressure >= MaxPending) /\ rollouts' = [rollouts EXCEPT ![s] = 0]
                                   /\ n.s = {s} /\ n.env = rollouts[s] /\ n.todo = taken
  <2>1. CASE th[c].left = {} \/ Pressure >= MaxPending
    <3> DEFINE m == [Rest(c) EXCEPT !.left = {}]
    <3>1. Tail(q) \in Seq(Steps)
      BY <1>6 DEF ListFor, ListOK
    <3>2. m \in Thread /\ m.todo = Tail(q) /\ m.op = th[c].op /\ m.s = th[c].s /\ m.t = th[c].t /\ m.env = th[c].env
          /\ m.round = 0
      BY <1>7, <3>1 DEF Rest, Thread
    <3>3. Becomes(c, m) /\ rollouts' = rollouts
      BY <2>1 DEF Reap
    <3> HIDE DEF m
    <3>4. ThreadOK(m)
      BY <1>3, <1>4, <1>6, <3>2 DEF ThreadOK, Bare
    <3> QED BY <1>6, <3>2, <3>3, <3>4
  <2>2. CASE ~(th[c].left = {} \/ Pressure >= MaxPending)
    <3>1. PICK s \in th[c].left :
            \/ Becomes(c, [th[c] EXCEPT !.left = @ \ {s}]) /\ UNCHANGED rollouts
            \/ /\ Idle(s)
               /\ rollouts' = [rollouts EXCEPT ![s] = 0]
               /\ Becomes(c, [th[c] EXCEPT !.left = @ \ {s}, !.s = {s}, !.env = rollouts[s], !.reserved = TRUE,
                                           !.todo = <<"close_env", "release", "unlock">> \o @])
      BY <2>2 DEF Reap
    <3>2. s \in Sessions /\ rollouts[s] \in Nat
      BY <1>1, <1>7 DEF Thread, NemoTyping
    <3>3. CASE Becomes(c, [th[c] EXCEPT !.left = @ \ {s}]) /\ UNCHANGED rollouts
      <4> DEFINE m == [th[c] EXCEPT !.left = @ \ {s}]
      <4>1. m \in Thread /\ m.todo = q /\ m.op = th[c].op /\ m.s = th[c].s /\ m.t = th[c].t /\ m.env = th[c].env
            /\ m.round = 0
        BY <1>7 DEF Thread
      <4>2. Becomes(c, m) /\ rollouts' = rollouts
        BY <3>3
      <4> HIDE DEF m
      <4>3. ThreadOK(m)
        BY <1>3, <1>4, <1>5, <4>1 DEF ThreadOK, Bare
      <4> QED BY <1>5, <4>1, <4>2, <4>3
    <3>4. CASE /\ Idle(s)
               /\ rollouts' = [rollouts EXCEPT ![s] = 0]
               /\ Becomes(c, [th[c] EXCEPT !.left = @ \ {s}, !.s = {s}, !.env = rollouts[s], !.reserved = TRUE,
                                           !.todo = <<"close_env", "release", "unlock">> \o @])
      <4> DEFINE m == [th[c] EXCEPT !.left = @ \ {s}, !.s = {s}, !.env = rollouts[s], !.reserved = TRUE, !.todo = taken]
      <4>1. Becomes(c, m)
        BY <1>7, <3>4 DEF Thread
      <4> HIDE DEF taken
      <4>2. taken \in Seq(Steps)
        BY <1>5 DEF ListFor, ListOK
      <4>3. m \in Thread /\ m.todo = taken /\ m.op = th[c].op /\ m.s = {s} /\ m.t = th[c].t /\ m.env = rollouts[s]
            /\ m.round = 0 /\ m.reserved
        BY <1>7, <3>2, <4>2 DEF Thread
      <4> HIDE DEF m
      <4>4. ThreadOK(m)
        BY <1>4, <1>5, <3>2, <4>3 DEF ThreadOK
      <4> QED BY <2>2, <3>2, <3>4, <4>1, <4>3, <4>4
    <3> QED BY <3>1, <3>3, <3>4
  <2> QED BY <2>1, <2>2
<1>9. Stepped(c) /\ th'[c] = n /\ \A d \in Callers : d # c => th'[d] = th[d]
  BY <1>1, <1>8, Placing DEF Stepped
<1>10. NemoTyping'
  <2>1. rollouts' \in [Sessions -> Nat]
    BY <1>1, <1>8 DEF NemoTyping
  <2> QED BY <1>1, <1>2, <1>9, <2>1 DEF NemoTyping, Stepped
<1>11. Control' /\ Terminal'
  <2>1. "reap" \notin Of["close"] /\ "reap" \notin Late
    BY DEF Of, Late
  <2> QED BY <1>2, <1>8, <1>9, <1>10, <2>1, AtWorkKeeps
<1>12. Queued' = Queued /\ QueuedSnaps' = QueuedSnaps /\ Snaps' = Snaps
  BY <1>2, QueuesStay DEF Snaps
<1> HIDE DEF taken
<1>14. ~Leases(p) /\ ~Leases(q) /\ ~Has(p, "build") /\ ~Has(q, "build") /\ ~Resumed(p) /\ ~Fixed(p) /\ ~Hand(q)
  BY <1>5, <1>8, <1>9 DEF Bare
<1>15. \A d \in Callers : Has(th'[d].todo, "build") => \A u \in th'[d].t : goldens'[u].snap = 0
  BY <1>1, <1>2, <1>9, <1>14 DEF Locks
<1>16. SnapsOK'
  BY <1>1, <1>2, <1>9, <1>12, <1>14, SnapsHeld
<1>17. LeasesOK'
  BY <1>1, <1>2, <1>8, <1>9, <1>14, LeasesHeld
<1>18. CASE n.s = th[c].s /\ n.env = th[c].env /\ Bare(n.todo) /\ rollouts' = rollouts
  <2>1. ~Hand(p) /\ ~Owes(p)
    BY <1>9, <1>18 DEF Bare
  <2>2. Locks'
    BY <1>1, <1>6, <1>8, <1>9, <1>14, <1>15, <1>18, LocksHeld
  <2>3. OutRollouts' = OutRollouts
    BY <1>18 DEF OutRollouts
  <2>4. Numbers'
    BY <1>1, <1>2, <1>9, <1>12, <2>1, <2>3, NumbersHeld
  <2>5. EnvsOK'
    BY <1>1, <1>2, <1>9, <1>12, <1>14, <1>18, <2>1, EnvsHeld
  <2>6. Bounded'
    BY <1>1, <1>2, <1>9, <1>10, <2>1, BoundedHeld
  <2> QED BY <1>10, <1>11, <1>16, <1>17, <2>2, <2>4, <2>5, <2>6 DEF NemoInv
<1>19. ASSUME NEW s \in Sessions, Idle(s), ~(Pressure >= MaxPending), rollouts' = [rollouts EXCEPT ![s] = 0],
              n.s = {s}, n.env = rollouts[s], n.todo = taken
       PROVE  NemoInv'
  <2>1. ASSUME NEW d \in Callers, s \in th[d].s PROVE Has(th[d].todo, "lock")
    <3>1. th[d].s = {s}
      BY <1>1, <2>1 DEF Control, ThreadOK
    <3>2. At(d, "lock")
      BY <1>19, <3>1 DEF Idle, LockedBy
    <3> QED BY <1>1, <3>2, First
  <2>2. Hand(p) /\ ~Has(p, "reset") /\ rollouts[s] # 0
    BY <1>5, <1>9, <1>19 DEF Idle
  <2>3. EnvsOK' /\ OutRollouts' \subseteq OutRollouts \cup {0}
    BY <1>1, <1>2, <1>9, <1>10, <1>12, <1>14, <1>19, <2>1, <2>2, HandedOver
  <2>4. Locks'
    <3>1. \A d \in Callers : \A z \in th'[c].s \cap th[d].s : d # c => Has(th[d].todo, "lock")
      BY <1>9, <1>19, <2>1
    <3> QED BY <1>1, <1>8, <1>9, <1>14, <1>15, <3>1, LocksHeld
  <2>5. Numbers'
    <3>1. th'[c].env \in OutRollouts
      BY <1>9, <1>19 DEF OutRollouts
    <3> QED BY <1>1, <1>2, <1>9, <1>12, <2>2, <2>3, <3>1, NumbersHeld
  <2>6. Bounded'
    <3>1. Owing' \subseteq Owing \cup {c}
      BY <1>9 DEF Owing
    <3>2. Backlog' = Backlog /\ RetryInflight' = RetryInflight
      BY <1>2 DEF Backlog, RetryInflight
    <3> QED BY <1>1, <1>10, <1>19, <3>1, <3>2, RoomForOne
  <2> QED BY <1>10, <1>11, <1>16, <1>17, <2>3, <2>4, <2>5, <2>6 DEF NemoInv
<1> QED BY <1>8, <1>18, <1>19

--------------------------------------------------------------------------------
(* What holds of the specification.                                             *)

\* The invariant holds at first ...
LEMMA NemoStarts == NemoInit => NemoInv
<1> SUFFICES ASSUME NemoInit PROVE NemoInv
  OBVIOUS
<1>1. /\ rollouts = [s \in Sessions |-> 0] /\ taskOf = <<>> /\ goldens = [t \in Tasks |-> NoGolden]
      /\ pendingEnvs = <<>> /\ pendingSnaps = <<>> /\ retrying = NoRetry
      /\ engine = "open" /\ th = [c \in Callers |-> NoCall]
      /\ replicas = {} /\ stored = {} /\ cleanClose = {}
  BY DEF NemoInit
<1>2. NoRetry \in [by : SUBSET Callers, kind : {"envs", "snaps"}, left : Seq(Nat), failed : Seq(Nat)] /\ NoRetry.by = {}
  BY DEF NoRetry
<1>3. NoGolden \in [snap : Nat, leases : Int] /\ NoGolden.snap = 0 /\ NoGolden.leases = 0
  BY DEF NoGolden
<1>4. NemoTyping
  BY <1>1, <1>2, <1>3, NoCallIs DEF NemoTyping
<1>5. \A c \in Callers : th[c] = NoCall
  BY <1>1
<1>6. \A c \in Callers : /\ ThreadOK(th[c]) /\ Bare(th[c].todo) /\ ~Has(th[c].todo, "lock")
                         /\ th[c].op = "none" /\ th[c].s = {} /\ th[c].t = {}
  BY <1>5, NoCallOK, NoCallIs
<1>7. Control
  BY <1>1, <1>2, <1>6 DEF Control, Retriers, Past
<1>8. ToSet(<<>>) = {} /\ Len(<<>>) = 0
  BY DEF ToSet
<1>9. Queued = {} /\ QueuedSnaps = {} /\ OutRollouts \subseteq {0} /\ Snaps \subseteq {0} /\ InHand = {}
  BY <1>1, <1>2, <1>3, <1>6, <1>8 DEF Queued, QueuedSnaps, EnvsInRetry, SnapsInRetry, OutRollouts, Snaps, InHand, Bare
<1>10. Locks
  BY <1>6 DEF Locks, Bare
<1>11. Numbers
  <2>1. Len(taskOf) \in Nat
    BY <1>1, <1>8
  <2>2. \A e \in Queued \cup QueuedSnaps \cup OutRollouts \cup InHand \cup Snaps : e = 0
    BY <1>9
  <2> QED BY <1>6, <2>1, <2>2 DEF Numbers, Bare
<1>12. EnvsOK
  BY <1>1, <1>6, <1>9 DEF EnvsOK, Bare
<1>13. SnapsOK
  BY <1>1, <1>3, <1>6 DEF SnapsOK, Bare
<1>14. LeasesOK
  <2>1. \A t \in Tasks : {c \in Callers : t \in th[c].t /\ Leases(th[c].todo)} = {}
    BY <1>6
  <2> QED BY <1>1, <1>3, <1>6, <2>1, FS_EmptySet DEF LeasesOK, Bare
<1>15. Bounded
  <2>1. {c \in Callers : Owes(th[c].todo)} = {}
    BY <1>6 DEF Bare
  <2>2. Backlog = 0 /\ RetryInflight = 0
    BY <1>1, <1>2, <1>8 DEF Backlog, RetryInflight
  <2> QED BY <2>1, <2>2, FS_EmptySet, BoundsTyped DEF Bounded
<1>16. Terminal
  BY <1>1 DEF Terminal
<1> QED BY <1>4, <1>7, <1>10, <1>11, <1>12, <1>13, <1>14, <1>15, <1>16 DEF NemoInv

LEMMA NemoStutters ==
    ASSUME NemoInv, UNCHANGED nemoVars
    PROVE  NemoInv'
<1>1. /\ rollouts' = rollouts /\ taskOf' = taskOf /\ goldens' = goldens /\ pendingEnvs' = pendingEnvs
      /\ pendingSnaps' = pendingSnaps /\ retrying' = retrying /\ engine' = engine /\ th' = th
      /\ replicas' = replicas /\ stored' = stored /\ cleanClose' = cleanClose
  BY DEF nemoVars
<1>2. NemoTyping' /\ Control'
  BY <1>1 DEF NemoInv, NemoTyping, Control, Retriers, Drained, Active
<1>3. Queued' = Queued /\ QueuedSnaps' = QueuedSnaps /\ OutRollouts' = OutRollouts /\ Snaps' = Snaps /\ InHand' = InHand
      /\ Backlog' = Backlog /\ RetryInflight' = RetryInflight /\ Drained' = Drained /\ Reporting' = Reporting
  BY <1>1 DEF Queued, QueuedSnaps, EnvsInRetry, SnapsInRetry, OutRollouts, Snaps, InHand, Backlog, RetryInflight, Drained,
              Active, Reporting
<1>4. Locks' /\ Numbers' /\ EnvsOK' /\ SnapsOK'
  BY <1>1, <1>3 DEF NemoInv, Locks, Numbers, EnvsOK, SnapsOK
<1>5. LeasesOK' /\ Bounded' /\ Terminal'
  BY <1>1, <1>3 DEF NemoInv, LeasesOK, Bounded, Terminal
<1> QED BY <1>2, <1>4, <1>5 DEF NemoInv

\* ... and after every step.
LEMMA NemoSteps ==
    ASSUME NemoInv, [NemoNext]_nemoVars
    PROVE  NemoInv'
<1>1. CASE UNCHANGED nemoVars
  BY <1>1, NemoStutters
<1>2. ASSUME NEW c \in Callers, Call(c) \/ CallerStep(c) PROVE NemoInv'
  <2>1. CASE Call(c)
    BY <2>1, CallInv
  <2>2. CASE \/ Lock(c) \/ Use(c) \/ Release(c) \/ LeaveCall(c) \/ Unlock(c)
             \/ Begin(c) \/ AwaitClosed(c) \/ AwaitDrained(c) \/ Again(c) \/ PublishClosed(c)
    BY <2>2, QuietActions
  <2>3. CASE Reserve(c) \/ Lease(c) \/ Build(c) \/ ResetEnv(c) \/ Unlease(c) \/ Publish(c)
    BY <2>3, ReserveInv, LeaseInv, BuildInv, ResetInv, UnleaseInv, PublishInv
  <2>4. CASE Detach(c) \/ CloseEnv(c) \/ Reap(c) \/ Evict(c)
    BY <2>4, DetachInv, CloseEnvInv, ReapInv, EvictInv
  <2>5. CASE Drain(c) \/ Retry(c) \/ EndRetry(c) \/ Retained(c) \/ Verdict(c)
    BY <2>5, DrainInv, RetryInv, EndRetryInv, RetainedInv, VerdictInv
  <2> QED BY <1>2, <2>1, <2>2, <2>3, <2>4, <2>5 DEF CallerStep
<1> QED BY <1>1, <1>2 DEF NemoNext

LEMMA HandIsShown ==
    ASSUME NemoTyping, NEW d \in Callers, Has(th[d].todo, "close_env")
    PROVE  ToSet(th[d].todo) \cap {"close_env"} # {}
<1>1. th[d].todo \in Seq(Steps)
  BY DEF NemoTyping, Thread
<1>2. PICK i \in 1 .. Len(th[d].todo) : th[d].todo[i] = "close_env"
  BY DEF Has
<1> QED BY <1>1, <1>2 DEF ToSet

\* What it says of each of the properties.
LEMMA NemoForgetsNothing ==
    ASSUME NemoInv PROVE NothingForgotten
<1>1. NemoTyping /\ EnvsOK /\ SnapsOK
  BY DEF NemoInv
<1>2. InHand \subseteq EnvsInHand
  BY <1>1, HandIsShown DEF InHand, EnvsInHand, Hand
<1> QED BY <1>1, <1>2 DEF NothingForgotten, EnvsOK, SnapsOK, OutRollouts, Queued, Snaps, QueuedSnaps

LEMMA NemoUsesWhatIsThere ==
    ASSUME NemoInv PROVE InUseIsThere
<1>1. NemoTyping /\ Control /\ EnvsOK /\ SnapsOK /\ LeasesOK
  BY DEF NemoInv
<1>2. ASSUME NEW c \in Callers, At(c, "use") \/ At(c, "evaluate") PROVE th[c].env \in replicas
  <2>1. PICK x \in {"use", "evaluate"} : At(c, x)
    BY <1>2
  <2>2. th[c].todo # <<>> /\ Has(th[c].todo, x) /\ x \in Of[th[c].op] /\ ListOK(th[c].todo) /\ ThreadOK(th[c])
    BY <1>1, <2>1, First
  <2>3. Fixed(th[c].todo)
    BY <2>2, Chained DEF Chains, Fixed
  <2>4. th[c].op \in Ops
    BY <2>2 DEF ThreadOK, Thread
  <2>5. th[c].op \in {"tool", "verify"}
    BY <2>2, <2>4 DEF Of, Ops, Common
  <2>6. PICK s \in Sessions : th[c].s = {s}
    BY <2>2, <2>5 DEF ThreadOK
  <2> QED BY <1>1, <2>3, <2>6 DEF EnvsOK
<1>3. ASSUME NEW c \in Callers, At(c, "reset") PROVE \E t \in th[c].t : goldens[t].snap \in stored
  <2>1. /\ ListOK(th[c].todo) /\ th[c].todo # <<>> /\ Head(th[c].todo) = "reset" /\ Has(th[c].todo, "reset")
        /\ Before(th[c].todo) /\ \E t \in Tasks : th[c].t = {t}
    BY <1>1, <1>3, SeedAt
  <2>2. Leases(th[c].todo)
    BY <2>1, Chained DEF Before, Chains, Leases
  <2>3. PICK t \in Tasks : th[c].t = {t}
    BY <2>1
  <2> QED BY <1>1, <2>2, <2>3 DEF LeasesOK, SnapsOK
<1> QED BY <1>2, <1>3 DEF InUseIsThere

LEMMA NemoBounds ==
    ASSUME NemoInv PROVE BacklogBounded
<1>1. NemoTyping /\ Bounded
  BY DEF NemoInv
<1>2. Owing \subseteq Callers
  BY DEF Owing
<1>3. Cardinality(Owing) \in Nat /\ Backlog \in Nat /\ RetryInflight \in Nat /\ MaxPending \in Nat
  BY <1>1, <1>2, OwingFinite, BoundsTyped
<1>4. Backlog + RetryInflight + Cardinality(Owing) <= MaxPending
  BY <1>1 DEF Bounded, Owing
<1> QED BY <1>3, <1>4 DEF BacklogBounded

\* Whoever has a round of retries once nobody is at work is a close yet to report.
LEMMA LastRetrier ==
    ASSUME NemoTyping, Control, Drained, retrying.by # {}
    PROVE  \E c \in Callers : Past(th[c])
<1>1. PICK c \in Callers : /\ retrying.by = {c} /\ th[c].todo # <<>>
                           /\ Head(th[c].todo) \in {"drain_envs", "drain_snaps", "retry_envs", "retry_snaps"}
  BY DEF Control, Retriers
<1>2. PICK x \in {"drain_envs", "drain_snaps", "retry_envs", "retry_snaps"} : At(c, x)
  BY <1>1 DEF At
<1>3. /\ x \in Of[th[c].op] /\ ListFor(th[c].todo, th[c].op) /\ ListOK(th[c].todo) /\ ThreadOK(th[c]) /\ Has(th[c].todo, x)
  BY <1>2, First
<1>4. th[c].op \in Ops /\ ~Active(c)
  BY <1>3 DEF ThreadOK, Thread, Drained
<1>5. x \in {"retry_envs", "retry_snaps"}
  BY <1>3, <1>4 DEF Of, Ops, Active, Common
<1>6. th[c].op = "close"
  BY <1>2, <1>5, CloseStep
<1>7. Has(th[c].todo, "again") /\ ~Has(th[c].todo, "begin")
  BY <1>1, <1>2, <1>3, <1>5, Chained, Alone DEF Chains, At
<1> QED BY <1>3, <1>6, <1>7 DEF ListFor, Past

LEMMA NemoEnds ==
    ASSUME NemoInv PROVE CloseIsTerminal
<1>1. NemoTyping /\ Control /\ EnvsOK /\ SnapsOK /\ Terminal
  BY DEF NemoInv
<1>2. ASSUME cleanClose # {} PROVE replicas \subseteq Queued
  <2>1. Drained /\ \A s \in Sessions : rollouts[s] = 0
    BY <1>1, <1>2 DEF Terminal
  <2>2. InHand = {}
    BY <1>1, <2>1, NobodyAtWork DEF InHand
  <2>3. OutRollouts \subseteq {0} /\ 0 \notin replicas
    BY <1>1, <2>1 DEF OutRollouts, NemoTyping
  <2> QED BY <1>1, <2>2, <2>3 DEF EnvsOK
<1>3. ASSUME TRUE \in cleanClose PROVE stored \subseteq QueuedSnaps
  <2>1. Snaps \subseteq {0} /\ 0 \notin stored
    BY <1>1, <1>3 DEF Terminal, Snaps, NemoTyping
  <2> QED BY <1>1, <2>1 DEF SnapsOK
<1>4. ASSUME cleanClose # {}, Reporting = {} PROVE Queued = {} /\ QueuedSnaps = {}
  <2>1. Drained /\ Backlog = 0
    BY <1>1, <1>4 DEF Terminal
  <2>2. retrying.by = {}
    BY <1>1, <1>4, <2>1, LastRetrier, ReportingIsPast
  <2>3. pendingEnvs = <<>> /\ pendingSnaps = <<>>
    <3>1. ASSUME NEW a \in Nat, NEW b \in Nat, a + b = 0 PROVE a = 0 /\ b = 0
      BY <3>1
    <3>2. Len(pendingEnvs) = 0 /\ Len(pendingSnaps) = 0
      BY <1>1, <2>1, <3>1, BoundsTyped DEF Backlog
    <3> QED BY <1>1, <3>2, EmptySeq DEF NemoTyping
  <2>4. ToSet(<<>>) = {}
    BY DEF ToSet
  <2> QED BY <2>2, <2>3, <2>4 DEF Queued, QueuedSnaps, EnvsInRetry, SnapsInRetry
<1>5. Reporting = {} => LeavesNothing
  <2>1. TRUE \in cleanClose => cleanClose # {}
    OBVIOUS
  <2> QED BY <1>2, <1>3, <1>4, <2>1 DEF LeavesNothing
<1> QED BY <1>2, <1>3, <1>5 DEF CloseIsTerminal, Queued, QueuedSnaps

LEMMA NemoIsSound == NemoInv => NemoSound
BY NemoForgetsNothing, NemoUsesWhatIsThere, NemoBounds, NemoEnds DEF NemoSound

\* The engine (ShinkenComputerEngine) remembers every replica and snapshot it owns until the provider
\* has it back, works only on what is there, keeps its backlog within max_pending_cleanup, and makes
\* nothing new once a close has not raised: for any number of callers, sessions and tasks, any bounds
\* and any number of calls and provider failures.
THEOREM NemoAlwaysSound == NemoSpec => []NemoSound
<1>1. NemoInit => NemoInv
  BY NemoStarts
<1>2. NemoInv /\ [NemoNext]_nemoVars => NemoInv'
  BY NemoSteps
<1>3. NemoInv => NemoSound
  BY NemoIsSound
<1> QED BY <1>1, <1>2, <1>3, PTL DEF NemoSpec
================================================================================
