------------------------------ MODULE DemuxProofs ------------------------------
(***************************************************************************)
(* The safety of what ends.  The tables of a session of Demux hold who     *)
(* waits and nobody else, and the end of the reader reaches all who wait,  *)
(* for any number of coroutines, calls of every kind, and rows of a step.  *)
(* And three of the other parts of MCEnds: the promises of the TypeScript  *)
(* client (TsClients), the fleet of the SDK (Fleets), and the snapshots of *)
(* memory (MemorySnapshots).                                               *)
(***************************************************************************)
EXTENDS MCEnds, SequenceTheorems, FiniteSetTheorems, WellFoundedInduction, TLAPS

Types == {"ack", "nack", "observation", "error", "pong", "exec_output", "exec_exit"}
Events == {"exec_output", "exec_exit", "lost"}
Places == {"idle", "sending", "awaiting", "observing", "draining", "ended", "cancelled"}

Typing ==
    /\ up \in BOOLEAN /\ reading \in BOOLEAN /\ closed \in BOOLEAN
    /\ wire \in Seq([type : Types, id : Ids]) /\ executing \subseteq Ids
    /\ pending \subseteq Ids /\ pending_obs \subseteq Ids /\ exec_streams \subseteq Ids
    /\ pong_waiters \in Seq(Ids)
    /\ reply \in [Ids -> Future] /\ followup \in [Ids -> Future]
    /\ queue \in [Ids -> Seq(Events)]
    /\ pc \in [Procs -> Places]
    /\ at \in [Procs -> Nat] /\ \A p \in Procs : at[p] \in 1 .. Len(Calls[p])
    /\ seen \in [Ids -> [read : Nat, taken : Nat]]

Waiters == ToSet(pong_waiters)
Registered == pending \cup pending_obs \cup exec_streams \cup Waiters

\* A ping waits once; a key of a table is a call that was made.
WaitOnce == \A i, j \in 1 .. Len(pong_waiters) : pong_waiters[i] = pong_waiters[j] => i = j
Made == \A c \in Registered : reply[c] # "none"

\* Each table has calls of its kinds alone.
OfKind(p) ==
    \A c \in IdsOf(p) :
        /\ c \in pending => Kind[p] # "ping"
        /\ c \in Waiters => Kind[p] = "ping"
        /\ c \in exec_streams => Kind[p] = "exec"
        /\ c \in pending_obs \/ followup[c] = "open" => Kind[p] = "observe"

\* A coroutine that has not begun or has ended is in no table, a step that reads its rows has left
\* those it has read behind.
Left(p) ==
    /\ pc[p] \in {"idle", "ended"} => IdsOf(p) \cap Registered = {}
    /\ pc[p] = "awaiting" => \A i \in 1 .. Len(Calls[p]) : i < at[p] => Calls[p][i] \notin pending
    /\ pc[p] = "observing" => Kind[p] = "observe"
    /\ pc[p] = "draining" => Kind[p] = "exec"

\* Whoever waits for something that is not there can be reached by way of a table.
Reachable(p) ==
    \A c \in IdsOf(p) :
        /\ pc[p] \in {"sending", "awaiting"} /\ reply[c] = "open" => c \in pending \cup Waiters
        /\ pc[p] \in {"sending", "awaiting", "observing"} /\ followup[c] = "open" =>
              c \in pending_obs
        /\ Kind[p] = "exec" /\ pc[p] \in {"sending", "awaiting", "draining"} =>
              c \in exec_streams \/ "lost" \in ToSet(queue[c])

\* Without a reader nobody waits but who is about to learn that its send fails.
Told(p) ==
    ~reading => \A c \in IdsOf(p) :
        /\ pc[p] \in {"sending", "awaiting"} /\ reply[c] = "open" => pc[p] = "sending" /\ ~up
        /\ pc[p] \in {"sending", "awaiting", "observing"} /\ followup[c] = "open" =>
              pc[p] = "sending" /\ ~up
        /\ Kind[p] = "exec" /\ pc[p] \in {"sending", "awaiting", "draining"} =>
              (pc[p] = "sending" /\ ~up) \/ "lost" \in ToSet(queue[c])

Sane(p) == OfKind(p) /\ Left(p) /\ Reachable(p) /\ Told(p)

\* The inductive invariant.
IInv ==
    /\ Typing /\ WaitOnce /\ Made
    /\ ~reading /\ up => closed
    /\ \A p \in Procs : Sane(p)

--------------------------------------------------------------------------------
(* Calls and sequences.                                                        *)

LEMMA CallsTyped ==
    ASSUME NEW p \in Procs
    PROVE  /\ Kind[p] \in {"act", "observe", "step", "ping", "exec"}
           /\ Calls[p] \in Seq(Ids) /\ Len(Calls[p]) \in Nat /\ DOMAIN Calls[p] = 1 .. Len(Calls[p])
           /\ Len(Calls[p]) >= 1 /\ IdsOf(p) \subseteq Ids
           /\ \A i \in 1 .. Len(Calls[p]) : Calls[p][i] \in IdsOf(p)
           /\ \A c \in IdsOf(p) : \E i \in 1 .. Len(Calls[p]) : c = Calls[p][i]
           /\ Kind[p] # "step" => Len(Calls[p]) = 1
<1>1. /\ Calls[p] \in Seq(Ids) /\ Calls[p] # <<>>
      /\ Kind[p] \in {"act", "observe", "step", "ping", "exec"}
      /\ Kind[p] # "step" => Len(Calls[p]) = 1
  BY CallsAssumption DEF CallsAssumption
<1>2. /\ Len(Calls[p]) \in Nat /\ DOMAIN Calls[p] = 1 .. Len(Calls[p]) /\ Len(Calls[p]) >= 1
  BY <1>1
<1>3. IdsOf(p) = {Calls[p][i] : i \in 1 .. Len(Calls[p])}
  BY <1>2 DEF IdsOf, ToSet
<1>4. \A i \in 1 .. Len(Calls[p]) : Calls[p][i] \in Ids
  BY <1>1, <1>2, ElementOfSeq
<1>5. QED
  BY <1>1, <1>2, <1>3, <1>4

\* A call belongs to one coroutine.
LEMMA IdsApart ==
    ASSUME NEW p \in Procs, NEW q \in Procs, p # q
    PROVE  IdsOf(p) \cap IdsOf(q) = {}
<1> SUFFICES ASSUME NEW c \in IdsOf(p), c \in IdsOf(q) PROVE FALSE
  OBVIOUS
<1>1. PICK i \in DOMAIN Calls[p] : c = Calls[p][i]
  BY CallsTyped
<1>2. PICK j \in DOMAIN Calls[q] : c = Calls[q][j]
  BY CallsTyped
<1>3. \A r, s \in Procs : \A m \in DOMAIN Calls[r], n \in DOMAIN Calls[s] :
         Calls[r][m] = Calls[s][n] => r = s
  BY CallsAssumption DEF CallsAssumption
<1>4. QED
  BY <1>1, <1>2, <1>3

LEMMA CurrentIsOwn ==
    ASSUME Typing, NEW p \in Procs
    PROVE  /\ Current(p) \in IdsOf(p) /\ Current(p) \in Ids
           /\ Kind[p] # "step" => IdsOf(p) = {Current(p)}
<1>1. at[p] \in 1 .. Len(Calls[p])
  BY DEF Typing
<1>2. ASSUME Kind[p] # "step", NEW c \in IdsOf(p) PROVE c = Current(p)
  <2>1. Len(Calls[p]) = 1 /\ \E i \in 1 .. Len(Calls[p]) : c = Calls[p][i]
    BY <1>2, CallsTyped
  <2>2. QED
    BY <1>1, <2>1 DEF Current
<1>3. QED
  BY <1>1, <1>2, CallsTyped DEF Current

\* Numbers have a least one.
LEMMA ForemostIsLeast ==
    ASSUME NEW I \in SUBSET Nat, I # {}
    PROVE  Foremost(I) \in I /\ \A j \in I : Foremost(I) <= j
<1>1. \E i \in I : \A j \in I : <<j, i>> \notin OpToRel(<, Nat)
  BY WFMin, NatLessThanWellFounded
<1>2. \A i, j \in Nat : <<j, i>> \notin OpToRel(<, Nat) => i <= j
  BY DEF OpToRel
<1>3. \E i \in I : \A j \in I : i <= j
  BY <1>1, <1>2
<1>4. QED
  BY <1>3 DEF Foremost

LEMMA SetOfSeq ==
    ASSUME NEW S, NEW s \in Seq(S)
    PROVE  /\ Len(s) \in Nat /\ ToSet(s) \subseteq S
           /\ \A i \in 1 .. Len(s) : s[i] \in ToSet(s)
           /\ \A x \in ToSet(s) : \E i \in 1 .. Len(s) : x = s[i]
           /\ s # <<>> => ToSet(s) \subseteq {Head(s)} \cup ToSet(Tail(s))
<1>1. Len(s) \in Nat /\ DOMAIN s = 1 .. Len(s) /\ \A i \in 1 .. Len(s) : s[i] \in S
  BY ElementOfSeq, LenProperties
<1>2. ASSUME s # <<>>, NEW i \in 1 .. Len(s), i # 1 PROVE s[i] \in ToSet(Tail(s))
  <2>1. /\ Len(Tail(s)) = Len(s) - 1 /\ DOMAIN Tail(s) = 1 .. Len(Tail(s))
        /\ \A j \in 1 .. Len(Tail(s)) : Tail(s)[j] = s[j + 1]
    BY <1>2, HeadTailProperties, LenProperties
  <2>2. i - 1 \in 1 .. Len(Tail(s)) /\ Tail(s)[i - 1] = s[i]
    BY <1>1, <1>2, <2>1
  <2>3. QED
    BY <2>1, <2>2 DEF ToSet
<1>3. s # <<>> => Head(s) = s[1]
  OBVIOUS
<1>4. ToSet(s) = {s[i] : i \in 1 .. Len(s)}
  BY <1>1 DEF ToSet
<1>5. s # <<>> => ToSet(s) \subseteq {Head(s)} \cup ToSet(Tail(s))
  BY <1>2, <1>3, <1>4
<1>6. QED
  BY <1>1, <1>4, <1>5

LEMMA SetOfAppend ==
    ASSUME NEW S, NEW s \in Seq(S), NEW x \in S
    PROVE  Append(s, x) \in Seq(S) /\ ToSet(s) \cup {x} \subseteq ToSet(Append(s, x))
<1>1. /\ Append(s, x) \in Seq(S) /\ Len(Append(s, x)) = Len(s) + 1 /\ Len(s) \in Nat
      /\ Append(s, x)[Len(s) + 1] = x /\ \A i \in 1 .. Len(s) : Append(s, x)[i] = s[i]
  BY AppendProperties
<1>2. /\ Len(Append(s, x)) = Len(s) + 1
      /\ \A i \in 1 .. Len(Append(s, x)) : Append(s, x)[i] \in ToSet(Append(s, x))
      /\ \A y \in ToSet(s) : \E i \in 1 .. Len(s) : y = s[i]
  BY <1>1, SetOfSeq
<1>3. x \in ToSet(Append(s, x))
  <2>1. Len(s) + 1 \in 1 .. Len(Append(s, x))
    BY <1>1
  <2>2. QED
    BY <1>1, <1>2, <2>1
<1>4. ASSUME NEW y \in ToSet(s) PROVE y \in ToSet(Append(s, x))
  <2>1. PICK i \in 1 .. Len(s) : y = s[i]
    BY <1>2
  <2>2. i \in 1 .. Len(Append(s, x)) /\ Append(s, x)[i] = y
    BY <1>1, <2>1
  <2>3. QED
    BY <1>2, <2>2
<1>5. QED
  BY <1>1, <1>3, <1>4

\* The rest of a sequence, and of one in which nothing comes twice.
LEMMA Dropped ==
    ASSUME NEW S, NEW w \in Seq(S), NEW n \in 1 .. Len(w) + 1
    PROVE  LET s == SubSeq(w, n + 1, Len(w))
           IN /\ s \in Seq(S) /\ Len(s) = IF n <= Len(w) THEN Len(w) - n ELSE 0
              /\ \A i \in 1 .. Len(w) - n : s[i] = w[n + i]
<1> DEFINE s == SubSeq(w, n + 1, Len(w))
<1>1. /\ n + 1 \in Int /\ Len(w) \in Int /\ n \in Int
      /\ \A i \in n + 1 .. Len(w) : w[i] \in S
  BY SetOfSeq, ElementOfSeq
<1>2. /\ s \in Seq(S) /\ Len(s) = IF n + 1 <= Len(w) THEN Len(w) - (n + 1) + 1 ELSE 0
      /\ \A i \in 1 .. Len(w) - (n + 1) + 1 : s[i] = w[n + 1 + i - 1]
  BY <1>1, SubSeqProperties
<1> HIDE DEF s
<1>3. Len(s) = IF n <= Len(w) THEN Len(w) - n ELSE 0
  BY <1>1, <1>2
<1>4. ASSUME NEW i \in 1 .. Len(w) - n PROVE s[i] = w[n + i]
  <2>1. i \in 1 .. Len(w) - (n + 1) + 1 /\ n + 1 + i - 1 = n + i
    BY <1>1
  <2>2. QED
    BY <1>2, <2>1
<1>5. s \in Seq(S) /\ Len(s) = (IF n <= Len(w) THEN Len(w) - n ELSE 0)
      /\ \A i \in 1 .. Len(w) - n : s[i] = w[n + i]
  BY <1>2, <1>3, <1>4
<1>6. QED
  BY <1>5 DEF s

LEMMA RestOfSeq ==
    ASSUME NEW S, NEW w \in Seq(S), \A i, j \in 1 .. Len(w) : w[i] = w[j] => i = j,
           NEW n \in 1 .. Len(w) + 1
    PROVE  LET s == SubSeq(w, n + 1, Len(w))
           IN /\ s \in Seq(S) /\ \A i, j \in 1 .. Len(s) : s[i] = s[j] => i = j
              /\ ToSet(s) \subseteq ToSet(w)
              /\ \A i \in 1 .. Len(w) : i > n => w[i] \in ToSet(s)
<1> DEFINE s == SubSeq(w, n + 1, Len(w))
<1>a. /\ s \in Seq(S) /\ Len(s) = IF n <= Len(w) THEN Len(w) - n ELSE 0
      /\ \A i \in 1 .. Len(w) - n : s[i] = w[n + i]
  BY Dropped
<1> HIDE DEF s
<1>0. /\ Len(w) \in Nat /\ n \in Nat /\ \A i \in 1 .. Len(w) : w[i] \in ToSet(w)
  BY SetOfSeq
<1>1. /\ Len(s) \in Nat /\ \A i \in 1 .. Len(s) : s[i] \in ToSet(s)
      /\ \A x \in ToSet(s) : \E i \in 1 .. Len(s) : x = s[i]
  BY <1>a, SetOfSeq
<1>2. ASSUME NEW i \in 1 .. Len(s) PROVE s[i] = w[n + i] /\ n + i \in 1 .. Len(w)
  BY <1>0, <1>1, <1>a
<1>3. ASSUME NEW i \in 1 .. Len(s), NEW j \in 1 .. Len(s), s[i] = s[j] PROVE i = j
  <2>1. n + i = n + j
    BY <1>2, <1>3
  <2>2. QED
    BY <1>0, <2>1
<1>4. ASSUME NEW x \in ToSet(s) PROVE x \in ToSet(w)
  <2>1. PICK i \in 1 .. Len(s) : x = s[i]
    BY <1>1
  <2>2. s[i] = w[n + i] /\ n + i \in 1 .. Len(w)
    BY <1>2
  <2>3. QED
    BY <1>0, <2>1, <2>2
<1>5. ASSUME NEW i \in 1 .. Len(w), i > n PROVE w[i] \in ToSet(s)
  <2>1. i - n \in 1 .. Len(s) /\ n + (i - n) = i
    BY <1>0, <1>1, <1>5, <1>a
  <2>2. QED
    BY <1>1, <1>2, <2>1
<1>6. /\ s \in Seq(S) /\ \A i, j \in 1 .. Len(s) : s[i] = s[j] => i = j
      /\ ToSet(s) \subseteq ToSet(w)
      /\ \A i \in 1 .. Len(w) : i > n => w[i] \in ToSet(s)
  BY <1>3, <1>4, <1>5, <1>a
<1>7. QED
  BY <1>6 DEF s

--------------------------------------------------------------------------------
(* What the operators on the tables do.                                        *)

LEMMA ResolveTyped ==
    ASSUME NEW f \in [Ids -> Future], NEW S, NEW v \in Future
    PROVE  /\ Resolve(f, S, v) \in [Ids -> Future]
           /\ \A c \in Ids : Resolve(f, S, v)[c] = IF c \in S /\ f[c] = "open" THEN v ELSE f[c]
BY DEF Resolve

LEMMA MessagesTyped ==
    ASSUME NEW c \in Ids, NEW types \in Replies(c)
    PROVE  Messages(c, types) \in Seq([type : Types, id : Ids])
<1>1. types \in {<<"pong">>, <<"nack">>, <<"ack", "observation">>, <<"ack", "error">>, <<"ack">>}
  BY DEF Replies
<1>2. types \in Seq(Types)
  <2>1. <<"pong">> \in Seq(Types) /\ <<"nack">> \in Seq(Types) /\ <<"ack">> \in Seq(Types)
    BY DEF Types
  <2>2. <<"ack", "observation">> \in Seq(Types) /\ <<"ack", "error">> \in Seq(Types)
    BY DEF Types
  <2>3. QED
    BY <1>1, <2>1, <2>2
<1>3. Len(types) \in Nat /\ \A i \in 1 .. Len(types) : types[i] \in Types
  BY <1>2, ElementOfSeq, LenProperties
<1>4. QED
  BY <1>3 DEF Messages

LEMMA RequestTyped ==
    ASSUME Typing, NEW c \in Ids, Request(c)
    PROVE  wire' \in Seq([type : Types, id : Ids]) /\ executing' \subseteq Ids
<1>1. PICK types \in Replies(c) :
         /\ wire' = wire \o Messages(c, types)
         /\ executing' \in {executing, executing \cup {c}}
  BY DEF Request
<1>2. QED
  BY <1>1, MessagesTyped, ConcatProperties DEF Typing

\* The list of pings without what is discarded.
LEMMA Discarded ==
    ASSUME Typing, WaitOnce, NEW p \in Procs, OfKind(p), NEW s, s = Discard(IdsOf(p))
    PROVE  /\ s \in Seq(Ids) /\ ToSet(s) = Waiters \ IdsOf(p)
           /\ \A i, j \in 1 .. Len(s) : s[i] = s[j] => i = j
<1> DEFINE w == pong_waiters
           mine == {i \in 1 .. Len(w) : w[i] \in IdsOf(p)}
<1>0. /\ w \in Seq(Ids) /\ Len(w) \in Nat /\ Waiters = ToSet(w)
      /\ \A i \in 1 .. Len(w) : w[i] \in ToSet(w) /\ w[i] \in Ids
      /\ \A x \in ToSet(w) : \E i \in 1 .. Len(w) : x = w[i]
      /\ \A i, j \in 1 .. Len(w) : w[i] = w[j] => i = j
  <2>1. w \in Seq(Ids)
    BY DEF Typing
  <2>2. QED
    BY <2>1, SetOfSeq, ElementOfSeq DEF Waiters, WaitOnce
<1>1. CASE mine = {}
  <2>1. s = w
    BY <1>1 DEF Discard
  <2>2. QED
    BY <1>0, <1>1, <2>1 DEF WaitOnce
<1>2. CASE mine # {}
  <2> DEFINE n == Foremost(mine)
  <2>1. n \in 1 .. Len(w) /\ w[n] \in IdsOf(p)
    <3>1. mine \in SUBSET Nat
      OBVIOUS
    <3>2. n \in mine
      BY <1>2, <3>1, ForemostIsLeast
    <3>3. QED
      BY <3>2
  <2>2. s = SubSeq(w, 1, n - 1) \o SubSeq(w, n + 1, Len(w))
    BY <1>2 DEF Discard, RemoveAt
  <2> HIDE DEF n, mine
  <2>3. IdsOf(p) = {w[n]}
    <3>1. Kind[p] = "ping"
      BY <1>0, <2>1 DEF OfKind
    <3>2. QED
      BY <2>1, <3>1, CurrentIsOwn
  <2>4. /\ SubSeq(w, 1, n - 1) \in Seq(Ids) /\ Len(SubSeq(w, 1, n - 1)) = n - 1
        /\ \A i \in 1 .. n - 1 : SubSeq(w, 1, n - 1)[i] = w[i]
    <3>1. \A i \in 1 .. n - 1 : w[i] \in Ids
      BY <1>0, <2>1
    <3>2. QED
      BY <1>0, <2>1, <3>1, SubSeqProperties
  <2>5. /\ SubSeq(w, n + 1, Len(w)) \in Seq(Ids) /\ Len(SubSeq(w, n + 1, Len(w))) = Len(w) - n
        /\ \A i \in 1 .. Len(w) - n : SubSeq(w, n + 1, Len(w))[i] = w[n + i]
    <3>1. \A i \in n + 1 .. Len(w) : w[i] \in Ids
      BY <1>0, <2>1
    <3>2. QED
      BY <1>0, <2>1, <3>1, SubSeqProperties
  <2>6. /\ s \in Seq(Ids) /\ Len(s) = Len(w) - 1
        /\ \A i \in 1 .. Len(s) : s[i] = IF i < n THEN w[i] ELSE w[i + 1]
    <3> HIDE DEF w
    <3>1. /\ s \in Seq(Ids) /\ Len(s) = n - 1 + (Len(w) - n)
          /\ \A i \in 1 .. n - 1 + (Len(w) - n) : s[i] =
                IF i <= n - 1 THEN SubSeq(w, 1, n - 1)[i]
                ELSE SubSeq(w, n + 1, Len(w))[i - (n - 1)]
      BY <2>2, <2>4, <2>5, ConcatProperties
    <3>2. Len(s) = Len(w) - 1 /\ n \in Nat /\ Len(w) \in Nat
      BY <1>0, <2>1, <3>1
    <3>3. ASSUME NEW i \in 1 .. Len(s) PROVE s[i] = IF i < n THEN w[i] ELSE w[i + 1]
      <4>1. CASE i < n
        <5>1. i \in 1 .. n - 1 /\ i <= n - 1 /\ i \in 1 .. n - 1 + (Len(w) - n)
          BY <3>1, <3>2, <4>1
        <5>2. s[i] = SubSeq(w, 1, n - 1)[i]
          BY <3>1, <5>1
        <5>3. QED
          BY <2>4, <4>1, <5>1, <5>2
      <4>2. CASE ~(i < n)
        <5>1. i - (n - 1) \in 1 .. Len(w) - n /\ n + (i - (n - 1)) = i + 1
          BY <3>2, <4>2
        <5>2. s[i] = SubSeq(w, n + 1, Len(w))[i - (n - 1)]
          <6>1. i \in 1 .. n - 1 + (Len(w) - n) /\ ~(i <= n - 1)
            BY <3>1, <3>2, <4>2
          <6>2. QED
            BY <3>1, <6>1
        <5>3. QED
          BY <2>5, <4>2, <5>1, <5>2
      <4>3. QED
        BY <4>1, <4>2
    <3>4. QED
      BY <3>1, <3>2, <3>3
  <2>7. \A i, j \in 1 .. Len(s) : s[i] = s[j] => i = j
    <3> HIDE DEF w
    <3>1. n \in Nat /\ Len(w) \in Nat /\ \A i, j \in 1 .. Len(w) : w[i] = w[j] => i = j
      BY <1>0, <2>1
    <3>2. ASSUME NEW i \in 1 .. Len(s), NEW j \in 1 .. Len(s), s[i] = s[j]
          PROVE  i = j
      <4> DEFINE f(k) == IF k < n THEN k ELSE k + 1
      <4>1. f(i) \in 1 .. Len(w) /\ f(j) \in 1 .. Len(w)
        BY <2>6, <3>1
      <4>2. s[i] = w[f(i)] /\ s[j] = w[f(j)]
        BY <2>6, <3>1
      <4>3. f(i) = f(j)
        <5> HIDE DEF f
        <5>1. QED
          BY <3>1, <3>2, <4>1, <4>2
      <4>4. QED
        BY <2>6, <3>1, <4>3
    <3>3. QED
      BY <3>2
  <2>8. ASSUME NEW x \in ToSet(s) PROVE x \in ToSet(w) /\ x # w[n]
    <3>1. PICK i \in 1 .. Len(s) : x = s[i]
      BY <2>6, SetOfSeq
    <3>2. \E j \in 1 .. Len(w) : j # n /\ s[i] = w[j]
      <4>1. i < n \/ i >= n
        BY <1>0, <2>1, <2>6
      <4>2. QED
        BY <1>0, <2>1, <2>6, <4>1
    <3>3. QED
      BY <1>0, <2>1, <3>1, <3>2
  <2>9. ASSUME NEW x \in ToSet(w), x # w[n] PROVE x \in ToSet(s)
    <3>1. PICK i \in 1 .. Len(w) : x = w[i]
      BY <1>0
    <3>2. \E j \in 1 .. Len(s) : s[j] = x
      <4>1. CASE i < n
        BY <1>0, <2>1, <2>6, <3>1, <4>1
      <4>2. CASE i > n
        <5>1. i - 1 \in 1 .. Len(s) /\ s[i - 1] = x
          BY <1>0, <2>1, <2>6, <3>1, <4>2
        <5>2. QED
          BY <5>1
      <4>3. QED
        BY <2>1, <2>9, <3>1, <4>1, <4>2
    <3>3. QED
      BY <2>6, <3>2, SetOfSeq
  <2>10. QED
    BY <1>0, <2>3, <2>6, <2>7, <2>8, <2>9
<1>3. QED
  BY <1>1, <1>2


\* What a call that is over leaves in the tables.
LEMMA Forgotten ==
    ASSUME Typing, WaitOnce, NEW p \in Procs, OfKind(p), Forget(IdsOf(p))
    PROVE  /\ pending' = pending \ IdsOf(p) /\ pending_obs' = pending_obs \ IdsOf(p)
           /\ exec_streams' = exec_streams \ IdsOf(p)
           /\ pong_waiters' \in Seq(Ids) /\ Waiters' = Waiters \ IdsOf(p) /\ WaitOnce'
<1>1. pong_waiters' = Discard(IdsOf(p))
  BY DEF Forget
<1>2. QED
  BY <1>1, Discarded DEF Forget, Waiters, WaitOnce

\* A pong reaches the first that waits, and drops none that does.
LEMMA Ponged ==
    ASSUME Typing, WaitOnce, NEW m \in [type : Types, id : Ids], DispatchPong(m)
    PROVE  /\ pong_waiters' \in Seq(Ids) /\ WaitOnce' /\ Waiters' \subseteq Waiters
           /\ reply' \in [Ids -> Future]
           /\ \A c \in Ids : reply'[c] = reply[c] \/ (reply'[c] \in {"pong", "another pong"})
           /\ \A c \in Waiters : reply'[c] = "open" => c \in Waiters'
<1> DEFINE w == pong_waiters
           open == {i \in 1 .. Len(w) : reply[w[i]] = "open"}
           n == FirstWaiting
<1>0. /\ w \in Seq(Ids) /\ Len(w) \in Nat /\ Waiters = ToSet(w)
      /\ \A i \in 1 .. Len(w) : w[i] \in ToSet(w) /\ w[i] \in Ids
      /\ \A x \in ToSet(w) : \E i \in 1 .. Len(w) : x = w[i]
      /\ \A i, j \in 1 .. Len(w) : w[i] = w[j] => i = j
  <2>1. w \in Seq(Ids)
    BY DEF Typing
  <2>2. QED
    BY <2>1, SetOfSeq, ElementOfSeq DEF Waiters, WaitOnce
<1>1. /\ n \in 1 .. Len(w) + 1
      /\ n <= Len(w) => reply[w[n]] = "open"
      /\ \A i \in 1 .. Len(w) : i < n => reply[w[i]] # "open"
  <2>1. CASE open = {}
    BY <1>0, <2>1 DEF FirstWaiting
  <2>2. CASE open # {}
    <3>1. n = Foremost(open)
      BY <2>2 DEF FirstWaiting
    <3>2. open \in SUBSET Nat
      OBVIOUS
    <3>3. Foremost(open) \in open /\ \A j \in open : Foremost(open) <= j
      BY <2>2, <3>2, ForemostIsLeast
    <3>4. Foremost(open) \in 1 .. Len(w) /\ reply[w[Foremost(open)]] = "open"
      BY <3>3
    <3>5. ASSUME NEW i \in 1 .. Len(w), i < Foremost(open), reply[w[i]] = "open" PROVE FALSE
      <4>1. i \in open
        BY <3>5
      <4>2. QED
        BY <1>0, <3>3, <3>4, <3>5, <4>1
    <3>6. QED
      BY <1>0, <3>1, <3>4, <3>5
  <2>3. QED
    BY <2>1, <2>2
<1>2. /\ pong_waiters' = SubSeq(w, n + 1, Len(w))
      /\ reply' = IF n > Len(w) THEN reply
                  ELSE [reply EXCEPT ![w[n]] = IF w[n] = m.id THEN "pong" ELSE "another pong"]
  BY DEF DispatchPong
<1> HIDE DEF n, open
<1>3. /\ pong_waiters' \in Seq(Ids) /\ WaitOnce' /\ Waiters' \subseteq Waiters
      /\ \A i \in 1 .. Len(w) : i > n => w[i] \in Waiters'
  <2>1. w \in Seq(Ids) /\ n \in 1 .. Len(w) + 1 /\ pong_waiters' = SubSeq(w, n + 1, Len(w))
    BY <1>0, <1>1, <1>2
  <2>2. \A i, j \in 1 .. Len(w) : w[i] = w[j] => i = j
    BY <1>0
  <2>3. /\ pong_waiters' \in Seq(Ids) /\ ToSet(pong_waiters') \subseteq ToSet(w)
        /\ \A i, j \in 1 .. Len(pong_waiters') : pong_waiters'[i] = pong_waiters'[j] => i = j
        /\ \A i \in 1 .. Len(w) : i > n => w[i] \in ToSet(pong_waiters')
    <3> HIDE DEF w
    <3>1. QED
      BY <2>1, <2>2, RestOfSeq
  <2>4. QED
    BY <2>3 DEF WaitOnce, Waiters
<1>4. reply \in [Ids -> Future]
  BY DEF Typing
<1>5. /\ reply' \in [Ids -> Future]
      /\ \A c \in Ids : reply'[c] = reply[c] \/ reply'[c] \in {"pong", "another pong"}
      /\ n <= Len(w) => reply'[w[n]] # "open"
  <2>1. CASE n > Len(w)
    BY <1>0, <1>1, <1>2, <1>4, <2>1
  <2>2. CASE ~(n > Len(w))
    <3>1. w[n] \in Ids
      BY <1>0, <1>1, <2>2
    <3>2. PICK v \in {"pong", "another pong"} : reply' = [reply EXCEPT ![w[n]] = v]
      BY <1>2, <2>2
    <3>3. v \in Future /\ v # "open"
      BY DEF Future
    <3>4. QED
      BY <1>4, <3>1, <3>2, <3>3
  <2>3. QED
    BY <2>1, <2>2
<1>6. ASSUME NEW c \in Waiters, reply'[c] = "open" PROVE c \in Waiters'
  <2>1. PICK i \in 1 .. Len(w) : c = w[i]
    BY <1>0
  <2>2. i > n
    <3>1. reply[c] = "open"
      <4>1. c \in Ids
        BY <1>0, <2>1
      <4>2. QED
        BY <1>5, <1>6, <4>1
    <3>2. n \in Nat /\ i # n
      <4>1. i <= Len(w)
        BY <1>0, <2>1
      <4>2. i = n => reply'[w[n]] # "open" /\ c = w[n]
        BY <1>5, <2>1, <4>1
      <4>3. QED
        BY <1>0, <1>1, <1>6, <4>2
    <3>3. QED
      BY <1>1, <2>1, <3>1, <3>2
  <2>3. QED
    BY <1>3, <2>1, <2>2
<1>7. QED
  BY <1>3, <1>5, <1>6

\* Whoever is in a table hears that the connection is lost.
LEMMA Failed ==
    ASSUME Typing, FailPending
    PROVE  /\ Registered' = {} /\ pending' = {} /\ pending_obs' = {} /\ exec_streams' = {}
           /\ pong_waiters' = <<>> /\ Waiters' = {}
           /\ reply' \in [Ids -> Future] /\ followup' \in [Ids -> Future]
           /\ queue' \in [Ids -> Seq(Events)]
           /\ \A c \in Ids :
                 /\ reply'[c] = IF c \in pending \cup Waiters /\ reply[c] = "open" THEN "lost"
                                ELSE reply[c]
                 /\ followup'[c] = IF c \in pending_obs /\ followup[c] = "open" THEN "lost"
                                   ELSE followup[c]
                 /\ ToSet(queue[c]) \subseteq ToSet(queue'[c])
                 /\ c \in exec_streams => "lost" \in ToSet(queue'[c])
<1>1. "lost" \in Future /\ "lost" \in Events
  BY DEF Future, Events
<1>2. ToSet(<<>>) = {}
  BY DEF ToSet
<1>3. \A c \in Ids : /\ Append(queue[c], "lost") \in Seq(Events)
                     /\ ToSet(queue[c]) \cup {"lost"} \subseteq ToSet(Append(queue[c], "lost"))
  BY <1>1, SetOfAppend DEF Typing
<1>4. /\ queue' \in [Ids -> Seq(Events)]
      /\ \A c \in Ids : queue'[c] = IF c \in exec_streams THEN Append(queue[c], "lost")
                                    ELSE queue[c]
  BY <1>3 DEF FailPending, Typing
<1>5. /\ reply' = Resolve(reply, pending \cup Waiters, "lost")
      /\ followup' = Resolve(followup, pending_obs, "lost")
      /\ pending' = {} /\ pending_obs' = {} /\ pong_waiters' = <<>> /\ exec_streams' = {}
  BY DEF FailPending, Waiters
<1>6. reply \in [Ids -> Future] /\ followup \in [Ids -> Future]
  BY DEF Typing
<1>7. Waiters' = {} /\ Registered' = {}
  BY <1>2, <1>5 DEF Waiters, Registered
<1>8. /\ reply' \in [Ids -> Future] /\ followup' \in [Ids -> Future]
      /\ \A c \in Ids :
            /\ reply'[c] = IF c \in pending \cup Waiters /\ reply[c] = "open" THEN "lost"
                           ELSE reply[c]
            /\ followup'[c] = IF c \in pending_obs /\ followup[c] = "open" THEN "lost"
                              ELSE followup[c]
  <2> HIDE DEF Waiters
  <2>1. QED
    BY <1>1, <1>5, <1>6, ResolveTyped
<1>9. QED
  BY <1>3, <1>4, <1>5, <1>7, <1>8

--------------------------------------------------------------------------------
(* Steps that leave a coroutine where it is.                                   *)

\* What p waits for is still to come by way of a table, or is there.
Spared(p) ==
    /\ pc'[p] = pc[p] /\ at'[p] = at[p]
    /\ \A c \in IdsOf(p) :
          /\ c \in pending' => c \in pending
          /\ c \in pending_obs' => c \in pending_obs
          /\ c \in exec_streams' <=> c \in exec_streams
          /\ c \in Waiters' => c \in Waiters
          /\ reply'[c] = "open" =>
                reply[c] = "open" /\ (c \in pending \cup Waiters => c \in pending' \cup Waiters')
          /\ followup'[c] = "open" =>
                followup[c] = "open" /\ (c \in pending_obs => c \in pending_obs')
          /\ ToSet(queue[c]) \subseteq ToSet(queue'[c])

LEMMA SparedIsSane ==
    ASSUME NEW p \in Procs, Sane(p), Spared(p), reading' = reading, up' => up
    PROVE  Sane(p)'
<1>1. OfKind(p)'
  BY DEF Sane, Spared, OfKind
<1>2. Left(p)'
  <2>1. \A i \in 1 .. Len(Calls[p]) : Calls[p][i] \in IdsOf(p)
    BY CallsTyped
  <2>2. IdsOf(p) \cap Registered = {} => (IdsOf(p) \cap Registered = {})'
    BY DEF Spared, Registered
  <2>3. QED
    BY <2>1, <2>2 DEF Sane, Spared, Left
<1>3. Reachable(p)'
  BY DEF Sane, Spared, Reachable
<1>4. Told(p)'
  BY DEF Sane, Spared, Told
<1>5. QED
  BY <1>1, <1>2, <1>3, <1>4 DEF Sane

\* The wire, the flag of close(), and steps that change nothing.
LEMMA WireKeeps ==
    ASSUME IInv, UNCHANGED <<reading, tables, futures, coroutines, seen>>,
           wire' \in Seq([type : Types, id : Ids]), executing' \subseteq Ids,
           up' \in {up, FALSE}, closed' \in {closed, TRUE}
    PROVE  IInv'
<1>1. Typing'
  BY DEF IInv, Typing, tables, futures, coroutines
<1>2. Waiters' = Waiters /\ Registered' = Registered /\ UNCHANGED <<pc, at, reply, followup, queue>>
      /\ UNCHANGED <<pending, pending_obs, exec_streams>>
  BY DEF Waiters, Registered, tables, futures, coroutines
<1>3. WaitOnce' /\ Made'
  BY <1>2 DEF IInv, WaitOnce, Made, tables
<1>4. ASSUME NEW p \in Procs PROVE Sane(p)'
  <2>1. Spared(p)
    BY <1>2 DEF Spared
  <2>2. Sane(p)
    BY DEF IInv
  <2>3. up' => up
    <3>1. CASE up' = up
      BY <3>1
    <3>2. CASE up' = FALSE
      BY <3>2
    <3>3. QED
      BY <3>1, <3>2
  <2>4. reading' = reading
    OBVIOUS
  <2>5. QED
    BY <2>1, <2>2, <2>3, <2>4, SparedIsSane
<1>5. (~reading /\ up => closed)'
  BY DEF IInv, Typing
<1>6. QED
  BY <1>1, <1>3, <1>4, <1>5 DEF IInv

LEMMA WireStep ==
    ASSUME IInv, Wire \/ Close \/ UNCHANGED vars
    PROVE  IInv'
<1>0. /\ wire \in Seq([type : Types, id : Ids]) /\ executing \subseteq Ids
      /\ up \in BOOLEAN /\ closed \in BOOLEAN
  BY DEF IInv, Typing
<1>1. ASSUME NEW c \in Ids, ExecOutput(c) \/ ExecExit(c) PROVE IInv'
  <2>1. PICK t \in {"exec_output", "exec_exit"} : wire' = Append(wire, [type |-> t, id |-> c])
    BY <1>1 DEF ExecOutput, ExecExit
  <2>2. [type |-> t, id |-> c] \in [type : Types, id : Ids]
    BY DEF Types
  <2>3. wire' \in Seq([type : Types, id : Ids])
    BY <1>0, <2>1, <2>2, AppendProperties
  <2>4. QED
    BY <1>0, <1>1, <2>3, WireKeeps DEF ExecOutput, ExecExit
<1>2. CASE Lose
  <2>1. PICK n \in 0 .. Len(wire) : wire' = SubSeq(wire, 1, n)
    BY <1>2 DEF Lose
  <2>2. /\ 1 \in Int /\ n \in Int
        /\ \A i \in 1 .. n : wire[i] \in [type : Types, id : Ids]
    <3>1. /\ Len(wire) \in Nat
          /\ \A i \in 1 .. Len(wire) : wire[i] \in [type : Types, id : Ids]
      BY <1>0, ElementOfSeq, LenProperties
    <3>2. QED
      BY <2>1, <3>1
  <2>3. wire' \in Seq([type : Types, id : Ids])
    BY <2>1, <2>2, SubSeqProperties
  <2>4. QED
    BY <1>2, <2>3, WireKeeps DEF Lose
<1>3. CASE Close
  BY <1>0, <1>3, WireKeeps DEF Close, wireVars
<1>4. CASE UNCHANGED vars
  BY <1>0, <1>4, WireKeeps DEF vars, wireVars
<1>5. QED
  BY <1>1, <1>2, <1>3, <1>4 DEF Wire

--------------------------------------------------------------------------------
(* The reader.                                                                 *)

LEMMA DispatchKeeps ==
    ASSUME IInv, Dispatch
    PROVE  IInv'
<1> DEFINE m == Head(wire)
<1>0. Typing /\ WaitOnce /\ Made /\ wire # <<>> /\ \A p \in Procs : Sane(p)
  BY DEF IInv, Dispatch
<1>1. m \in [type : Types, id : Ids] /\ wire' \in Seq([type : Types, id : Ids])
  BY <1>0, HeadTailProperties DEF Typing, Dispatch
<1>2. /\ UNCHANGED <<up, executing, reading, closed, pc, at>>
      /\ seen' \in [Ids -> [read : Nat, taken : Nat]]
  <2>1. seen' = [seen EXCEPT ![m.id].read = @ + 1]
    BY DEF Dispatch
  <2>2. seen[m.id].read + 1 \in Nat
    BY <1>0, <1>1 DEF Typing
  <2>3. QED
    <3>1. seen \in [Ids -> [read : Nat, taken : Nat]] /\ m.id \in Ids
      BY <1>0, <1>1 DEF Typing
    <3>2. [seen[m.id] EXCEPT !.read = @ + 1] \in [read : Nat, taken : Nat]
      BY <2>2, <3>1
    <3>3. seen' = [seen EXCEPT ![m.id] = [seen[m.id] EXCEPT !.read = @ + 1]]
      BY <2>1, <3>1
    <3>4. seen' \in [Ids -> [read : Nat, taken : Nat]]
      BY <3>1, <3>2, <3>3
    <3>5. QED
      BY <3>4 DEF Dispatch, coroutines
<1> DEFINE Kept == /\ pending' \subseteq pending /\ pending_obs' \subseteq pending_obs
                   /\ exec_streams' = exec_streams /\ Waiters' \subseteq Waiters
                   /\ pong_waiters' \in Seq(Ids) /\ WaitOnce'
                   /\ reply' \in [Ids -> Future] /\ followup' \in [Ids -> Future]
                   /\ queue' \in [Ids -> Seq(Events)]
                   /\ \A c \in Ids :
                         /\ reply[c] # "none" => reply'[c] # "none"
                         /\ reply'[c] = "open" => reply[c] = "open"
                         /\ reply'[c] = "open" =>
                               (c \in pending \cup Waiters => c \in pending' \cup Waiters')
                         /\ followup'[c] = "open" =>
                               followup[c] = "open" /\ (c \in pending_obs => c \in pending_obs')
                         /\ ToSet(queue[c]) \subseteq ToSet(queue'[c])
<1>3. Kept
  <2>1. CASE m.type = "pong"
    <3>1. DispatchPong(m)
      BY <2>1 DEF Dispatch
    <3>2. UNCHANGED <<pending, pending_obs, exec_streams, followup, queue>>
      BY <3>1 DEF DispatchPong
    <3>3. /\ pong_waiters' \in Seq(Ids) /\ WaitOnce' /\ Waiters' \subseteq Waiters
          /\ reply' \in [Ids -> Future]
          /\ \A c \in Ids : reply'[c] = reply[c] \/ (reply'[c] \in {"pong", "another pong"})
          /\ \A c \in Waiters : reply'[c] = "open" => c \in Waiters'
      BY <1>0, <1>1, <3>1, Ponged
    <3>4. /\ followup \in [Ids -> Future] /\ queue \in [Ids -> Seq(Events)]
      BY <1>0 DEF Typing
    <3>5. QED
      BY <3>2, <3>3, <3>4
  <2>2. CASE m.type \in {"exec_output", "exec_exit"}
    <3>1. DispatchEvent(m)
      BY <2>2 DEF Dispatch
    <3>2. UNCHANGED <<pending, pending_obs, exec_streams, pong_waiters, reply, followup>>
      BY <3>1 DEF DispatchEvent, tables
    <3>3. /\ queue' \in [Ids -> Seq(Events)]
          /\ \A c \in Ids : ToSet(queue[c]) \subseteq ToSet(queue'[c])
      <4>1. /\ queue \in [Ids -> Seq(Events)] /\ m.id \in Ids /\ m.type \in Events
        BY <1>0, <1>1, <2>2 DEF Typing, Events
      <4>2. /\ Append(queue[m.id], m.type) \in Seq(Events)
            /\ ToSet(queue[m.id]) \subseteq ToSet(Append(queue[m.id], m.type))
        BY <4>1, SetOfAppend
      <4>3. queue' = [queue EXCEPT ![m.id] = Append(queue[m.id], m.type)] \/ queue' = queue
        BY <3>1 DEF DispatchEvent
      <4>4. QED
        BY <4>1, <4>2, <4>3
    <3>4. Waiters' = Waiters /\ WaitOnce'
      BY <1>0, <3>2 DEF Waiters, WaitOnce
    <3>5. QED
      BY <1>0, <3>2, <3>3, <3>4 DEF Typing
  <2>3. CASE m.type \notin {"pong", "exec_output", "exec_exit"}
    <3>1. DispatchReply(m)
      BY <2>3 DEF Dispatch
    <3>2. /\ m.type \in Future /\ m.type \notin {"open", "none"}
      BY <1>1, <2>3 DEF Types, Future
    <3>3. UNCHANGED <<pong_waiters, exec_streams, queue>>
      BY <3>1 DEF DispatchReply
    <3>4. Waiters' = Waiters /\ WaitOnce'
      BY <1>0, <3>3 DEF Waiters, WaitOnce
    <3>5. reply \in [Ids -> Future] /\ followup \in [Ids -> Future]
      BY <1>0 DEF Typing
    <3>6. /\ reply' = IF m.id \in pending THEN Resolve(reply, {m.id}, m.type) ELSE reply
          /\ pending' = IF m.id \in pending THEN pending \ {m.id} ELSE pending
          /\ followup' = IF m.id \notin pending /\ m.id \in pending_obs
                         THEN Resolve(followup, {m.id}, m.type) ELSE followup
          /\ pending_obs' = IF m.id \in pending THEN pending_obs ELSE pending_obs \ {m.id}
      BY <3>1 DEF DispatchReply
    <3>7. /\ reply' \in [Ids -> Future]
          /\ \A c \in Ids : reply'[c] = IF m.id \in pending /\ c = m.id /\ reply[c] = "open"
                                        THEN m.type ELSE reply[c]
      BY <3>2, <3>5, <3>6, ResolveTyped
    <3>8. /\ followup' \in [Ids -> Future]
          /\ \A c \in Ids : followup'[c] = IF m.id \notin pending /\ m.id \in pending_obs
                                              /\ c = m.id /\ followup[c] = "open"
                                           THEN m.type ELSE followup[c]
      BY <3>2, <3>5, <3>6, ResolveTyped
    <3>9. QED
      BY <1>0, <3>2, <3>3, <3>4, <3>6, <3>7, <3>8 DEF Typing
  <2>4. QED
    BY <2>1, <2>2, <2>3
<1>4. Typing'
  BY <1>0, <1>1, <1>2, <1>3 DEF Typing
<1>5. Made'
  <2>1. Registered' \subseteq Registered /\ Registered \subseteq Ids
    BY <1>0, <1>3, SetOfSeq DEF Registered, Typing, Waiters
  <2>2. QED
    BY <1>0, <1>3, <2>1 DEF Made
<1>6. ASSUME NEW p \in Procs PROVE Sane(p)'
  <2>1. IdsOf(p) \subseteq Ids
    BY CallsTyped
  <2>2. Spared(p)
    BY <1>2, <1>3, <2>1 DEF Spared
  <2>3. QED
    BY <1>0, <1>2, <2>2, SparedIsSane
<1>7. QED
  BY <1>2, <1>3, <1>4, <1>5, <1>6 DEF IInv

\* The end of the read loop, and what close() finds left.
LEMMA FailedIsSane ==
    ASSUME Typing, NEW p \in Procs, Sane(p), FailPending, UNCHANGED coroutines
    PROVE  Sane(p)'
<1>0. IdsOf(p) \subseteq Ids /\ pc' = pc /\ at' = at
  BY CallsTyped DEF coroutines
<1>1. /\ Registered' = {} /\ pending' = {} /\ pending_obs' = {} /\ exec_streams' = {}
      /\ Waiters' = {}
      /\ \A c \in IdsOf(p) :
            /\ reply'[c] = "open" => reply[c] = "open" /\ c \notin pending \cup Waiters
            /\ followup'[c] = "open" => followup[c] = "open" /\ c \notin pending_obs
            /\ c \in exec_streams \/ "lost" \in ToSet(queue[c]) => "lost" \in ToSet(queue'[c])
  BY <1>0, Failed
<1>2. OfKind(p)'
  BY <1>1 DEF Sane, OfKind
<1>3. Left(p)'
  BY <1>0, <1>1 DEF Sane, Left
<1>4. Reachable(p)' /\ Told(p)'
  BY <1>0, <1>1 DEF Sane, Reachable, Told
<1>5. QED
  BY <1>2, <1>3, <1>4 DEF Sane

LEMMA ReaderStep ==
    ASSUME IInv, ReaderEnds \/ CloseSocket
    PROVE  IInv'
<1>0. /\ Typing /\ FailPending /\ UNCHANGED coroutines /\ UNCHANGED seen /\ ~reading'
      /\ (up' => closed') /\ closed' = closed /\ reading' \in BOOLEAN
      /\ up' \in BOOLEAN /\ wire' \in Seq([type : Types, id : Ids]) /\ executing' \subseteq Ids
  <2>1. CASE ReaderEnds
    <3>1. /\ FailPending /\ UNCHANGED <<wireVars, closed, coroutines, seen>> /\ reading' = FALSE
          /\ closed \/ ~up
      BY <2>1 DEF ReaderEnds
    <3>2. Typing
      BY DEF IInv
    <3>3. up' = up /\ wire' = wire /\ executing' = executing /\ up \in BOOLEAN
          /\ wire \in Seq([type : Types, id : Ids]) /\ executing \subseteq Ids
      BY <3>1, <3>2 DEF Typing, wireVars
    <3>4. (up' => closed') /\ ~reading' /\ reading' \in BOOLEAN
      BY <3>1, <3>3
    <3>5. QED
      BY <3>1, <3>2, <3>3, <3>4
  <2>2. CASE CloseSocket
    <3>1. /\ FailPending /\ UNCHANGED <<reading, closed, coroutines, seen>> /\ ~reading
          /\ up' = FALSE /\ wire' = <<>> /\ executing' = {}
      BY <2>2 DEF CloseSocket
    <3>2. Typing
      BY DEF IInv
    <3>3. reading \in BOOLEAN /\ reading' = reading /\ closed' = closed
      BY <3>1, <3>2 DEF Typing
    <3>4. ~reading' /\ reading' \in BOOLEAN
      BY <3>1, <3>3
    <3>5. (up' => closed') /\ up' \in BOOLEAN
      BY <3>1
    <3>6. wire' \in Seq([type : Types, id : Ids]) /\ executing' \subseteq Ids
      BY <3>1
    <3>7. QED
      BY <3>1, <3>2, <3>3, <3>4, <3>5, <3>6
  <2>3. QED
    BY <2>1, <2>2
<1>1. /\ Registered' = {} /\ pending' = {} /\ pending_obs' = {} /\ exec_streams' = {}
      /\ pong_waiters' = <<>>
      /\ reply' \in [Ids -> Future] /\ followup' \in [Ids -> Future]
      /\ queue' \in [Ids -> Seq(Events)]
  BY <1>0, Failed
<1>2. Typing'
  <2>1. /\ pc' = pc /\ at' = at /\ seen' = seen /\ closed' \in BOOLEAN
        /\ pong_waiters' \in Seq(Ids)
    BY <1>0, <1>1 DEF coroutines, Typing
  <2>2. QED
    BY <1>0, <1>1, <2>1 DEF Typing
<1>3. WaitOnce' /\ Made'
  BY <1>1 DEF WaitOnce, Made
<1>4. \A p \in Procs : Sane(p)'
  BY <1>0, FailedIsSane DEF IInv
<1>5. QED
  BY <1>0, <1>2, <1>3, <1>4 DEF IInv

--------------------------------------------------------------------------------
(* The steps of a coroutine.                                                   *)

\* Nothing of the others' is touched.
Local(q) ==
    /\ \A c \in Ids \ IdsOf(q) :
          /\ c \in pending' <=> c \in pending
          /\ c \in pending_obs' <=> c \in pending_obs
          /\ c \in exec_streams' <=> c \in exec_streams
          /\ c \in Waiters' <=> c \in Waiters
          /\ reply'[c] = reply[c] /\ followup'[c] = followup[c] /\ queue'[c] = queue[c]
    /\ \A p \in Procs \ {q} : pc'[p] = pc[p] /\ at'[p] = at[p]

LEMMA LocalStep ==
    ASSUME IInv, NEW q \in Procs, Local(q), UNCHANGED <<up, reading, closed>>,
           Typing', WaitOnce', Sane(q)',
           \A c \in Registered' : c \in Registered \/ c \in IdsOf(q),
           \A c \in IdsOf(q) : reply'[c] = "none" => reply[c] = "none" /\ c \notin Registered'
    PROVE  IInv'
<1>1. Made'
  <2>1. Registered' \subseteq Ids
    BY SetOfSeq DEF Typing, Registered, Waiters
  <2>2. QED
    BY <2>1 DEF IInv, Made, Local
<1>2. ASSUME NEW p \in Procs, p # q PROVE Sane(p)'
  <2>1. IdsOf(p) \subseteq Ids \ IdsOf(q)
    BY <1>2, CallsTyped, IdsApart
  <2>2. Spared(p)
    BY <1>2, <2>1 DEF Local, Spared
  <2>3. QED
    BY <2>2, SparedIsSane DEF IInv
<1>3. QED
  BY <1>1, <1>2 DEF IInv

\* Whoever has ended, and left no entry.
LEMMA EndedIsSane ==
    ASSUME NEW q \in Procs, Sane(q), pc'[q] = "ended", IdsOf(q) \cap Registered' = {},
           \A c \in IdsOf(q) : followup'[c] = "open" => followup[c] = "open"
    PROVE  Sane(q)'
<1>1. OfKind(q)'
  BY DEF Sane, OfKind, Registered
<1>2. Left(q)' /\ Reachable(q)' /\ Told(q)'
  BY DEF Left, Reachable, Told
<1>3. QED
  BY <1>1, <1>2 DEF Sane

\* A coroutine of which no entry is left in a table, as Local sees it.
LEMMA ForgetIsLocal ==
    ASSUME IInv, NEW q \in Procs, Forget(IdsOf(q))
    PROVE  /\ pending' \subseteq Ids /\ pending_obs' \subseteq Ids /\ exec_streams' \subseteq Ids
           /\ pong_waiters' \in Seq(Ids) /\ WaitOnce'
           /\ Registered' = Registered \ IdsOf(q)
           /\ IdsOf(q) \cap pending' = {} /\ IdsOf(q) \cap Registered' = {}
           /\ \A c \in Ids \ IdsOf(q) :
                 /\ c \in pending' <=> c \in pending
                 /\ c \in pending_obs' <=> c \in pending_obs
                 /\ c \in exec_streams' <=> c \in exec_streams
                 /\ c \in Waiters' <=> c \in Waiters
<1>1. Typing /\ WaitOnce /\ OfKind(q)
  BY DEF IInv, Sane
<1>2. /\ pending' = pending \ IdsOf(q) /\ pending_obs' = pending_obs \ IdsOf(q)
      /\ exec_streams' = exec_streams \ IdsOf(q)
      /\ pong_waiters' \in Seq(Ids) /\ Waiters' = Waiters \ IdsOf(q) /\ WaitOnce'
  BY <1>1, Forgotten
<1>3. Registered' = Registered \ IdsOf(q)
  BY <1>2 DEF Registered
<1>4. QED
  BY <1>1, <1>2, <1>3 DEF Typing

\* A call that is over forgets itself.
LEMMA LeaveKeeps ==
    ASSUME IInv, NEW q \in Procs, Forget(IdsOf(q)), pc' = [pc EXCEPT ![q] = "ended"],
           at' = [at EXCEPT ![q] = 1] \/ at' = at,
           UNCHANGED <<wireVars, reading, closed, followup>>,
           reply' = reply \/ reply' = Resolve(reply, IdsOf(q), "lost"),
           queue' \in [Ids -> Seq(Events)], \A c \in Ids \ IdsOf(q) : queue'[c] = queue[c],
           seen' \in [Ids -> [read : Nat, taken : Nat]]
    PROVE  IInv'
<1>0. /\ Typing /\ Sane(q) /\ IdsOf(q) \subseteq Ids /\ Len(Calls[q]) >= 1 /\ Len(Calls[q]) \in Nat
  BY CallsTyped DEF IInv
<1>1. /\ reply' \in [Ids -> Future]
      /\ \A c \in Ids : reply'[c] = reply[c] \/ (c \in IdsOf(q) /\ reply'[c] = "lost")
  <2>1. reply \in [Ids -> Future] /\ "lost" \in Future
    BY <1>0 DEF Typing, Future
  <2>2. CASE reply' = reply
    BY <2>1, <2>2
  <2>3. CASE reply' = Resolve(reply, IdsOf(q), "lost")
    <3>1. /\ Resolve(reply, IdsOf(q), "lost") \in [Ids -> Future]
          /\ \A c \in Ids : Resolve(reply, IdsOf(q), "lost")[c] =
                IF c \in IdsOf(q) /\ reply[c] = "open" THEN "lost" ELSE reply[c]
      BY <2>1, ResolveTyped
    <3>2. QED
      BY <2>3, <3>1
  <2>4. QED
    BY <2>2, <2>3
<1>2. Typing' /\ WaitOnce'
  <2>1. WaitOnce' /\ pong_waiters' \in Seq(Ids)
        /\ pending' \subseteq Ids /\ pending_obs' \subseteq Ids /\ exec_streams' \subseteq Ids
    BY ForgetIsLocal
  <2>2. pc' \in [Procs -> Places]
    <3>1. pc \in [Procs -> Places] /\ "ended" \in Places
      BY <1>0 DEF Typing, Places
    <3>2. QED
      BY <3>1
  <2>3. at' \in [Procs -> Nat] /\ \A p \in Procs : at'[p] \in 1 .. Len(Calls[p])
    <3>1. at \in [Procs -> Nat] /\ \A p \in Procs : at[p] \in 1 .. Len(Calls[p])
      BY <1>0 DEF Typing
    <3>2. CASE at' = at
      BY <3>1, <3>2
    <3>3. CASE at' = [at EXCEPT ![q] = 1]
      BY <1>0, <3>1, <3>3
    <3>4. QED
      BY <3>2, <3>3
  <2>4. QED
    BY <1>0, <1>1, <2>1, <2>2, <2>3 DEF Typing, wireVars
<1>3. Local(q)
  <2>1. \A p \in Procs \ {q} : pc'[p] = pc[p] /\ at'[p] = at[p]
    BY <1>0 DEF Typing
  <2>2. \A c \in Ids \ IdsOf(q) : reply'[c] = reply[c]
    BY <1>1
  <2>3. QED
    BY <2>1, <2>2, ForgetIsLocal DEF Local
<1>4. Sane(q)'
  <2>1. pc'[q] = "ended"
    BY <1>0 DEF Typing
  <2>2. QED
    BY <1>0, <2>1, EndedIsSane, ForgetIsLocal
<1>5. \A c \in Registered' : c \in Registered \/ c \in IdsOf(q)
  BY ForgetIsLocal
<1>6. \A c \in IdsOf(q) : reply'[c] = "none" => reply[c] = "none" /\ c \notin Registered'
  BY <1>0, <1>1, ForgetIsLocal
<1>7. QED
  BY <1>2, <1>3, <1>4, <1>5, <1>6, LocalStep DEF wireVars

\* Every place is a place, every row a row.
LEMMA Moved ==
    ASSUME Typing, NEW q \in Procs, NEW place \in Places, NEW row \in 1 .. Len(Calls[q]),
           pc' = [pc EXCEPT ![q] = place], at' = [at EXCEPT ![q] = row]
    PROVE  /\ pc' \in [Procs -> Places] /\ pc'[q] = place /\ at'[q] = row
           /\ at' \in [Procs -> Nat] /\ \A p \in Procs : at'[p] \in 1 .. Len(Calls[p])
           /\ \A p \in Procs \ {q} : pc'[p] = pc[p] /\ at'[p] = at[p]
<1>1. /\ pc \in [Procs -> Places] /\ at \in [Procs -> Nat]
      /\ \A p \in Procs : at[p] \in 1 .. Len(Calls[p])
  BY DEF Typing
<1>2. Len(Calls[q]) \in Nat
  BY CallsTyped
<1>3. QED
  BY <1>1, <1>2

\* The row a coroutine stays at.
LEMMA Stays ==
    ASSUME Typing, NEW q \in Procs, at' = at
    PROVE  at' = [at EXCEPT ![q] = at[q]] /\ at[q] \in 1 .. Len(Calls[q])
BY DEF Typing

LEMMA BeginKeeps ==
    ASSUME IInv, NEW q \in Procs, Begin(q)
    PROVE  IInv'
<1>0. /\ Typing /\ WaitOnce /\ Sane(q) /\ IdsOf(q) \subseteq Ids /\ IdsOf(q) \cap Registered = {}
      /\ Current(q) \in Ids /\ (Kind[q] # "step" => IdsOf(q) = {Current(q)})
      /\ "sending" \in Places /\ "open" \in Future
      /\ pc[q] = "idle" /\ ~closed
  BY CallsTyped, CurrentIsOwn DEF IInv, Sane, Left, Begin, Places, Future
<1>1. wire' \in Seq([type : Types, id : Ids]) /\ executing' \subseteq Ids
  <2>1. CASE up
    BY <1>0, <2>1, RequestTyped DEF Begin
  <2>2. CASE ~up
    BY <1>0, <2>2 DEF Begin, NoRequest, Typing
  <2>3. QED
    BY <2>1, <2>2
<1>2. /\ pc' \in [Procs -> Places] /\ pc'[q] = "sending"
      /\ at' \in [Procs -> Nat] /\ \A p \in Procs : at'[p] \in 1 .. Len(Calls[p])
      /\ \A p \in Procs \ {q} : pc'[p] = pc[p] /\ at'[p] = at[p]
  BY <1>0, Moved, Stays DEF Begin, Goto
<1>3. /\ pending' = IF Kind[q] = "ping" THEN pending ELSE pending \cup IdsOf(q)
      /\ pending_obs' = IF Kind[q] = "observe" THEN pending_obs \cup IdsOf(q) ELSE pending_obs
      /\ exec_streams' = IF Kind[q] = "exec" THEN exec_streams \cup IdsOf(q) ELSE exec_streams
      /\ queue' = queue /\ seen' = seen /\ up' = up /\ reading' = reading /\ closed' = closed
  BY DEF Begin, StreamsOf
<1>4. /\ reply' \in [Ids -> Future] /\ followup' \in [Ids -> Future]
      /\ \A c \in Ids : reply'[c] = IF c \in IdsOf(q) THEN "open" ELSE reply[c]
      /\ \A c \in Ids : followup'[c] =
            IF c \in IdsOf(q) /\ Kind[q] = "observe" THEN "open" ELSE followup[c]
  <2>1. reply \in [Ids -> Future] /\ followup \in [Ids -> Future]
    BY <1>0 DEF Typing
  <2>2. /\ reply' = [c \in Ids |-> IF c \in IdsOf(q) THEN "open" ELSE reply[c]]
        /\ followup' = [c \in Ids |->
              IF c \in IdsOf(q) /\ Kind[q] = "observe" THEN "open" ELSE followup[c]]
    BY DEF Begin
  <2>3. QED
    BY <1>0, <2>1, <2>2
<1>5. /\ pong_waiters' \in Seq(Ids) /\ WaitOnce'
      /\ Waiters' = IF Kind[q] = "ping" THEN Waiters \cup IdsOf(q) ELSE Waiters
  <2>0. pong_waiters \in Seq(Ids) /\ Len(pong_waiters) \in Nat
    BY <1>0 DEF Typing
  <2>1. CASE Kind[q] = "ping"
    <3> DEFINE w == pong_waiters
               n == Len(pong_waiters)
    <3>1. /\ Calls[q] \in Seq(Ids) /\ Len(Calls[q]) = 1 /\ Calls[q][1] = Current(q)
          /\ IdsOf(q) = {Current(q)}
      <4>1. Calls[q] \in Seq(Ids) /\ Len(Calls[q]) = 1
        BY <2>1, CallsTyped
      <4>2. at[q] \in 1 .. Len(Calls[q])
        BY <1>0 DEF Typing
      <4>3. QED
        <5>1. at[q] = 1
          BY <4>1, <4>2
        <5>2. QED
          BY <1>0, <2>1, <4>1, <5>1 DEF Current
    <3>2. pong_waiters' = w \o Calls[q]
      BY <2>1 DEF Begin
    <3>3. /\ pong_waiters' \in Seq(Ids) /\ Len(pong_waiters') = n + 1
          /\ \A i \in 1 .. n : pong_waiters'[i] = w[i]
          /\ pong_waiters'[n + 1] = Current(q)
      <4>1. /\ w \o Calls[q] \in Seq(Ids) /\ Len(w \o Calls[q]) = n + 1
            /\ \A i \in 1 .. n + 1 : (w \o Calls[q])[i] =
                  IF i <= n THEN w[i] ELSE Calls[q][i - n]
        <5>1. /\ w \o Calls[q] \in Seq(Ids) /\ Len(w \o Calls[q]) = n + Len(Calls[q])
              /\ \A i \in 1 .. n + Len(Calls[q]) : (w \o Calls[q])[i] =
                    IF i <= n THEN w[i] ELSE Calls[q][i - n]
          BY <2>0, <3>1, ConcatProperties
        <5>2. QED
          BY <3>1, <5>1
      <4>2. n + 1 \in 1 .. n + 1 /\ n + 1 - n = 1 /\ ~(n + 1 <= n)
        BY <2>0
      <4>3. (w \o Calls[q])[n + 1] = Current(q)
        BY <3>1, <4>1, <4>2
      <4>4. \A i \in 1 .. n : (w \o Calls[q])[i] = w[i]
        BY <2>0, <4>1
      <4>5. QED
        BY <3>2, <4>1, <4>3, <4>4
    <3>4. /\ \A i \in 1 .. n : w[i] \in Waiters
          /\ \A x \in Waiters : \E i \in 1 .. n : x = w[i]
      BY <2>0, SetOfSeq DEF Waiters
    <3>5. Current(q) \notin Waiters
      BY <1>0, <3>1 DEF Registered
    <3>6. /\ \A i \in 1 .. n + 1 : pong_waiters'[i] \in Waiters'
          /\ \A x \in Waiters' : \E i \in 1 .. n + 1 : x = pong_waiters'[i]
      <4>1. /\ \A i \in 1 .. Len(pong_waiters') : pong_waiters'[i] \in ToSet(pong_waiters')
            /\ \A x \in ToSet(pong_waiters') :
                  \E i \in 1 .. Len(pong_waiters') : x = pong_waiters'[i]
        BY <3>3, SetOfSeq
      <4>2. Waiters' = ToSet(pong_waiters') /\ Len(pong_waiters') = n + 1
        BY <3>3 DEF Waiters
      <4>3. QED
        BY <4>1, <4>2
    <3>7. WaitOnce'
      <4>1. ASSUME NEW i \in 1 .. n + 1, NEW j \in 1 .. n + 1,
                   pong_waiters'[i] = pong_waiters'[j]
            PROVE  i = j
        <5>1. (i \in 1 .. n \/ i = n + 1) /\ (j \in 1 .. n \/ j = n + 1)
          BY <2>0
        <5>2. CASE i \in 1 .. n /\ j \in 1 .. n
          <6>1. w[i] = w[j]
            BY <3>3, <4>1, <5>2
          <6>2. QED
            BY <1>0, <5>2, <6>1 DEF WaitOnce
        <5>3. CASE i \in 1 .. n /\ j = n + 1
          BY <3>3, <3>4, <3>5, <4>1, <5>3
        <5>4. CASE i = n + 1 /\ j \in 1 .. n
          BY <3>3, <3>4, <3>5, <4>1, <5>4
        <5>5. QED
          BY <5>1, <5>2, <5>3, <5>4
      <4>2. QED
        BY <3>3, <4>1 DEF WaitOnce
    <3>8. \A x \in Waiters' : x \in Waiters \/ x = Current(q)
      <4>1. \A i \in 1 .. n + 1 : i \in 1 .. n \/ i = n + 1
        BY <2>0
      <4>2. QED
        BY <3>3, <3>4, <3>6, <4>1
    <3>9. \A x \in Waiters : x \in Waiters'
      <4>1. \A i \in 1 .. n : i \in 1 .. n + 1
        BY <2>0
      <4>2. QED
        BY <3>3, <3>4, <3>6, <4>1
    <3>10. Current(q) \in Waiters'
      <4>1. n + 1 \in 1 .. n + 1
        BY <2>0
      <4>2. QED
        BY <3>3, <3>6, <4>1
    <3>11. QED
      BY <2>1, <3>1, <3>3, <3>7, <3>8, <3>9, <3>10
  <2>2. CASE Kind[q] # "ping"
    <3>1. pong_waiters' = pong_waiters
      BY <2>2 DEF Begin
    <3>2. QED
      BY <1>0, <2>0, <2>2, <3>1 DEF WaitOnce, Waiters
  <2>3. QED
    BY <2>1, <2>2
<1>6. Typing'
  BY <1>0, <1>1, <1>2, <1>3, <1>4, <1>5 DEF Typing
<1>7. Local(q)
  BY <1>0, <1>2, <1>3, <1>4, <1>5 DEF Local
<1>8. Sane(q)'
  <2>1. OfKind(q)'
    BY <1>0, <1>3, <1>4, <1>5 DEF OfKind, Registered, Sane
  <2>2. Left(q)' /\ Reachable(q)'
    BY <1>0, <1>2, <1>3, <1>4, <1>5 DEF Left, Reachable, Sane, OfKind
  <2>3. Told(q)'
    <3>1. ~reading' => ~up'
      BY <1>0, <1>3 DEF IInv
    <3>2. QED
      BY <1>2, <3>1 DEF Told
  <2>4. QED
    BY <2>1, <2>2, <2>3 DEF Sane
<1>9. \A c \in Registered' : c \in Registered \/ c \in IdsOf(q)
  BY <1>3, <1>5 DEF Registered
<1>10. \A c \in IdsOf(q) : reply'[c] = "none" => reply[c] = "none" /\ c \notin Registered'
  BY <1>0, <1>4
<1>11. QED
  BY <1>3, <1>5, <1>6, <1>7, <1>8, <1>9, <1>10, LocalStep

LEMMA RefuseKeeps ==
    ASSUME IInv, NEW q \in Procs, Refuse(q)
    PROVE  IInv'
<1>0. /\ Typing /\ Sane(q) /\ IdsOf(q) \cap Registered = {} /\ "ended" \in Places
  BY DEF IInv, Sane, Left, Refuse, Places
<1>1. /\ UNCHANGED <<up, wire, executing, reading, closed, pending, pending_obs, pong_waiters>>
      /\ UNCHANGED <<exec_streams, reply, followup, queue, at, seen>>
  BY DEF Refuse, wireVars, tables, futures
<1>2. /\ pc' \in [Procs -> Places] /\ pc'[q] = "ended"
      /\ \A p \in Procs \ {q} : pc'[p] = pc[p] /\ at'[p] = at[p]
  BY <1>0, Moved, Stays DEF Refuse, Goto
<1>3. Waiters' = Waiters /\ Registered' = Registered
  BY <1>1 DEF Waiters, Registered
<1>4. Typing'
  BY <1>0, <1>1, <1>2 DEF Typing
<1>5. WaitOnce'
  BY <1>1 DEF IInv, WaitOnce
<1>6. Local(q)
  BY <1>1, <1>2, <1>3 DEF Local
<1>7. Sane(q)'
  BY <1>0, <1>1, <1>2, <1>3, EndedIsSane
<1>8. QED
  BY <1>0, <1>1, <1>3, <1>4, <1>5, <1>6, <1>7, LocalStep

LEMMA SendKeeps ==
    ASSUME IInv, NEW q \in Procs, Send(q)
    PROVE  IInv'
<1>0. /\ Typing /\ Sane(q) /\ "awaiting" \in Places /\ "sending" \in Places /\ up
      /\ pc[q] = "sending" /\ IdsOf(q) \subseteq Ids
      /\ at[q] \in 1 .. Len(Calls[q]) /\ Len(Calls[q]) \in Nat /\ Len(Calls[q]) >= 1
  BY CallsTyped DEF IInv, Typing, Send, Places
<1>1. /\ UNCHANGED <<up, reading, closed, pending, pending_obs, pong_waiters>>
      /\ UNCHANGED <<exec_streams, reply, followup, queue, seen>>
  BY DEF Send, tables, futures
<1>2. /\ wire' \in Seq([type : Types, id : Ids]) /\ executing' \subseteq Ids
      /\ \/ pc' = pc /\ at' = [at EXCEPT ![q] = at[q] + 1] /\ at[q] + 1 \in 1 .. Len(Calls[q])
         \/ pc' = [pc EXCEPT ![q] = "awaiting"] /\ at' = [at EXCEPT ![q] = 1]
  <2>1. CASE at[q] < Len(Calls[q])
    <3>1. at[q] + 1 \in 1 .. Len(Calls[q])
      BY <1>0, <2>1
    <3>2. Calls[q][at[q] + 1] \in Ids
      BY <1>0, <3>1, CallsTyped
    <3>3. Request(Calls[q][at[q] + 1]) /\ pc' = pc /\ at' = [at EXCEPT ![q] = at[q] + 1]
      BY <2>1 DEF Send
    <3>4. QED
      BY <1>0, <3>1, <3>2, <3>3, RequestTyped
  <2>2. CASE ~(at[q] < Len(Calls[q]))
    <3>1. NoRequest /\ pc' = [pc EXCEPT ![q] = "awaiting"] /\ at' = [at EXCEPT ![q] = 1]
      BY <2>2 DEF Send, Goto
    <3>2. wire' \in Seq([type : Types, id : Ids]) /\ executing' \subseteq Ids
      BY <1>0, <3>1 DEF Typing, NoRequest
    <3>3. QED
      BY <3>1, <3>2
  <2>3. QED
    BY <2>1, <2>2
<1>3. /\ pc' \in [Procs -> Places] /\ at' \in [Procs -> Nat]
      /\ \A p \in Procs : at'[p] \in 1 .. Len(Calls[p])
      /\ \A p \in Procs \ {q} : pc'[p] = pc[p] /\ at'[p] = at[p]
      /\ pc'[q] = "sending" \/ (pc'[q] = "awaiting" /\ at'[q] = 1)
  <2>0. 1 \in 1 .. Len(Calls[q])
    BY <1>0
  <2>1. CASE pc' = pc /\ at' = [at EXCEPT ![q] = at[q] + 1] /\ at[q] + 1 \in 1 .. Len(Calls[q])
    <3>1. pc' = [pc EXCEPT ![q] = "sending"]
      BY <1>0, <2>1 DEF Typing
    <3>2. QED
      BY <1>0, <2>1, <3>1, Moved
  <2>2. CASE pc' = [pc EXCEPT ![q] = "awaiting"] /\ at' = [at EXCEPT ![q] = 1]
    BY <1>0, <2>0, <2>2, Moved
  <2>3. QED
    BY <1>2, <2>1, <2>2
<1>4. Waiters' = Waiters /\ Registered' = Registered
  BY <1>1 DEF Waiters, Registered
<1>5. Typing'
  BY <1>0, <1>1, <1>2, <1>3 DEF Typing
<1>6. WaitOnce'
  BY <1>1 DEF IInv, WaitOnce
<1>7. Local(q)
  BY <1>1, <1>3, <1>4 DEF Local
<1>8. Sane(q)'
  <2>1. OfKind(q)'
    BY <1>0, <1>1, <1>4 DEF Sane, OfKind
  <2>2. Left(q)'
    <3>1. \A i \in 1 .. Len(Calls[q]) : ~(i < 1)
      BY <1>0
    <3>2. QED
      BY <1>3, <3>1 DEF Left
  <2>3. Reachable(q)'
    BY <1>0, <1>1, <1>3, <1>4 DEF Sane, Reachable
  <2>4. Told(q)'
    BY <1>0, <1>1, <1>3 DEF Sane, Told
  <2>5. QED
    BY <2>1, <2>2, <2>3, <2>4 DEF Sane
<1>9. \A c \in IdsOf(q) : reply'[c] = "none" => reply[c] = "none" /\ c \notin Registered'
  BY <1>1, <1>4 DEF IInv, Made
<1>10. QED
  BY <1>1, <1>4, <1>5, <1>6, <1>7, <1>8, <1>9, LocalStep

LEMMA SendFailsKeeps ==
    ASSUME IInv, NEW q \in Procs, SendFails(q)
    PROVE  IInv'
<1>0. /\ Typing /\ Sane(q) /\ "awaiting" \in Places /\ "ended" \in Places /\ "lost" \in Future
      /\ IdsOf(q) \subseteq Ids /\ Len(Calls[q]) \in Nat /\ 1 \in 1 .. Len(Calls[q])
      /\ reply \in [Ids -> Future] /\ queue \in [Ids -> Seq(Events)]
      /\ seen \in [Ids -> [read : Nat, taken : Nat]]
  <2>1. IdsOf(q) \subseteq Ids /\ Len(Calls[q]) \in Nat /\ Len(Calls[q]) >= 1
    BY CallsTyped
  <2>2. 1 \in 1 .. Len(Calls[q])
    BY <2>1
  <2>3. /\ Typing /\ reply \in [Ids -> Future] /\ queue \in [Ids -> Seq(Events)]
        /\ seen \in [Ids -> [read : Nat, taken : Nat]]
    BY DEF IInv, Typing
  <2>4. Sane(q) /\ "awaiting" \in Places /\ "ended" \in Places /\ "lost" \in Future
    BY DEF IInv, Places, Future
  <2>5. QED
    BY <2>1, <2>2, <2>3, <2>4
<1>1. /\ Forget(IdsOf(q)) /\ at' = [at EXCEPT ![q] = 1]
      /\ reply' = Resolve(reply, IdsOf(q), "lost")
      /\ UNCHANGED <<wireVars, reading, closed, followup, queue, seen>>
      /\ pc' = [pc EXCEPT ![q] = IF Kind[q] = "step" THEN "awaiting" ELSE "ended"]
  BY DEF SendFails, Goto
<1>2. CASE Kind[q] # "step"
  BY <1>0, <1>1, <1>2, LeaveKeeps
<1>3. CASE Kind[q] = "step"
  <2>1. /\ pc' \in [Procs -> Places] /\ pc'[q] = "awaiting" /\ at'[q] = 1
        /\ at' \in [Procs -> Nat] /\ \A p \in Procs : at'[p] \in 1 .. Len(Calls[p])
        /\ \A p \in Procs \ {q} : pc'[p] = pc[p] /\ at'[p] = at[p]
    BY <1>0, <1>1, <1>3, Moved
  <2>2. /\ reply' \in [Ids -> Future]
        /\ \A c \in Ids : reply'[c] = IF c \in IdsOf(q) /\ reply[c] = "open" THEN "lost"
                                      ELSE reply[c]
    BY <1>0, <1>1, ResolveTyped
  <2>3. Typing' /\ WaitOnce'
    BY <1>0, <1>1, <2>1, <2>2, ForgetIsLocal DEF Typing, wireVars
  <2>4. Local(q)
    BY <1>1, <2>1, <2>2, ForgetIsLocal DEF Local
  <2>5. IdsOf(q) \cap Registered' = {} /\ Registered' \subseteq Registered
    BY <1>1, ForgetIsLocal
  <2>6. Sane(q)'
    <3>1. OfKind(q)'
      <4>1. \A c \in IdsOf(q) : c \notin pending' /\ c \notin Waiters' /\ c \notin exec_streams'
                                /\ c \notin pending_obs'
        BY <2>5 DEF Registered
      <4>2. followup' = followup /\ OfKind(q)
        BY <1>0, <1>1 DEF Sane
      <4>3. QED
        BY <4>1, <4>2 DEF OfKind
    <3>2. Left(q)'
      <4>1. \A i \in 1 .. Len(Calls[q]) : ~(i < 1)
        BY <1>0
      <4>2. QED
        BY <2>1, <4>1 DEF Left
    <3>3. \A c \in IdsOf(q) : reply'[c] # "open" /\ followup'[c] # "open"
      BY <1>0, <1>1, <1>3, <2>2 DEF Sane, OfKind
    <3>4. Reachable(q)' /\ Told(q)'
      BY <1>3, <3>3 DEF Reachable, Told
    <3>5. QED
      BY <3>1, <3>2, <3>4 DEF Sane
  <2>7. \A c \in IdsOf(q) : reply'[c] = "none" => reply[c] = "none" /\ c \notin Registered'
    BY <1>0, <2>2, <2>5
  <2>8. QED
    BY <1>1, <2>3, <2>4, <2>5, <2>6, <2>7, LocalStep DEF wireVars
<1>4. QED
  BY <1>2, <1>3

\* A deadline settles one future, and nobody moves.
LEMMA ExpireKeeps ==
    ASSUME IInv, NEW q \in Procs, Expire(q)
    PROVE  IInv'
<1>0. /\ Typing /\ Current(q) \in Ids /\ "timeout" \in Future
      /\ reply \in [Ids -> Future] /\ followup \in [Ids -> Future]
  BY CurrentIsOwn DEF IInv, Typing, Future
<1>1. /\ UNCHANGED <<up, wire, executing, reading, closed, pending, pending_obs, pong_waiters>>
      /\ UNCHANGED <<exec_streams, queue, pc, at, seen>>
      /\ reply' \in {reply, [reply EXCEPT ![Current(q)] = "timeout"]}
      /\ followup' \in {followup, [followup EXCEPT ![Current(q)] = "timeout"]}
      /\ reply' = reply \/ reply[Current(q)] = "open"
  BY DEF Expire, ExpireReply, ExpireFollowup, wireVars, tables, coroutines
<1>2. /\ reply' \in [Ids -> Future] /\ followup' \in [Ids -> Future]
      /\ \A c \in Ids : /\ reply'[c] = "open" => reply[c] = "open"
                        /\ reply'[c] = "none" => reply[c] = "none"
                        /\ followup'[c] = "open" => followup[c] = "open"
  BY <1>0, <1>1
<1>3. Waiters' = Waiters /\ Registered' = Registered /\ Registered \subseteq Ids
  BY <1>0, <1>1, SetOfSeq DEF Waiters, Registered, Typing
<1>4. Typing'
  BY <1>0, <1>1, <1>2 DEF Typing
<1>5. WaitOnce' /\ Made'
  BY <1>1, <1>2, <1>3 DEF IInv, WaitOnce, Made
<1>6. ASSUME NEW p \in Procs PROVE Sane(p)'
  <2>1. IdsOf(p) \subseteq Ids
    BY CallsTyped
  <2>2. Spared(p)
    BY <1>1, <1>2, <1>3, <2>1 DEF Spared
  <2>3. QED
    BY <1>1, <2>2, SparedIsSane DEF IInv
<1>7. QED
  BY <1>1, <1>4, <1>5, <1>6 DEF IInv

\* A step has read a row.
LEMMA RowKeeps ==
    ASSUME IInv, NEW q \in Procs, Resume(q), Kind[q] = "step"
    PROVE  IInv'
<1>0. /\ Typing /\ Sane(q) /\ pc[q] = "awaiting" /\ reply[Current(q)] # "open"
      /\ Current(q) = Calls[q][at[q]] /\ "ended" \in Places
  BY DEF IInv, Resume, Current, Places
<1>1. /\ IdsOf(q) \subseteq Ids /\ Len(Calls[q]) \in Nat
      /\ at[q] \in 1 .. Len(Calls[q]) /\ at[q] \in Nat
      /\ \A c \in IdsOf(q) : \E i \in 1 .. Len(Calls[q]) : c = Calls[q][i]
      /\ \A i \in 1 .. Len(Calls[q]) : Calls[q][i] \in IdsOf(q)
      /\ Current(q) \in IdsOf(q)
  BY <1>0, CallsTyped, CurrentIsOwn DEF Typing
<1>2. /\ UNCHANGED <<up, wire, executing, reading, closed, reply, followup, queue, seen>>
      /\ UNCHANGED <<pending_obs, pong_waiters, exec_streams>>
      /\ pending' = pending \ {Current(q)}
      /\ \/ at[q] < Len(Calls[q]) /\ pc' = pc /\ at' = [at EXCEPT ![q] = at[q] + 1]
         \/ at[q] = Len(Calls[q]) /\ pc' = [pc EXCEPT ![q] = "ended"] /\ at' = at
  BY <1>1 DEF Resume, RowLeft, Goto, wireVars, futures
<1>3. /\ pc' \in [Procs -> Places] /\ at' \in [Procs -> Nat]
      /\ \A p \in Procs : at'[p] \in 1 .. Len(Calls[p])
      /\ \A p \in Procs \ {q} : pc'[p] = pc[p] /\ at'[p] = at[p]
      /\ \/ pc'[q] = "awaiting" /\ at'[q] = at[q] + 1
         \/ at[q] = Len(Calls[q]) /\ pc'[q] = "ended"
  <2>1. CASE at[q] < Len(Calls[q]) /\ pc' = pc /\ at' = [at EXCEPT ![q] = at[q] + 1]
    <3>1. at[q] + 1 \in 1 .. Len(Calls[q])
      BY <1>1, <2>1
    <3>2. pc' = [pc EXCEPT ![q] = "awaiting"] /\ "awaiting" \in Places
      BY <1>0, <2>1 DEF Typing, Places
    <3>3. QED
      BY <1>0, <2>1, <3>1, <3>2, Moved
  <2>2. CASE at[q] = Len(Calls[q]) /\ pc' = [pc EXCEPT ![q] = "ended"] /\ at' = at
    BY <1>0, <2>2, Moved, Stays
  <2>3. QED
    BY <1>2, <2>1, <2>2
<1>4. Waiters' = Waiters /\ Registered' \subseteq Registered
  BY <1>2 DEF Waiters, Registered
<1>5. Typing' /\ WaitOnce'
  <2>1. Typing'
    BY <1>0, <1>2, <1>3 DEF Typing
  <2>2. WaitOnce'
    BY <1>2 DEF IInv, WaitOnce
  <2>3. QED
    BY <2>1, <2>2
<1>6. \A c \in Ids \ IdsOf(q) : c \in pending' <=> c \in pending
  BY <1>1, <1>2
<1>7. Local(q)
  BY <1>2, <1>3, <1>4, <1>6 DEF Local
<1>8. \A i \in 1 .. Len(Calls[q]) : i <= at[q] => Calls[q][i] \notin pending'
  <2>1. \A i \in 1 .. Len(Calls[q]) : i < at[q] => Calls[q][i] \notin pending
    BY <1>0 DEF Sane, Left
  <2>2. \A i \in 1 .. Len(Calls[q]) : i <= at[q] => i < at[q] \/ i = at[q]
    BY <1>1
  <2>3. QED
    BY <1>0, <1>2, <2>1, <2>2
<1>9. Sane(q)'
  <2>1. OfKind(q)'
    BY <1>0, <1>2, <1>4 DEF Sane, OfKind
  <2>2. CASE pc'[q] = "awaiting" /\ at'[q] = at[q] + 1
    <3>1. Left(q)'
      <4>1. \A i \in 1 .. Len(Calls[q]) : i < at[q] + 1 => i <= at[q]
        BY <1>1
      <4>2. QED
        BY <1>8, <2>2, <4>1 DEF Left
    <3>2. Reachable(q)' /\ Told(q)'
      BY <1>0, <1>2, <1>4, <2>2 DEF Sane, Reachable, Told
    <3>3. QED
      BY <2>1, <3>1, <3>2 DEF Sane
  <2>3. CASE at[q] = Len(Calls[q]) /\ pc'[q] = "ended"
    <3>1. \A c \in IdsOf(q) : c \notin pending'
      <4>1. \A i \in 1 .. Len(Calls[q]) : i <= at[q]
        BY <1>1, <2>3
      <4>2. QED
        BY <1>1, <1>8, <4>1
    <3>2. \A c \in IdsOf(q) : c \notin Registered'
      BY <2>1, <3>1 DEF OfKind, Registered
    <3>3. QED
      BY <1>0, <1>2, <2>3, <3>2, EndedIsSane
  <2>4. QED
    BY <1>3, <2>2, <2>3
<1>10. \A c \in IdsOf(q) : reply'[c] = "none" => reply[c] = "none" /\ c \notin Registered'
  BY <1>2, <1>4 DEF IInv, Made
<1>11. QED
  BY <1>2, <1>4, <1>5, <1>7, <1>9, <1>10, LocalStep

\* An ack of which more is to come.
LEMMA AckKeeps ==
    ASSUME IInv, NEW q \in Procs, Resume(q), UNCHANGED <<tables, at>>,
           \/ Kind[q] = "exec" /\ pc' = [pc EXCEPT ![q] = "draining"]
           \/ Kind[q] = "observe" /\ pc' = [pc EXCEPT ![q] = "observing"]
    PROVE  IInv'
<1>0. /\ Typing /\ Sane(q) /\ pc[q] = "awaiting"
      /\ "draining" \in Places /\ "observing" \in Places
  BY DEF IInv, Resume, Places
<1>1. /\ UNCHANGED <<up, wire, executing, reading, closed, reply, followup, queue, seen>>
      /\ UNCHANGED <<pending, pending_obs, pong_waiters, exec_streams>>
  BY DEF Resume, wireVars, futures, tables
<1>2. /\ pc' \in [Procs -> Places] /\ at' = at
      /\ \A p \in Procs \ {q} : pc'[p] = pc[p]
      /\ \/ Kind[q] = "exec" /\ pc'[q] = "draining"
         \/ Kind[q] = "observe" /\ pc'[q] = "observing"
  BY <1>0, Moved, Stays
<1>3. Waiters' = Waiters /\ Registered' = Registered
  BY <1>1 DEF Waiters, Registered
<1>4. Typing' /\ WaitOnce'
  <2>1. Typing'
    BY <1>0, <1>1, <1>2 DEF Typing
  <2>2. WaitOnce'
    BY <1>1 DEF IInv, WaitOnce
  <2>3. QED
    BY <2>1, <2>2
<1>5. Local(q)
  BY <1>1, <1>2, <1>3 DEF Local
<1>6. Sane(q)'
  <2>1. OfKind(q)'
    BY <1>0, <1>1, <1>3 DEF Sane, OfKind
  <2>2. Left(q)'
    BY <1>2 DEF Left
  <2>3. Reachable(q)' /\ Told(q)'
    BY <1>0, <1>1, <1>2, <1>3 DEF Sane, Reachable, Told
  <2>4. QED
    BY <2>1, <2>2, <2>3 DEF Sane
<1>7. \A c \in IdsOf(q) : reply'[c] = "none" => reply[c] = "none" /\ c \notin Registered'
  BY <1>1, <1>3 DEF IInv, Made
<1>8. QED
  BY <1>1, <1>3, <1>4, <1>5, <1>6, <1>7, LocalStep

LEMMA ResumeKeeps ==
    ASSUME IInv, NEW q \in Procs, Resume(q)
    PROVE  IInv'
<1>0. queue \in [Ids -> Seq(Events)] /\ seen \in [Ids -> [read : Nat, taken : Nat]]
  BY DEF IInv, Typing
<1>1. CASE Kind[q] = "step"
  BY <1>1, RowKeeps
<1>2. CASE Kind[q] # "step" /\ reply[Current(q)] = "ack" /\ Kind[q] \in {"observe", "exec"}
  BY <1>2, AckKeeps DEF Resume, Goto
<1>3. CASE Kind[q] # "step" /\ ~(reply[Current(q)] = "ack" /\ Kind[q] \in {"observe", "exec"})
  <2>1. /\ Forget(IdsOf(q)) /\ pc' = [pc EXCEPT ![q] = "ended"] /\ at' = at
        /\ UNCHANGED <<wireVars, reading, closed, futures, seen>>
    BY <1>3 DEF Resume, Goto
  <2>2. QED
    BY <1>0, <2>1, LeaveKeeps DEF futures
<1>4. QED
  BY <1>1, <1>2, <1>3

LEMMA TakeKeeps ==
    ASSUME IInv, NEW q \in Procs, Take(q)
    PROVE  IInv'
<1> DEFINE c == Current(q)
<1>0. /\ Typing /\ Sane(q) /\ pc[q] = "draining" /\ queue[c] # <<>> /\ Kind[q] = "exec"
      /\ c \in Ids /\ IdsOf(q) = {c} /\ queue \in [Ids -> Seq(Events)]
      /\ seen \in [Ids -> [read : Nat, taken : Nat]]
  <2>1. /\ Typing /\ Sane(q) /\ pc[q] = "draining" /\ queue[c] # <<>> /\ Kind[q] = "exec"
    BY DEF IInv, Take, Sane, Left
  <2>2. QED
    BY <2>1, CurrentIsOwn DEF Typing
<1>1. /\ queue' = [queue EXCEPT ![c] = Tail(queue[c])]
      /\ seen' = [seen EXCEPT ![c].taken = @ + 1]
      /\ UNCHANGED <<wireVars, reading, closed, reply, followup, at>>
  BY DEF Take
<1>2. /\ queue' \in [Ids -> Seq(Events)] /\ queue'[c] = Tail(queue[c])
      /\ \A d \in Ids \ IdsOf(q) : queue'[d] = queue[d]
      /\ ToSet(queue[c]) \subseteq {Head(queue[c])} \cup ToSet(queue'[c])
  <2>1. queue[c] \in Seq(Events) /\ Tail(queue[c]) \in Seq(Events)
    BY <1>0, HeadTailProperties
  <2>2. ToSet(queue[c]) \subseteq {Head(queue[c])} \cup ToSet(Tail(queue[c]))
    BY <1>0, <2>1, SetOfSeq
  <2>3. QED
    BY <1>0, <1>1, <2>1, <2>2
<1>3. seen' \in [Ids -> [read : Nat, taken : Nat]]
  <2>1. seen[c].taken + 1 \in Nat
    BY <1>0
  <2>2. QED
    BY <1>0, <1>1, <2>1
<1>4. CASE Head(queue[c]) = "exec_output"
  <2>1. UNCHANGED <<pending, pending_obs, pong_waiters, exec_streams, pc>>
    BY <1>4 DEF Take, tables
  <2>2. UNCHANGED <<up, wire, executing, reading, closed, reply, followup, at>>
    BY <1>1 DEF wireVars
  <2>3. Waiters' = Waiters /\ Registered' = Registered
    BY <2>1 DEF Waiters, Registered
  <2>4. Typing' /\ WaitOnce'
    <3>1. Typing'
      BY <1>0, <1>2, <1>3, <2>1, <2>2 DEF Typing
    <3>2. WaitOnce'
      BY <2>1 DEF IInv, WaitOnce
    <3>3. QED
      BY <3>1, <3>2
  <2>5. Local(q)
    BY <1>2, <2>1, <2>2, <2>3 DEF Local
  <2>6. "lost" \in ToSet(queue[c]) => "lost" \in ToSet(queue'[c])
    BY <1>2, <1>4
  <2>7. Sane(q)'
    <3>1. OfKind(q)'
      BY <1>0, <2>1, <2>2, <2>3 DEF Sane, OfKind
    <3>2. Left(q)'
      BY <1>0, <2>1 DEF Left
    <3>3. Reachable(q)' /\ Told(q)'
      BY <1>0, <2>1, <2>2, <2>6 DEF Sane, Reachable, Told
    <3>4. QED
      BY <3>1, <3>2, <3>3 DEF Sane
  <2>8. \A d \in IdsOf(q) : reply'[d] = "none" => reply[d] = "none" /\ d \notin Registered'
    BY <2>2, <2>3 DEF IInv, Made
  <2>9. QED
    BY <2>2, <2>3, <2>4, <2>5, <2>7, <2>8, LocalStep
<1>5. CASE Head(queue[c]) # "exec_output"
  <2>1. Forget({c}) /\ pc' = [pc EXCEPT ![q] = "ended"]
    BY <1>5 DEF Take, Goto
  <2>2. QED
    BY <1>0, <1>1, <1>2, <1>3, <2>1, LeaveKeeps
<1>6. QED
  BY <1>4, <1>5

LEMMA WaitEndsKeeps ==
    ASSUME IInv, NEW q \in Procs, ResumeObserved(q) \/ DrainTimeout(q)
    PROVE  IInv'
<1>1. queue \in [Ids -> Seq(Events)] /\ seen \in [Ids -> [read : Nat, taken : Nat]]
  BY DEF IInv, Typing
<1>2. /\ Forget(IdsOf(q)) /\ pc' = [pc EXCEPT ![q] = "ended"] /\ at' = at
      /\ UNCHANGED <<wireVars, reading, closed, futures, seen>>
  BY DEF ResumeObserved, DrainTimeout, Goto
<1>3. QED
  BY <1>1, <1>2, LeaveKeeps DEF futures

LEMMA CancelKeeps ==
    ASSUME IInv, NEW q \in Procs, Cancel(q)
    PROVE  IInv'
<1>0. /\ Typing /\ Sane(q) /\ "cancelled" \in Places /\ "timeout" \in Future
      /\ IdsOf(q) \subseteq Ids /\ Current(q) \in IdsOf(q)
      /\ reply \in [Ids -> Future] /\ followup \in [Ids -> Future]
  BY CallsTyped, CurrentIsOwn DEF IInv, Typing, Places, Future
<1>1. /\ UNCHANGED <<up, wire, executing, reading, closed, pending, pong_waiters, queue, at, seen>>
      /\ pending_obs' \in {pending_obs, pending_obs \ IdsOf(q)}
      /\ exec_streams' = exec_streams \ IdsOf(q)
      /\ pc' = [pc EXCEPT ![q] = "cancelled"]
  BY DEF Cancel, Goto, wireVars
<1>2. /\ reply' \in [Ids -> Future] /\ followup' \in [Ids -> Future]
      /\ \A c \in Ids \ IdsOf(q) : reply'[c] = reply[c] /\ followup'[c] = followup[c]
      /\ \A c \in Ids : /\ reply'[c] = "none" => reply[c] = "none"
                        /\ followup'[c] = "open" => followup[c] = "open"
  <2>1. /\ reply' \in {reply, Resolve(reply, {Current(q)}, "timeout")}
        /\ followup' = Resolve(followup, IdsOf(q), "timeout")
    BY DEF Cancel
  <2>2. /\ Resolve(reply, {Current(q)}, "timeout") \in [Ids -> Future]
        /\ \A c \in Ids : Resolve(reply, {Current(q)}, "timeout")[c] =
              IF c \in {Current(q)} /\ reply[c] = "open" THEN "timeout" ELSE reply[c]
    BY <1>0, ResolveTyped
  <2>3. /\ followup' \in [Ids -> Future]
        /\ \A c \in Ids : followup'[c] =
              IF c \in IdsOf(q) /\ followup[c] = "open" THEN "timeout" ELSE followup[c]
    BY <1>0, <2>1, ResolveTyped
  <2>4. /\ reply' \in [Ids -> Future]
        /\ \A c \in Ids \ IdsOf(q) : reply'[c] = reply[c]
        /\ \A c \in Ids : reply'[c] = "none" => reply[c] = "none"
    BY <1>0, <2>1, <2>2
  <2>5. QED
    BY <2>3, <2>4
<1>3. /\ pc' \in [Procs -> Places] /\ pc'[q] = "cancelled"
      /\ \A p \in Procs \ {q} : pc'[p] = pc[p]
  BY <1>0, <1>1, Moved, Stays
<1>4. Waiters' = Waiters /\ Registered' \subseteq Registered
  BY <1>1 DEF Waiters, Registered
<1>5. Typing' /\ WaitOnce'
  <2>1. Typing'
    BY <1>0, <1>1, <1>2, <1>3 DEF Typing
  <2>2. WaitOnce'
    BY <1>1 DEF IInv, WaitOnce
  <2>3. QED
    BY <2>1, <2>2
<1>6. Local(q)
  BY <1>1, <1>2, <1>3, <1>4 DEF Local
<1>7. Sane(q)'
  <2>1. OfKind(q)'
    BY <1>0, <1>1, <1>2, <1>4 DEF Sane, OfKind
  <2>2. Left(q)' /\ Reachable(q)' /\ Told(q)'
    BY <1>3 DEF Left, Reachable, Told
  <2>3. QED
    BY <2>1, <2>2 DEF Sane
<1>8. \A c \in IdsOf(q) : reply'[c] = "none" => reply[c] = "none" /\ c \notin Registered'
  BY <1>0, <1>2, <1>4 DEF IInv, Made
<1>9. QED
  BY <1>1, <1>4, <1>5, <1>6, <1>7, <1>8, LocalStep

--------------------------------------------------------------------------------
(* The theorems.                                                               *)

LEMMA InitInv == Init => IInv
<1> SUFFICES ASSUME Init PROVE IInv
  OBVIOUS
<1>1. /\ reply = [c \in Ids |-> "none"] /\ followup = [c \in Ids |-> "none"]
      /\ queue = [c \in Ids |-> <<>>] /\ pc = [p \in Procs |-> "idle"]
      /\ at = [p \in Procs |-> 1] /\ seen = [c \in Ids |-> [read |-> 0, taken |-> 0]]
      /\ up = TRUE /\ reading = TRUE /\ closed = FALSE /\ wire = <<>> /\ executing = {}
      /\ pending = {} /\ pending_obs = {} /\ exec_streams = {} /\ pong_waiters = <<>>
  BY DEF Init
<1>2. \A p \in Procs : 1 \in 1 .. Len(Calls[p])
  <2> TAKE p \in Procs
  <2>1. Len(Calls[p]) \in Nat /\ Len(Calls[p]) >= 1
    BY CallsTyped
  <2>2. QED
    BY <2>1
<1>3. Typing
  <2>1. "none" \in Future /\ "idle" \in Places /\ 1 \in Nat /\ 0 \in Nat
    BY DEF Future, Places
  <2>2. up \in BOOLEAN /\ reading \in BOOLEAN /\ closed \in BOOLEAN
    BY <1>1
  <2>3. /\ wire \in Seq([type : Types, id : Ids]) /\ executing \subseteq Ids
        /\ pending \subseteq Ids /\ pending_obs \subseteq Ids /\ exec_streams \subseteq Ids
        /\ pong_waiters \in Seq(Ids)
    BY <1>1
  <2>4. /\ reply \in [Ids -> Future] /\ followup \in [Ids -> Future]
        /\ pc \in [Procs -> Places]
        /\ at \in [Procs -> Nat] /\ \A p \in Procs : at[p] \in 1 .. Len(Calls[p])
    BY <1>1, <1>2, <2>1
  <2>5. queue \in [Ids -> Seq(Events)] /\ seen \in [Ids -> [read : Nat, taken : Nat]]
    BY <1>1, <2>1
  <2>6. QED
    BY <2>2, <2>3, <2>4, <2>5 DEF Typing
<1>4. Waiters = {} /\ Registered = {}
  <2>1. ToSet(<<>>) = {}
    BY DEF ToSet
  <2>2. QED
    BY <1>1, <2>1 DEF Waiters, Registered
<1>5. WaitOnce /\ Made
  BY <1>1, <1>4 DEF WaitOnce, Made
<1>6. ASSUME NEW p \in Procs PROVE Sane(p)
  <2>1. IdsOf(p) \subseteq Ids
    BY CallsTyped
  <2>2. QED
    BY <1>1, <1>4, <2>1 DEF Sane, OfKind, Left, Reachable, Told
<1>7. QED
  BY <1>1, <1>3, <1>5, <1>6 DEF IInv

\* The invariant that the tables of a session rest on: every entry has an owner that is under way,
\* and every future that is awaited can be reached through a table, until the reader is gone
\* (client.py, _dispatch, _fail_pending, act, step, ping, exec_stream, close).
THEOREM TablesInductive == DemuxSafety => []IInv
<1>1. ASSUME IInv, [Next]_vars PROVE IInv'
  <2>1. CASE Wire \/ Close \/ UNCHANGED vars
    BY <1>1, <2>1, WireStep
  <2>2. CASE Dispatch
    BY <1>1, <2>2, DispatchKeeps
  <2>3. CASE ReaderEnds \/ CloseSocket
    BY <1>1, <2>3, ReaderStep
  <2>4. ASSUME NEW q \in Procs, Coroutine(q) PROVE IInv'
    BY <1>1, <2>4, BeginKeeps, RefuseKeeps, SendKeeps, SendFailsKeeps, ExpireKeeps, ResumeKeeps,
       WaitEndsKeeps, TakeKeeps, CancelKeeps DEF Coroutine
  <2>5. QED
    BY <1>1, <2>1, <2>2, <2>3, <2>4 DEF Next, Session, Finished
<1>2. QED
  BY <1>1, InitInv, PTL DEF DemuxSafety

\* TablesSound: a call that ended by itself has left no entry in any table, and once the reader
\* is gone no coroutine is left to wait for a reply, a follow-up or an event, for any number of
\* coroutines and calls (client.py, the tables of AsyncSandbox and _fail_pending).
THEOREM TablesAlwaysSound == DemuxSafety => []TablesSound
<1>1. ASSUME IInv PROVE TablesSound
  <2>0. Typing /\ Made /\ \A p \in Procs : Sane(p)
    BY <1>1 DEF IInv
  <2>1. TypeOK
    <3>1. pending \cup pending_obs \cup exec_streams \cup ToSet(pong_waiters)
             \subseteq {c \in Ids : reply[c] # "none"}
      <4>1. Registered \subseteq Ids
        BY <2>0, SetOfSeq DEF Typing, Registered, Waiters
      <4>2. QED
        BY <2>0, <4>1 DEF Made, Registered, Waiters
    <3>2. \A i \in 1 .. Len(wire) : wire[i].id \in Ids
      <4>1. \A i \in 1 .. Len(wire) : wire[i] \in [type : Types, id : Ids]
        BY <2>0, ElementOfSeq DEF Typing
      <4>2. QED
        BY <4>1
    <3>3. \A c \in Ids : ToSet(queue[c]) \subseteq Events
      BY <2>0, SetOfSeq DEF Typing
    <3>4. QED
      BY <2>0, <3>1, <3>2, <3>3 DEF Typing, TypeOK, Events, Places
  <2>2. TablesClean
    BY <2>0 DEF Sane, Left, TablesClean, Registered, Waiters
  <2>3. NobodyWaitsOnDead
    <3>1. ASSUME ~reading, NEW p \in Procs
          PROVE  /\ pc[p] = "awaiting" => reply[Current(p)] # "open"
                 /\ pc[p] = "observing" => followup[Current(p)] # "open"
                 /\ pc[p] = "draining" => queue[Current(p)] # <<>>
      <4>1. Current(p) \in IdsOf(p)
        BY <2>0, CurrentIsOwn
      <4>2. Told(p) /\ (pc[p] = "draining" => Kind[p] = "exec")
        BY <2>0 DEF Sane, Left
      <4>3. ToSet(<<>>) = {}
        BY DEF ToSet
      <4>4. QED
        BY <3>1, <4>1, <4>2, <4>3 DEF Told
    <3>2. QED
      BY <3>1 DEF NobodyWaitsOnDead
  <2>4. QED
    BY <2>1, <2>2, <2>3 DEF TablesSound
<1>2. QED
  BY <1>1, TablesInductive, PTL
--------------------------------------------------------------------------------
(* The client of TypeScript (TsClients).                                        *)

Kinds == {"act", "start", "stop", "ping", "frame", "frame in time"}
Fates == {"pending", "ok", "failed", "none", "frame"}
FrameKinds == {"frame", "frame in time"}
OfPromise == [kind : Kinds, is : Fates]

Elems(s) == {s[i] : i \in DOMAIN s}
Once(s) == \A i, j \in DOMAIN s : s[i] = s[j] => i = j

\* A promise waits in the table of its kind for as long as it is pending, and in no other.
Kept(ps, cs, pings, reads) ==
    /\ ps \in Seq(OfPromise)
    /\ cs \subseteq DOMAIN ps /\ \A id \in cs : ps[id].kind \in T!CallKinds
    /\ pings \subseteq DOMAIN ps /\ \A id \in pings : ps[id].kind = "ping"
    /\ reads \subseteq DOMAIN ps /\ \A id \in reads : ps[id].kind \in FrameKinds
    /\ \A id \in DOMAIN ps : ps[id].is = "pending" <=> id \in cs \cup pings \cup reads

TsTyping ==
    /\ sock \in {"connecting", "open", "closed"}
        /\ connecting \in {"pending", "connected", "rejected"}
    /\ deadline \in BOOLEAN /\ over \in BOOLEAN
    /\ pongWaiters \in Seq(Nat) /\ Once(pongWaiters)
    /\ readers \in Seq(Nat) /\ Once(readers)

\* A client that is over keeps nobody, and there is none before the handshake.
TsOver ==
    /\ over => calls = {} /\ pongWaiters = <<>> /\ readers = <<>> /\ queued = <<>>
    /\ connecting # "connected" => promises = <<>> /\ readers = <<>> /\ queued = <<>> /\ ~over
    /\ connecting = "connected" => sock # "connecting" /\ (sock = "closed" => over)
    /\ queued = <<>> \/ readers = <<>>

TsInv ==
    /\ TsTyping /\ TsOver /\ T!NoSocketLeft
    /\ Kept(promises, calls, Elems(pongWaiters), Elems(readers))

\* Nothing waits in an empty queue.
LEMMA NobodyInEmpty ==
    <<>> \in Seq(Nat) /\ Once(<<>>) /\ Elems(<<>>) = {} /\ DOMAIN <<>> = {}
      /\ Kept(<<>>, {}, {}, {})
  <1>1. <<>> \in Seq(Nat) /\ <<>> \in Seq(OfPromise) /\ DOMAIN <<>> = {}
    OBVIOUS
  <1> QED BY <1>1 DEF Once, Elems, Kept

\* Who waits has a client that is connected and not over.
LEMMA WaitsOpen ==
    ASSUME TsInv, calls \cup Elems(pongWaiters) \cup Elems(readers) # {}
    PROVE  connecting = "connected" /\ ~over /\ sock = "open"
  <1>1. CASE over
    BY <1>1, NobodyInEmpty DEF TsInv, TsOver
  <1>2. CASE ~over
    <2>1. promises # <<>>
      BY NobodyInEmpty DEF TsInv, Kept
    <2> QED BY <1>2, <2>1 DEF TsInv, TsOver, TsTyping
  <1> QED BY <1>1, <1>2

\* One more element.
LEMMA OneMore ==
    ASSUME NEW s \in Seq(Nat), Once(s), NEW x \in Nat, x \notin Elems(s)
    PROVE  LET r == Append(s, x) IN r \in Seq(Nat) /\ Once(r) /\ Elems(r) = Elems(s) \cup {x}
  <1> DEFINE r == Append(s, x)
  <1>1. /\ r \in Seq(Nat) /\ Len(r) = Len(s) + 1 /\ DOMAIN r = 1 .. Len(s) + 1
            /\ DOMAIN s = 1 .. Len(s)
        /\ Len(s) \in Nat /\ r[Len(s) + 1] = x /\ \A i \in 1 .. Len(s) : r[i] = s[i]
    OBVIOUS
  <1> HIDE DEF r
  <1>2. DOMAIN r = DOMAIN s \cup {Len(s) + 1}
    BY <1>1
  <1>3. Elems(r) = Elems(s) \cup {x}
    BY <1>1, <1>2 DEF Elems
  <1>4. Once(r)
    BY <1>1, <1>2 DEF Once, Elems
  <1> QED BY <1>1, <1>3, <1>4 DEF r

\* A sequence without the element of one place, none of which comes twice.
LEMMA OneLess ==
    ASSUME NEW s \in Seq(Nat), Once(s), NEW n \in 1 .. Len(s),
      NEW r \in Seq(Nat), Len(r) = Len(s) - 1,
           \A i \in 1 .. Len(s) - 1 : r[i] = IF i < n THEN s[i] ELSE s[i + 1]
    PROVE  Once(r) /\ Elems(r) = Elems(s) \ {s[n]}
  <1>1. DOMAIN r = 1 .. Len(s) - 1 /\ DOMAIN s = 1 .. Len(s) /\ Len(s) \in Nat
    OBVIOUS
  <1>2. ASSUME NEW i \in DOMAIN r
        PROVE  \E j \in DOMAIN s : j # n /\ r[i] = s[j] /\ j = IF i < n THEN i ELSE i + 1
    <2>1. CASE i < n
      BY <1>1, <2>1
    <2>2. CASE i >= n
      <3>1. i + 1 \in DOMAIN s /\ r[i] = s[i + 1] /\ i + 1 # n
        BY <1>1, <2>2
      <3> QED BY <2>2, <3>1
    <2> QED BY <1>1, <2>1, <2>2
  <1>3. ASSUME NEW j \in DOMAIN s, j # n
        PROVE  \E i \in DOMAIN r : r[i] = s[j]
    <2>1. CASE j < n
      BY <1>1, <1>3, <2>1
    <2>2. CASE j > n
      <3>1. j - 1 \in DOMAIN r /\ r[j - 1] = s[j]
        BY <1>1, <2>2
      <3> QED BY <3>1
    <2> QED BY <1>1, <1>3, <2>1, <2>2
  <1>4. Once(r)
    <2> SUFFICES ASSUME NEW i \in DOMAIN r, NEW k \in DOMAIN r, r[i] = r[k] PROVE i = k
      BY DEF Once
    <2>1. PICK p \in DOMAIN s : r[i] = s[p] /\ p = IF i < n THEN i ELSE i + 1
      BY <1>2
    <2>2. PICK q \in DOMAIN s : r[k] = s[q] /\ q = IF k < n THEN k ELSE k + 1
      BY <1>2
    <2>3. p = q
      BY <2>1, <2>2 DEF Once
    <2>4. i \in Int /\ k \in Int /\ n \in Int
      BY <1>1
    <2>5. i < n <=> k < n
      BY <2>1, <2>2, <2>3, <2>4
    <2> QED BY <2>1, <2>2, <2>3, <2>4, <2>5
  <1>5. ASSUME NEW x \in Elems(r) PROVE x \in Elems(s) /\ x # s[n]
    <2>1. PICK i \in DOMAIN r : x = r[i]
      BY DEF Elems
    <2>2. PICK j \in DOMAIN s : j # n /\ r[i] = s[j]
      BY <1>2
    <2> QED BY <1>1, <2>1, <2>2 DEF Elems, Once
  <1>6. ASSUME NEW x \in Elems(s), x # s[n] PROVE x \in Elems(r)
    <2>1. PICK j \in DOMAIN s : x = s[j]
      BY DEF Elems
    <2>2. PICK i \in DOMAIN r : r[i] = s[j]
      BY <1>3, <1>6, <2>1
    <2> QED BY <2>1, <2>2 DEF Elems
  <1> QED BY <1>4, <1>5, <1>6

\* The first of a queue is taken.
LEMMA FirstTaken ==
    ASSUME NEW s \in Seq(Nat), Once(s), s # <<>>
    PROVE  /\ Head(s) \in Elems(s)
           /\ Tail(s) \in Seq(Nat) /\ Once(Tail(s)) /\ Elems(Tail(s)) = Elems(s) \ {Head(s)}
  <1>1. /\ Tail(s) \in Seq(Nat) /\ Len(Tail(s)) = Len(s) - 1 /\ Len(s) \in Nat /\ 1 \in 1 .. Len(s)
        /\ Head(s) = s[1] /\ \A i \in 1 .. Len(s) - 1 : Tail(s)[i] = s[i + 1]
    OBVIOUS
  <1>2. \A i \in 1 .. Len(s) - 1 : Tail(s)[i] = IF i < 1 THEN s[i] ELSE s[i + 1]
    BY <1>1
  <1>3. Once(Tail(s)) /\ Elems(Tail(s)) = Elems(s) \ {s[1]}
    BY <1>1, <1>2, OneLess
  <1>4. s[1] \in Elems(s)
    BY <1>1 DEF Elems
  <1> QED BY <1>1, <1>3, <1>4

\* One is taken out of a queue, wherever it waits.
LEMMA OneTaken ==
    ASSUME NEW s \in Seq(Nat), Once(s), NEW e \in Elems(s)
    PROVE  LET r == T!RemoveFirst(s, e)
           IN  r \in Seq(Nat) /\ Once(r) /\ Elems(r) = Elems(s) \ {e}
  <1> DEFINE I == {i \in 1 .. Len(s) : s[i] = e}
             n == T!Min(I)
             a == SubSeq(s, 1, n - 1)
             b == SubSeq(s, n + 1, Len(s))
  <1>1. PICK k \in 1 .. Len(s) : s[k] = e /\ I = {k}
    BY DEF Elems, Once
  <1>2. n = k
    BY <1>1 DEF T!Min
  <1>3. T!RemoveFirst(s, e) = a \o b
    <2>1. T!SelectInSeq(s, LAMBDA v : v = e) = n
      BY <1>1 DEF T!SelectInSeq
    <2> QED BY <1>1, <2>1 DEF T!RemoveFirst, T!RemoveAt
  <1> HIDE DEF n
  <1>4. a \in Seq(Nat) /\ Len(a) = k - 1 /\ \A i \in 1 .. k - 1 : a[i] = s[i]
    BY <1>2
  <1>5. b \in Seq(Nat) /\ Len(b) = Len(s) - k /\ \A i \in 1 .. Len(s) - k : b[i] = s[i + k]
    BY <1>2
  <1> HIDE DEF a, b
  <1>6. /\ a \o b \in Seq(Nat) /\ Len(a \o b) = Len(a) + Len(b)
        /\ \A i \in 1 .. Len(a) + Len(b) : (a \o b)[i] = IF i <= Len(a) THEN a[i] ELSE b[i - Len(a)]
    BY <1>4, <1>5, ConcatProperties
  <1>7. Len(a) + Len(b) = Len(s) - 1 /\ Len(a) = k - 1 /\ Len(s) \in Nat
    BY <1>4, <1>5
  <1>8. ASSUME NEW i \in 1 .. Len(s) - 1 PROVE (a \o b)[i] = IF i < k THEN s[i] ELSE s[i + 1]
    <2>1. CASE i < k
      BY <1>4, <1>6, <1>7, <2>1
    <2>2. CASE i >= k
      <3>1. i - (k - 1) \in 1 .. Len(s) - k /\ i - (k - 1) + k = i + 1
        BY <1>7, <2>2
      <3>2. (a \o b)[i] = b[i - (k - 1)]
        <4>1. i \in 1 .. Len(a) + Len(b) /\ ~(i <= Len(a)) /\ i - Len(a) = i - (k - 1)
          BY <1>7, <2>2
        <4> QED BY <1>6, <4>1
      <3>3. b[i - (k - 1)] = s[i + 1]
        BY <1>5, <3>1
      <3> QED BY <1>7, <2>2, <3>2, <3>3
    <2> QED BY <1>7, <2>1, <2>2
  <1>9. Once(a \o b) /\ Elems(a \o b) = Elems(s) \ {s[k]}
    <2> DEFINE w == a \o b
    <2>1. w \in Seq(Nat) /\ Len(w) = Len(s) - 1
      BY <1>6, <1>7
    <2>2. \A i \in 1 .. Len(s) - 1 : w[i] = IF i < k THEN s[i] ELSE s[i + 1]
      BY <1>8
    <2> HIDE DEF w
    <2>3. Once(w) /\ Elems(w) = Elems(s) \ {s[k]}
      BY <2>1, <2>2, OneLess
    <2> QED BY <2>3 DEF w
  <1> QED BY <1>1, <1>3, <1>6, <1>9

\* What is settled leaves its table.
LEMMA Settled ==
    ASSUME NEW ps, NEW cs, NEW pings, NEW reads, Kept(ps, cs, pings, reads), NEW ids,
           NEW how \in Fates \ {"pending"}
    PROVE  LET qs == T!Settle(ps, ids, how)
           IN  /\ Kept(qs, cs \ ids, pings \ ids, reads \ ids)
               /\ DOMAIN qs = DOMAIN ps /\ \A id \in DOMAIN ps : qs[id].kind = ps[id].kind
  <1> DEFINE qs == T!Settle(ps, ids, how)
  <1>1. qs = [i \in DOMAIN ps |-> IF i \in ids THEN [ps[i] EXCEPT !.is = how] ELSE ps[i]]
    BY DEF T!Settle
  <1>2. ps \in Seq(OfPromise) /\ DOMAIN ps = 1 .. Len(ps) /\ Len(ps) \in Nat
    BY DEF Kept
  <1> HIDE DEF qs
  <1>3. ASSUME NEW i \in DOMAIN ps
        PROVE  /\ qs[i] \in OfPromise /\ qs[i].kind = ps[i].kind
               /\ qs[i].is = IF i \in ids THEN how ELSE ps[i].is
    <2>1. ps[i] \in OfPromise
      BY <1>2
    <2> QED BY <1>1, <2>1 DEF OfPromise
  <1>4. qs \in Seq(OfPromise) /\ DOMAIN qs = DOMAIN ps
    BY <1>1, <1>2, <1>3
  <1>5. Kept(qs, cs \ ids, pings \ ids, reads \ ids)
    BY <1>3, <1>4 DEF Kept
  <1> QED BY <1>3, <1>4, <1>5 DEF qs

\* A promise that is made waits in its table, if it waits.
LEMMA Promised ==
    ASSUME NEW ps, NEW cs, NEW pings, NEW reads, Kept(ps, cs, pings, reads),
           NEW kind \in Kinds, NEW is \in Fates, NEW mine,
           mine = IF is = "pending" THEN {Len(ps) + 1} ELSE {}
    PROVE  LET qs == Append(ps, [kind |-> kind, is |-> is])
           IN  /\ Len(ps) + 1 \in Nat /\ Len(ps) + 1 \notin DOMAIN ps
               /\ kind \in T!CallKinds => Kept(qs, cs \cup mine, pings, reads)
               /\ kind = "ping" => Kept(qs, cs, pings \cup mine, reads)
               /\ kind \in FrameKinds => Kept(qs, cs, pings, reads \cup mine)
  <1> DEFINE qs == Append(ps, [kind |-> kind, is |-> is])
             n == Len(ps) + 1
  <1>1. ps \in Seq(OfPromise) /\ DOMAIN ps = 1 .. Len(ps) /\ Len(ps) \in Nat
    BY DEF Kept
  <1>2. [kind |-> kind, is |-> is] \in OfPromise
    BY DEF OfPromise
  <1>3. /\ qs \in Seq(OfPromise) /\ DOMAIN qs = DOMAIN ps \cup {n} /\ n \notin DOMAIN ps
            /\ n \in Nat
        /\ \A i \in DOMAIN ps : qs[i] = ps[i]
        /\ qs[n].kind = kind /\ qs[n].is = is
    BY <1>1, <1>2
  <1> HIDE DEF qs, n
  <1>4. mine = IF is = "pending" THEN {n} ELSE {}
    BY DEF n
  <1>5. ASSUME NEW c \in SUBSET {n}, NEW p \in SUBSET {n}, NEW f \in SUBSET {n},
     c \cup p \cup f = mine,
               c # {} => kind \in T!CallKinds, p # {} => kind = "ping", f # {} => kind \in FrameKinds
        PROVE  Kept(qs, cs \cup c, pings \cup p, reads \cup f)
    <2>1. /\ cs \cup c \subseteq DOMAIN qs /\ \A id \in cs \cup c : qs[id].kind \in T!CallKinds
          /\ pings \cup p \subseteq DOMAIN qs /\ \A id \in pings \cup p : qs[id].kind = "ping"
          /\ reads \cup f \subseteq DOMAIN qs /\ \A id \in reads \cup f : qs[id].kind \in FrameKinds
      BY <1>3, <1>5 DEF Kept
    <2>2. ASSUME NEW id \in DOMAIN qs
          PROVE  qs[id].is = "pending" <=> id \in (cs \cup c) \cup (pings \cup p) \cup (reads \cup f)
      <3>1. CASE id = n
        BY <1>3, <1>4, <1>5, <3>1 DEF Kept
      <3>2. CASE id # n
        BY <1>3, <1>4, <1>5, <3>2 DEF Kept
      <3> QED BY <3>1, <3>2
    <2> QED BY <1>3, <2>1, <2>2 DEF Kept
  <1>6. mine \subseteq {n}
    BY <1>4
  <1>7. /\ kind \in T!CallKinds => Kept(qs, cs \cup mine, pings \cup {}, reads \cup {})
        /\ kind = "ping" => Kept(qs, cs \cup {}, pings \cup mine, reads \cup {})
        /\ kind \in FrameKinds => Kept(qs, cs \cup {}, pings \cup {}, reads \cup mine)
    BY <1>5, <1>6
  <1>8. cs \cup {} = cs /\ pings \cup {} = pings /\ reads \cup {} = reads
    OBVIOUS
  <1> QED BY <1>3, <1>7, <1>8 DEF qs, n

\* A reader that is cleared is settled.
LEMMA ClearedIs ==
    ASSUME NEW ps, NEW cs, NEW pings, Kept(ps, cs, pings, Elems(readers))
    PROVE  LET qs == T!Cleared(ps)
           IN  /\ Kept(qs, cs, pings, {})
               /\ DOMAIN qs = DOMAIN ps /\ \A id \in DOMAIN ps : qs[id].kind = ps[id].kind
  <1>1. T!Cleared(ps) = T!Settle(ps, Elems(readers), "none")
    BY DEF T!Cleared, T!ToSet, Elems
  <1>2. cs \ Elems(readers) = cs /\ pings \ Elems(readers) = pings
    BY DEF Kept, T!CallKinds, FrameKinds
  <1>3. Elems(readers) \ Elems(readers) = {} /\ "none" \in Fates \ {"pending"}
    BY DEF Fates
  <1> HIDE DEF Kept
  <1> QED BY <1>1, <1>2, <1>3, Settled

\* The end of the session settles all who wait.
LEMMA FailInv == ASSUME TsInv, T!Fail PROVE Kept(promises', {}, {}, {})
  <1> DEFINE ids == calls \cup Elems(pongWaiters)
  <1>1. Kept(T!Cleared(promises), calls, Elems(pongWaiters), {})
    BY ClearedIs DEF TsInv
  <1>2. promises' = T!Settle(T!Cleared(promises), ids, "failed")
    BY DEF T!Fail, T!Broken, T!ToSet, Elems
  <1>3. "failed" \in Fates \ {"pending"}
    BY DEF Fates
  <1>4. Kept(promises', calls \ ids, Elems(pongWaiters) \ ids, {} \ ids)
    BY <1>1, <1>2, <1>3, Settled
  <1>5. calls \ ids = {} /\ Elems(pongWaiters) \ ids = {} /\ {} \ ids = {}
    OBVIOUS
  <1> QED BY <1>4, <1>5

\* A call that ends takes the readers with it, if it was a stop.
LEMMA CallEnds ==
    ASSUME TsInv, NEW id \in calls, NEW how \in Fates \ {"pending"},
           promises' = T!Ends(id, T!Settle(promises, {id}, how)), calls' = calls \ {id}, T!Stops(id),
           UNCHANGED <<sock, connecting, deadline, pongWaiters, over>>
    PROVE  TsInv'
  <1> DEFINE ps == T!Settle(promises, {id}, how)
  <1>0. id \in DOMAIN promises
    BY DEF TsInv, Kept
  <1>1. /\ Kept(ps, calls \ {id}, Elems(pongWaiters) \ {id}, Elems(readers) \ {id})
        /\ ps[id].kind = promises[id].kind
    BY <1>0, Settled DEF TsInv
  <1>2. Elems(pongWaiters) \ {id} = Elems(pongWaiters) /\ Elems(readers) \ {id} = Elems(readers)
    BY DEF TsInv, Kept, T!CallKinds, FrameKinds
  <1>3. Kept(ps, calls \ {id}, Elems(pongWaiters), Elems(readers))
    BY <1>1, <1>2
  <1> HIDE DEF ps
  <1>4. connecting = "connected" /\ ~over /\ sock = "open"
    BY WaitsOpen
  <1>5. CASE promises[id].kind = "stop"
    <2>1. promises' = T!Cleared(ps) /\ queued' = <<>> /\ readers' = <<>>
      BY <1>1, <1>5 DEF T!Ends, T!Stops, ps
    <2>2. Kept(promises', calls \ {id}, Elems(pongWaiters), {})
      BY <1>3, <2>1, ClearedIs
    <2> QED BY <1>4, <2>1, <2>2, NobodyInEmpty DEF TsInv, TsTyping, TsOver, T!NoSocketLeft
  <1>6. CASE promises[id].kind # "stop"
    <2>1. promises' = ps /\ UNCHANGED <<queued, readers>>
      BY <1>1, <1>6 DEF T!Ends, T!Stops, ps
    <2> QED BY <1>3, <1>4, <2>1 DEF TsInv, TsTyping, TsOver, T!NoSocketLeft
  <1> QED BY <1>5, <1>6

\* A promise is made.
LEMMA RequestInv == ASSUME TsInv, NEW kind \in T!CallKinds, T!Request(kind) PROVE TsInv'
  <1>1. /\ UNCHANGED <<sock, connecting, deadline, pongWaiters, over>>
        /\ calls' = calls \cup {Len(promises) + 1} /\ connecting = "connected" /\ ~over
            /\ sock = "open"
    BY DEF T!Request, T!Usable, T!New
  <1>2. kind \in Kinds /\ "pending" \in Fates
    BY DEF T!CallKinds, Kinds, Fates
  <1>3. Elems(<<>>) = {} /\ Once(<<>>) /\ <<>> \in Seq(Nat)
    BY DEF Elems, Once
  <1>4. CASE kind = "start"
    <2> DEFINE ps == T!Cleared(promises)
    <2>1. promises' = Append(ps, [kind |-> kind, is |-> "pending"]) /\ queued' = <<>>
            /\ readers' = <<>>
      BY <1>4 DEF T!Request
    <2>2. Kept(ps, calls, Elems(pongWaiters), {}) /\ DOMAIN ps = DOMAIN promises
      BY ClearedIs DEF TsInv
    <2> HIDE DEF ps
    <2>3. Len(ps) = Len(promises)
      BY <2>2 DEF TsInv, Kept
    <2>4. Kept(promises', calls \cup {Len(ps) + 1}, Elems(pongWaiters), {})
      BY <1>2, <2>1, <2>2, Promised
    <2> QED BY <1>1, <1>3, <2>1, <2>3, <2>4 DEF TsInv, TsTyping, TsOver, T!NoSocketLeft
  <1>5. CASE kind # "start"
    <2>1. promises' = Append(promises, [kind |-> kind, is |-> "pending"])
            /\ UNCHANGED <<queued, readers>>
      BY <1>5 DEF T!Request, T!Promise
    <2>2. Kept(promises', calls', Elems(pongWaiters), Elems(readers))
      BY <1>1, <1>2, <2>1, Promised DEF TsInv
    <2> QED BY <1>1, <2>1, <2>2 DEF TsInv, TsTyping, TsOver, T!NoSocketLeft
  <1> QED BY <1>4, <1>5

\* A promise that is rejected at once waits nowhere.
LEMMA RejectedInv == ASSUME TsInv, NEW kind, T!Rejected(kind) PROVE TsInv'
  <1>1. /\ UNCHANGED <<sock, connecting, deadline, calls, pongWaiters, queued, readers, over>>
        /\ promises' = Append(promises, [kind |-> kind, is |-> "failed"])
            /\ connecting = "connected"
        /\ kind \in T!CallKinds \cup {"ping"} /\ kind \in Kinds /\ "failed" \in Fates
    BY DEF T!Rejected, T!Usable, T!Promise, T!CallKinds, Kinds, Fates
  <1>2. calls \cup {} = calls /\ Elems(pongWaiters) \cup {} = Elems(pongWaiters)
        /\ {} = IF "failed" = "pending" THEN {Len(promises) + 1} ELSE {}
    OBVIOUS
  <1>3. /\ kind \in T!CallKinds => Kept(promises', calls \cup {}, Elems(pongWaiters), Elems(readers))
        /\ kind = "ping" => Kept(promises', calls, Elems(pongWaiters) \cup {}, Elems(readers))
    BY <1>1, <1>2, Promised DEF TsInv
  <1>4. Kept(promises', calls, Elems(pongWaiters), Elems(readers))
    BY <1>1, <1>2, <1>3
  <1> QED BY <1>1, <1>4 DEF TsInv, TsTyping, TsOver, T!NoSocketLeft

\* A ping waits for its pong.
LEMMA PingInv == ASSUME TsInv, T!Ping PROVE TsInv'
  <1> DEFINE n == Len(promises) + 1
  <1>1. /\ UNCHANGED <<sock, connecting, deadline, calls, queued, readers, over>>
        /\ promises' = Append(promises, [kind |-> "ping", is |-> "pending"])
        /\ pongWaiters' = Append(pongWaiters, n)
        /\ connecting = "connected" /\ ~over /\ sock = "open" /\ "ping" \in Kinds
            /\ "pending" \in Fates
    BY DEF T!Ping, T!Usable, T!Promise, T!New, Kinds, Fates
  <1>2. /\ n \in Nat /\ n \notin DOMAIN promises
        /\ Kept(promises', calls, Elems(pongWaiters) \cup {n}, Elems(readers))
    BY <1>1, Promised DEF TsInv
  <1>3. pongWaiters' \in Seq(Nat) /\ Once(pongWaiters')
          /\ Elems(pongWaiters') = Elems(pongWaiters) \cup {n}
    BY <1>1, <1>2, OneMore DEF TsInv, TsTyping, Kept
  <1> QED BY <1>1, <1>2, <1>3 DEF TsInv, TsTyping, TsOver, T!NoSocketLeft

\* A reader has its frame, or waits for one if there is none.
LEMMA NextFrameInv == ASSUME TsInv, NEW kind \in FrameKinds, T!NextFrame(kind) PROVE TsInv'
  <1> DEFINE n == Len(promises) + 1
  <1>1. /\ UNCHANGED <<sock, connecting, deadline, calls, pongWaiters, over>>
            /\ connecting = "connected"
        /\ kind \in Kinds /\ {"pending", "frame", "none"} \subseteq Fates
        /\ Elems(readers) \cup {} = Elems(readers)
    BY DEF T!NextFrame, T!Usable, Kinds, FrameKinds, Fates
  <1>2. CASE \E is \in {"frame", "none"} :
                /\ promises' = Append(promises, [kind |-> kind, is |-> is]) /\ UNCHANGED readers
                /\ queued # <<>> \/ queued' = queued
                /\ is = "frame" => queued # <<>> /\ queued' = Tail(queued)
    <2>0. PICK is \in {"frame", "none"} : promises' = Append(promises, [kind |-> kind, is |-> is])
      BY <1>2
    <2>2. {} = IF is = "pending" THEN {Len(promises) + 1} ELSE {}
      OBVIOUS
    <2>1. Kept(promises', calls, Elems(pongWaiters), Elems(readers))
      <3>1. Kept(promises', calls, Elems(pongWaiters), Elems(readers) \cup {})
        BY <1>1, <2>0, <2>2, Promised DEF TsInv
      <3> QED BY <1>1, <3>1
    <2> QED BY <1>1, <1>2, <2>1 DEF TsInv, TsTyping, TsOver, T!NoSocketLeft
  <1>3. CASE /\ queued = <<>> /\ ~over /\ UNCHANGED queued
             /\ promises' = Append(promises, [kind |-> kind, is |-> "pending"])
             /\ readers' = Append(readers, n)
    <2>1. /\ n \in Nat /\ n \notin DOMAIN promises
          /\ Kept(promises', calls, Elems(pongWaiters), Elems(readers) \cup {n})
      BY <1>1, <1>3, Promised DEF TsInv
    <2>2. readers' \in Seq(Nat) /\ Once(readers') /\ Elems(readers') = Elems(readers) \cup {n}
      BY <1>3, <2>1, OneMore DEF TsInv, TsTyping, Kept
    <2> QED BY <1>1, <1>3, <2>1, <2>2 DEF TsInv, TsTyping, TsOver, T!NoSocketLeft
  <1> QED BY <1>2, <1>3 DEF T!NextFrame, T!Promise, T!New

\* Who waits in a queue is settled.
LEMMA WaiterEnds ==
    ASSUME TsInv, NEW id, NEW how \in Fates \ {"pending"}, promises' = T!Settle(promises, {id}, how),
           UNCHANGED <<sock, connecting, deadline, calls, queued, over>>,
           NEW ping \in BOOLEAN,
           IF ping THEN /\ id \in Elems(pongWaiters) /\ pongWaiters' \in Seq(Nat)
             /\ Once(pongWaiters')
                        /\ Elems(pongWaiters') = Elems(pongWaiters) \ {id} /\ readers' = readers
           ELSE /\ id \in Elems(readers) /\ readers' \in Seq(Nat) /\ Once(readers')
                /\ Elems(readers') = Elems(readers) \ {id} /\ pongWaiters' = pongWaiters
    PROVE  TsInv'
  <1>1. Kept(promises', calls \ {id}, Elems(pongWaiters) \ {id}, Elems(readers) \ {id})
    BY Settled DEF TsInv
  <1>2. calls \ {id} = calls /\ Elems(pongWaiters') = Elems(pongWaiters) \ {id}
        /\ Elems(readers') = Elems(readers) \ {id}
    BY DEF TsInv, Kept, T!CallKinds, FrameKinds
  <1>3. ~over /\ connecting = "connected" /\ sock = "open"
    BY WaitsOpen
  <1>4. queued = <<>> \/ readers' = readers
    BY NobodyInEmpty DEF TsInv, TsOver
  <1>5. queued' = <<>> \/ readers' = <<>>
    BY <1>4 DEF TsInv, TsOver
  <1> QED BY <1>1, <1>2, <1>3, <1>5 DEF TsInv, TsTyping, TsOver, T!NoSocketLeft

\* The timer of a promise settles it.
LEMMA TimeoutInv == ASSUME TsInv, NEW id \in DOMAIN promises, T!Timeout(id) PROVE TsInv'
  <1>1. /\ UNCHANGED <<sock, connecting, deadline, over>>
            /\ {"failed", "none"} \subseteq Fates \ {"pending"}
        /\ T!ToSet(pongWaiters) = Elems(pongWaiters) /\ T!ToSet(readers) = Elems(readers)
    BY DEF T!Timeout, Fates, T!ToSet, Elems
  <1>2. CASE /\ id \in calls /\ calls' = calls \ {id} /\ T!Stops(id) /\ UNCHANGED pongWaiters
             /\ promises' = T!Ends(id, T!Settle(promises, {id}, "failed"))
    BY <1>1, <1>2, CallEnds
  <1>3. CASE /\ id \in Elems(pongWaiters) /\ pongWaiters' = T!RemoveFirst(pongWaiters, id)
             /\ promises' = T!Settle(promises, {id}, "failed")
                 /\ UNCHANGED <<calls, queued, readers>>
    BY <1>1, <1>3, OneTaken, WaiterEnds DEF TsInv, TsTyping
  <1>4. CASE /\ id \in Elems(readers) /\ readers' = T!RemoveFirst(readers, id)
             /\ promises' = T!Settle(promises, {id}, "none")
                 /\ UNCHANGED <<calls, pongWaiters, queued>>
    BY <1>1, <1>4, OneTaken, WaiterEnds DEF TsInv, TsTyping
  <1> QED BY <1>1, <1>2, <1>3, <1>4 DEF T!Timeout

\* A message settles who waits for it.
LEMMA FeedInv == ASSUME TsInv, T!Feed PROVE TsInv'
  <1> DEFINE msg == Head(inbox)
  <1>1. /\ UNCHANGED <<sock, connecting, deadline, over>>
            /\ {"ok", "frame"} \subseteq Fates \ {"pending"}
        /\ connecting = "connected" /\ sock = "open"
    BY DEF T!Feed, Fates
  <1>2. CASE UNCHANGED <<promises, calls, pongWaiters, queued, readers>>
    BY <1>1, <1>2 DEF TsInv, TsTyping, TsOver, T!NoSocketLeft
  <1>3. CASE /\ msg.id \in calls /\ calls' = calls \ {msg.id}
             /\ promises' = T!Ends(msg.id, T!Settle(promises, {msg.id}, "ok"))
             /\ T!Stops(msg.id) /\ UNCHANGED pongWaiters
    BY <1>1, <1>3, CallEnds
  <1>4. CASE /\ pongWaiters # <<>> /\ promises' = T!Settle(promises, {Head(pongWaiters)}, "ok")
             /\ pongWaiters' = Tail(pongWaiters) /\ UNCHANGED <<calls, queued, readers>>
    BY <1>1, <1>4, FirstTaken, WaiterEnds DEF TsInv, TsTyping
  <1>5. CASE /\ readers # <<>> /\ promises' = T!Settle(promises, {Head(readers)}, "frame")
             /\ readers' = Tail(readers) /\ UNCHANGED <<queued, calls, pongWaiters>>
    BY <1>1, <1>5, FirstTaken, WaiterEnds DEF TsInv, TsTyping
  <1>6. CASE /\ ~over /\ readers = <<>> /\ UNCHANGED <<readers, promises, calls, pongWaiters>>
    BY <1>1, <1>6 DEF TsInv, TsTyping, TsOver, T!NoSocketLeft
  <1> QED BY <1>2, <1>3, <1>4, <1>5, <1>6 DEF T!Feed

\* Every step of the client keeps its promises.
LEMMA TsNextInv == ASSUME TsInv, [T!TsNext]_typescriptVars PROVE TsInv'
  <1> DEFINE mine == <<promises, calls, pongWaiters, queued, readers, over>>
  <1>1. CASE /\ UNCHANGED mine
             /\ \/ UNCHANGED <<sock, connecting, deadline>>
                \/ sock = "connecting" /\ sock' = "open" /\ UNCHANGED <<connecting, deadline>>
                \/ connecting = "pending" /\ T!FailHandshake
                \/ /\ connecting = "pending" /\ sock = "open" /\ connecting' = "connected"
                   /\ deadline' = FALSE /\ UNCHANGED sock
                \/ /\ connecting # "connected" \/ over
                   /\ sock' = "closed" /\ UNCHANGED <<connecting, deadline>>
    <2>1. Kept(promises', calls', Elems(pongWaiters'), Elems(readers'))
      BY <1>1 DEF TsInv
    <2>2. /\ sock' \in {"connecting", "open", "closed"}
          /\ connecting' \in {"pending", "connected", "rejected"}
          /\ deadline' = deadline \/ deadline' = FALSE
      BY <1>1 DEF TsInv, TsTyping, T!FailHandshake, T!ClosesSocket
    <2>4. connecting' = "rejected" => sock' = "closed" /\ deadline' = FALSE
      <3>1. connecting = "rejected" => sock = "closed" /\ deadline = FALSE
        BY DEF TsInv, TsTyping, T!NoSocketLeft
      <3> QED BY <1>1, <3>1 DEF T!FailHandshake, T!ClosesSocket
    <2>5. deadline' \in BOOLEAN /\ T!NoSocketLeft'
      BY <2>2, <2>4 DEF TsInv, TsTyping, T!NoSocketLeft
    <2>3. /\ connecting' # "connected" => connecting # "connected"
          /\ connecting' = "connected" => sock' # "connecting" /\ (sock' = "closed" => over)
      BY <1>1 DEF TsInv, TsTyping, TsOver, T!FailHandshake, T!ClosesSocket
    <2> QED BY <1>1, <2>1, <2>2, <2>3, <2>5 DEF TsInv, TsTyping, TsOver
  <1>2. CASE T!Fail /\ connecting = "connected" /\ sock' = "closed" /\ UNCHANGED <<connecting,
     deadline>>
    <2>1. over' = TRUE /\ calls' = {} /\ pongWaiters' = <<>> /\ queued' = <<>> /\ readers' = <<>>
      BY <1>2 DEF T!Fail
    <2> QED BY <1>2, <2>1, FailInv, NobodyInEmpty DEF TsInv, TsTyping, TsOver, T!NoSocketLeft
  <1>3. CASE T!Opened \/ T!HandshakeTimeout \/ T!FirstMessage \/ T!Serve \/ T!Push
               \/ UNCHANGED typescriptVars
    BY <1>1, <1>3 DEF T!Opened, T!HandshakeTimeout, T!FirstMessage, T!BadWelcome, T!FailHandshake,
       T!ClosesSocket, T!Serve, T!Push, typescriptVars
  <1>4. CASE T!Close
    BY <1>2, <1>4 DEF T!Close
  <1>5. CASE T!SocketFails
    <2>1. CASE connecting = "pending"
      BY <1>1, <1>5, <2>1 DEF T!SocketFails, T!FailHandshake, T!ClosesSocket
    <2>2. CASE connecting = "connected" /\ ~over
      BY <1>2, <1>5, <2>2 DEF T!SocketFails
    <2>3. CASE connecting # "pending" /\ (connecting # "connected" \/ over)
      BY <1>1, <1>5, <2>3 DEF T!SocketFails
    <2> QED BY <2>1, <2>2, <2>3
  <1>6. CASE \E id \in DOMAIN promises : T!Timeout(id)
    BY <1>6, TimeoutInv
  <1>7. ASSUME NEW kind \in T!CallKinds \cup {"ping"}, T!Rejected(kind) \/ T!Request(kind)
          PROVE TsInv'
    <2>1. CASE T!Rejected(kind)
      BY <2>1, RejectedInv
    <2>2. CASE T!Request(kind)
      <3>1. kind \in T!CallKinds
        BY <2>2 DEF T!Request
      <3> QED BY <2>2, <3>1, RequestInv
    <2> QED BY <1>7, <2>1, <2>2
  <1>8. CASE \E kind \in {"frame", "frame in time"} : T!NextFrame(kind)
    BY <1>8, NextFrameInv DEF FrameKinds
  <1>9. CASE T!Ping \/ T!Feed
    BY <1>9, PingInv, FeedInv
  <1> HIDE DEF TsInv
  <1> QED BY <1>3, <1>4, <1>5, <1>6, <1>7, <1>8, <1>9 DEF T!TsNext, T!Timers

\* Nobody waits before there is a client.
LEMMA TsInitInv == T!TsInit => TsInv
  BY NobodyInEmpty DEF T!TsInit, TsInv, TsTyping, TsOver, T!NoSocketLeft

\* TsSound from its invariant.
LEMMA TsInvSound == TsInv => T!TsSound
  <1> SUFFICES ASSUME TsInv PROVE T!TsSound
    OBVIOUS
  <1> DEFINE P == Elems(pongWaiters)
             R == Elems(readers)
             homes(id) == {h \in {calls, P, R} : id \in h}
  <1>1. T!ToSet(pongWaiters) = P /\ T!ToSet(readers) = R
    BY DEF T!ToSet, Elems
  <1>2. ASSUME NEW id \in DOMAIN promises
        PROVE  Cardinality(homes(id)) = IF promises[id].is = "pending" THEN 1 ELSE 0
    <2>1. /\ promises[id].is = "pending" <=> id \in calls \cup P \cup R
          /\ id \in calls => id \notin P /\ id \notin R
          /\ id \in P => id \notin R
      BY DEF TsInv, Kept, T!CallKinds, FrameKinds
    <2>2. CASE promises[id].is = "pending"
      <3>1. \E h : homes(id) = {h}
        BY <2>1, <2>2
      <3> QED BY <2>2, <3>1, FS_Singleton
    <2>3. CASE promises[id].is # "pending"
      <3>1. homes(id) = {}
        BY <2>1, <2>3
      <3> QED BY <2>3, <3>1, FS_EmptySet
    <2> QED BY <2>2, <2>3
  <1>3. \A x : T!Cardinality(x) = Cardinality(x)
    BY DEF T!Cardinality, T!IsFiniteSet, Cardinality, IsFiniteSet
  <1>4. sock = "closed" => calls = {} /\ pongWaiters = <<>> /\ readers = <<>> /\ queued = <<>>
    <2>1. CASE connecting = "connected"
      BY <2>1 DEF TsInv, TsOver
    <2>2. CASE connecting # "connected"
      <3>1. calls = {} /\ Elems(pongWaiters) = {}
        BY <2>2, NobodyInEmpty DEF TsInv, TsOver, Kept
      <3>2. pongWaiters = <<>>
        BY <3>1 DEF Elems, TsInv, TsTyping
      <3> QED BY <2>2, <3>1, <3>2 DEF TsInv, TsOver
    <2> QED BY <2>1, <2>2
  <1>5. T!PromisesAreKept
    BY <1>1, <1>2, <1>3, <1>4 DEF TsInv, TsOver, T!PromisesAreKept
  <1> QED BY <1>5 DEF TsInv, T!TsSound

--------------------------------------------------------------------------------
(* The fleet and its loop (Fleets).                                              *)

LoopPhases == {"running", "draining", "drained", "stopped"}
Blocking == [pc : {"idle", "tested", "scheduled", "done", "parked"},
             kind : {"none", "call", "close", "destroy"}, of : Nat]

FleetTyping ==
    /\ ownLoop \in BOOLEAN /\ failed \in BOOLEAN
    /\ bg \in [closed : BOOLEAN, phase : LoopPhases] /\ (bg.closed <=> bg.phase # "running")
    /\ sub \in [Replicas -> {"none", "live", "gone", "stuck"}]
    /\ env \in [Replicas -> {"none", "open", "closed"}]
    /\ op \in [Threads \cup {Owner} -> Blocking]
    /\ worker \in [Replicas -> {"restoring", "connecting", "raised", "connected", "destroyed"}]
    /\ fleet \in {"spawning", "cleaning", "open", "closing", "raised", "closed"}

\* Where a replica is, by what became of its worker.  One that is destroyed is live for as
\* long as the owner's destroy of it is under way.
Owned(r) ==
    /\ worker[r] \in {"restoring", "connecting", "raised"} => env[r] = "none"
    /\ worker[r] \in {"restoring", "raised"} => sub[r] # "live"
    /\ worker[r] = "connected" => env[r] # "none"
    /\ worker[r] = "destroyed" =>
          /\ env[r] = "closed"
          /\ sub[r] = "live" => op[Owner].pc # "idle" /\ op[Owner].kind = "destroy"
              /\ op[Owner].of = r

\* The owner blocks in its cleaning and its closing alone; a fleet that is done has no member.
Phased ==
    /\ \A r \in Replicas :
          IF fleet = "spawning" THEN worker[r] # "destroyed"
          ELSE worker[r] \in {"connected", "raised", "destroyed"}
    /\ fleet \notin {"cleaning", "closing"} => op[Owner].pc = "idle"
    /\ fleet \in {"raised", "closed"} => Members = {}

\* Members that are used inside the life of the fleet: no thread is in a call while the owner
\* destroys them, and none is on its way to a loop that is closed.
Unparked ==
    ~Concurrent =>
        /\ fleet \in {"spawning", "cleaning", "closing"} => \A t \in Threads : op[t].pc = "idle"
        /\ bg.closed => \A t \in Threads \cup {Owner} : op[t].pc \in {"idle", "done"}
        /\ NobodyParked

FleetInv == FleetTyping /\ (\A r \in Replicas : Owned(r)) /\ Phased /\ Unparked

\* The owner is none of the threads, and a replica is a number.
LEMMA OwnerIsNoThread == Owner \notin Threads /\ Owner \in Threads \cup {Owner}
        /\ Replicas \subseteq Nat
  BY FleetAssumption DEF Owner

\* What a destroy leaves of its replica, and of no other.
LEMMA ReclaimedIs ==
    ASSUME sub \in [Replicas -> {"none", "live", "gone", "stuck"}], NEW q, NEW s \in Reclaimed(q)
    PROVE  /\ s \in [Replicas -> {"none", "live", "gone", "stuck"}]
           /\ \A r \in Replicas : IF r = q THEN s[r] # "live" ELSE s[r] = sub[r]
  BY DEF Reclaimed

\* A call of a thread gets a step further, and nothing of the fleet changes.
LEMMA CallMoves ==
    ASSUME FleetInv, NEW t \in Threads \cup {Owner}, NEW pc2 \in {"tested", "scheduled",
      "done", "parked"},
           op[t].pc # "idle", op' = [op EXCEPT ![t].pc = pc2],
           ~Concurrent => (bg.closed => pc2 = "done") /\ pc2 # "parked",
           UNCHANGED <<ownLoop, bg, sub, env, worker, fleet, failed>>
    PROVE  FleetInv'
  <1>1. /\ op' \in [Threads \cup {Owner} -> Blocking]
        /\ \A x \in Threads \cup {Owner} :
              /\ op'[x].kind = op[x].kind /\ op'[x].of = op[x].of
              /\ op'[x].pc = IF x = t THEN pc2 ELSE op[x].pc
    BY DEF FleetInv, FleetTyping, Blocking
  <1>2. FleetTyping'
    BY <1>1 DEF FleetInv, FleetTyping
  <1>3. \A r \in Replicas : Owned(r)'
    BY <1>1, OwnerIsNoThread DEF FleetInv, Owned
  <1>4. Phased'
    BY <1>1, OwnerIsNoThread DEF FleetInv, Phased, Members
  <1>5. Unparked'
    BY <1>1 DEF FleetInv, Unparked, NobodyParked, FleetTyping
  <1> QED BY <1>2, <1>3, <1>4, <1>5 DEF FleetInv

\* A coroutine is scheduled, and completes.
LEMMA ScheduleInv == ASSUME FleetInv, NEW t \in Threads \cup {Owner}, Schedule(t) PROVE FleetInv'
  <1>1. ~Concurrent => ~bg.closed /\ bg.phase = "running"
    BY DEF FleetInv, FleetTyping, Unparked, Schedule
  <1> QED BY <1>1, CallMoves DEF Schedule

LEMMA CompleteInv == ASSUME FleetInv, NEW t \in Threads \cup {Owner}, Complete(t) PROVE FleetInv'
  BY CallMoves DEF Complete

\* The loop stops, or goes on to.
LEMMA LoopInv == ASSUME FleetInv, Drain \/ EndThread PROVE FleetInv'
  <1>1. /\ op' \in [Threads \cup {Owner} -> Blocking]
        /\ \A x \in Threads \cup {Owner} :
              /\ op'[x].kind = op[x].kind /\ op'[x].of = op[x].of
              /\ op[x].pc # "scheduled" => op'[x].pc = op[x].pc
              /\ op[x].pc = "scheduled" => op'[x].pc \in {"done", "parked"}
    BY DEF FleetInv, FleetTyping, Blocking, Drain, EndThread, Parked
  <1>2. bg' \in [closed : BOOLEAN,
     phase : LoopPhases] /\ bg.closed /\ bg'.closed /\ bg'.phase # "running"
    BY DEF FleetInv, FleetTyping, Drain, EndThread, LoopPhases
  <1>3. UNCHANGED <<ownLoop, sub, env, worker, fleet, failed>>
    BY DEF Drain, EndThread
  <1>4. FleetTyping'
    BY <1>1, <1>2, <1>3 DEF FleetInv, FleetTyping
  <1>5. \A r \in Replicas : Owned(r)'
    BY <1>1, <1>3, OwnerIsNoThread DEF FleetInv, Owned
  <1>6. Phased'
    BY <1>1, <1>3, OwnerIsNoThread DEF FleetInv, Phased, Members
  <1>7. Unparked'
    BY <1>1, <1>2, <1>3 DEF FleetInv, Unparked, NobodyParked, FleetTyping
  <1> QED BY <1>4, <1>5, <1>6, <1>7 DEF FleetInv

\* A thread begins a call on a member: one that may be scheduled, or one that is over at once.
LEMMA CallBegins ==
    ASSUME FleetInv, NEW t \in Threads, NEW c \in Blocking, c.pc \in {"tested", "done"}, Used,
           op' = [op EXCEPT ![t] = c], bg.closed => c.pc = "done",
           env' \in [Replicas -> {"none", "open", "closed"}],
           \A r \in Replicas : env'[r] = env[r] \/ (env[r] # "none" /\ env'[r] = "closed"),
           UNCHANGED <<ownLoop, bg, sub, worker, fleet, failed>>
    PROVE  FleetInv'
  <1>1. /\ op' \in [Threads \cup {Owner} -> Blocking] /\ op'[Owner] = op[Owner]
        /\ \A x \in Threads \cup {Owner} : op'[x] = IF x = t THEN c ELSE op[x]
    BY OwnerIsNoThread DEF FleetInv, FleetTyping
  <1>2. FleetTyping'
    BY <1>1 DEF FleetInv, FleetTyping
  <1>3. \A r \in Replicas : Owned(r)'
    BY <1>1, <1>2 DEF FleetInv, Owned
  <1>4. Phased'
    BY <1>1 DEF FleetInv, Phased, Members
  <1>5. Unparked'
    BY <1>1 DEF FleetInv, Unparked, NobodyParked, FleetTyping, Used
  <1> QED BY <1>2, <1>3, <1>4, <1>5 DEF FleetInv

\* A thread uses, closes or destroys a member.
LEMMA MemberInv ==
    ASSUME FleetInv, NEW t \in Threads, NEW r \in Replicas,
           Call(t, r) \/ CloseMember(t, r) \/ DestroyMember(t, r)
    PROVE  FleetInv'
  <1>1. CASE Call(t, r)
    <2> DEFINE c == [pc |-> "tested", kind |-> "call", of |-> r]
    <2>1. c \in Blocking /\ ~bg.closed /\ c.pc = "tested" /\ op' = [op EXCEPT ![t] = c]
      BY <1>1, OwnerIsNoThread DEF Call, Accepts, Blocking
    <2>2. Used /\ UNCHANGED <<ownLoop, bg, sub, env, worker, fleet, failed>>
      BY <1>1 DEF Call
    <2>3. /\ env' \in [Replicas -> {"none", "open", "closed"}]
          /\ \A q \in Replicas : env'[q] = env[q] \/ (env[q] # "none" /\ env'[q] = "closed")
      BY <2>2 DEF FleetInv, FleetTyping
    <2>4. c.pc \in {"tested", "done"} /\ (bg.closed => c.pc = "done")
      BY <2>1
    <2> HIDE DEF c
    <2> QED BY <2>1, <2>2, <2>3, <2>4, CallBegins
  <1>2. ASSUME NEW kind \in {"close", "destroy"}, Closing(t, r, kind), Used, env[r] # "none",
               UNCHANGED <<ownLoop, bg, sub, worker, fleet, failed>>
        PROVE  FleetInv'
    <2> DEFINE c == [pc |-> IF env[r] = "closed"
      \/ bg.closed THEN "done" ELSE "tested", kind |-> kind, of |-> r]
    <2>1. c \in Blocking /\ c.pc \in {"tested", "done"} /\ (bg.closed => c.pc = "done")
      BY OwnerIsNoThread DEF Blocking
    <2>2. op' = [op EXCEPT ![t] = c] /\ env' = [env EXCEPT ![r] = "closed"]
      BY <1>2 DEF Closing
    <2>3. env' \in [Replicas -> {"none", "open",
       "closed"}] /\ \A q \in Replicas : env'[q] = IF q = r THEN "closed" ELSE env[q]
      BY <2>2 DEF FleetInv, FleetTyping
    <2>4. \A q \in Replicas : env'[q] = env[q] \/ (env[q] # "none" /\ env'[q] = "closed")
      BY <1>2, <2>3
    <2> HIDE DEF c
    <2> QED BY <1>2, <2>1, <2>2, <2>3, <2>4, CallBegins
  <1> QED BY <1>1, <1>2 DEF CloseMember, DestroyMember

\* The owner's destroy returns once its replica is not live.
LEMMA ReturnInv == ASSUME FleetInv, NEW t \in Threads \cup {Owner}, Return(t) PROVE FleetInv'
  <1>1. /\ op[t].pc = "done" /\ op' = [op EXCEPT ![t] = NoCall]
        /\ UNCHANGED <<ownLoop, bg, env, worker, fleet, failed>>
    BY DEF Return, Returned
  <1>2. /\ op' \in [Threads \cup {Owner} -> Blocking]
        /\ \A x \in Threads \cup {Owner} : op'[x] = IF x = t THEN NoCall ELSE op[x]
    BY <1>1 DEF FleetInv, FleetTyping, Blocking, NoCall
  <1>3. /\ sub' \in [Replicas -> {"none", "live", "gone", "stuck"}]
        /\ \A r \in Replicas : sub'[r] = "live" => sub[r] = "live"
        /\ op[t].kind = "destroy" => \A r \in Replicas : r = op[t].of => sub'[r] # "live"
    BY ReclaimedIs DEF FleetInv, FleetTyping, Return
  <1>4. FleetTyping'
    BY <1>1, <1>2, <1>3 DEF FleetInv, FleetTyping
  <1>5. ASSUME NEW r \in Replicas PROVE Owned(r)'
    <2>1. worker[r] = "destroyed" /\ sub'[r] = "live" => t # Owner /\ op'[Owner] = op[Owner]
      BY <1>2, <1>3, OwnerIsNoThread DEF FleetInv, Owned
    <2> QED BY <1>1, <1>3, <2>1 DEF FleetInv, Owned
  <1>6. Phased'
    BY <1>1, <1>2, OwnerIsNoThread DEF FleetInv, Phased, Members, NoCall
  <1>7. Unparked'
    BY <1>1, <1>2 DEF FleetInv, Unparked, NobodyParked, FleetTyping, NoCall
  <1> QED BY <1>4, <1>5, <1>6, <1>7 DEF FleetInv

\* A worker restores and connects, or raises.
LEMMA SpawnInv == ASSUME FleetInv, NEW r \in Replicas, Restore(r) \/ Connect(r) PROVE FleetInv'
  <1>1. /\ UNCHANGED <<ownLoop, bg, op, fleet>> /\ fleet = "spawning" /\ failed' \in BOOLEAN
        /\ worker[r] \in {"restoring", "connecting"}
    BY DEF Restore, Connect, FleetInv, FleetTyping
  <1>2. /\ sub' \in [Replicas -> {"none", "live", "gone", "stuck"}]
        /\ env' \in [Replicas -> {"none", "open", "closed"}]
        /\ worker' \in [Replicas -> {"restoring", "connecting", "raised", "connected", "destroyed"}]
        /\ \A q \in Replicas \ {r} : sub'[q] = sub[q] /\ env'[q] = env[q] /\ worker'[q] = worker[q]
        /\ \/ worker'[r] = "connecting" /\ env'[r] = env[r]
           \/ worker'[r] = "raised" /\ env'[r] = env[r] /\ sub'[r] # "live"
           \/ worker'[r] = "connected" /\ env'[r] = "open"
    <2>1. CASE Restore(r)
      BY <2>1 DEF Restore, FleetInv, FleetTyping, Owned
    <2>2. CASE Connect(r)
      BY <2>2, ReclaimedIs DEF Connect, Disown, FleetInv, FleetTyping
    <2> QED BY <2>1, <2>2
  <1>3. FleetTyping'
    BY <1>1, <1>2 DEF FleetInv, FleetTyping
  <1>4. ASSUME NEW q \in Replicas PROVE Owned(q)'
    <2>1. CASE q = r
      BY <1>1, <1>2, <2>1 DEF FleetInv, Owned
    <2>2. CASE q # r
      BY <1>1, <1>2, <2>2 DEF FleetInv, Owned
    <2> QED BY <2>1, <2>2
  <1>5. Phased'
    BY <1>1, <1>2 DEF FleetInv, Phased
  <1>6. Unparked'
    BY <1>1 DEF FleetInv, Unparked, NobodyParked
  <1> QED BY <1>3, <1>4, <1>5, <1>6 DEF FleetInv

\* The owner destroys its next member.
LEMMA DestroyNextInv == ASSUME FleetInv, DestroyNext PROVE FleetInv'
  <1>1. PICK r \in Members : Closing(Owner, r, "destroy")
               /\ worker' = [worker EXCEPT ![r] = "destroyed"]
    BY DEF DestroyNext
  <1> DEFINE c == [pc |-> IF env[r] = "closed" \/ bg.closed THEN "done" ELSE "tested",
     kind |-> "destroy", of |-> r]
  <1>2. /\ r \in Replicas /\ worker[r] = "connected" /\ op[Owner].pc = "idle"
            /\ fleet \in {"cleaning", "closing"}
        /\ UNCHANGED <<ownLoop, bg, sub, fleet, failed>>
    BY DEF DestroyNext, Members
  <1>3. /\ c \in Blocking /\ c.pc \in {"tested", "done"} /\ (bg.closed => c.pc = "done")
        /\ c.kind = "destroy" /\ c.of = r
    BY <1>2, OwnerIsNoThread DEF Blocking
  <1>4. op' = [op EXCEPT ![Owner] = c] /\ env' = [env EXCEPT ![r] = "closed"]
    BY <1>1 DEF Closing
  <1> HIDE DEF c
  <1>5. /\ op' \in [Threads \cup {Owner} -> Blocking]
        /\ \A x \in Threads \cup {Owner} : op'[x] = IF x = Owner THEN c ELSE op[x]
        /\ env' \in [Replicas -> {"none", "open", "closed"}]
        /\ \A q \in Replicas : env'[q] = IF q = r THEN "closed" ELSE env[q]
        /\ worker' \in [Replicas -> {"restoring", "connecting", "raised", "connected", "destroyed"}]
        /\ \A q \in Replicas : worker'[q] = IF q = r THEN "destroyed" ELSE worker[q]
    BY <1>1, <1>2, <1>3, <1>4 DEF FleetInv, FleetTyping
  <1>6. FleetTyping'
    BY <1>2, <1>5 DEF FleetInv, FleetTyping
  <1>7. ASSUME NEW q \in Replicas PROVE Owned(q)'
    <2>1. CASE q = r
      BY <1>2, <1>3, <1>5, <2>1, OwnerIsNoThread DEF Owned
    <2>2. CASE q # r
      BY <1>2, <1>5, <2>2 DEF FleetInv, Owned
    <2> QED BY <2>1, <2>2
  <1>8. Phased'
    BY <1>2, <1>5 DEF FleetInv, Phased
  <1>9. Unparked'
    BY <1>2, <1>3, <1>5, OwnerIsNoThread DEF FleetInv, Unparked, NobodyParked, FleetTyping
  <1> QED BY <1>6, <1>7, <1>8, <1>9 DEF FleetInv

\* The steps from one phase of a fleet to the next, and the end of the loop.
LEMMA PhaseInv == ASSUME FleetInv, Gather \/ CloseFleet \/ Stop \/ Finish \/ CloseGivenLoop
        PROVE FleetInv'
  <1>1. UNCHANGED <<ownLoop, sub, env, op, worker, failed>>
    BY DEF Gather, CloseFleet, Stop, Finish, CloseGivenLoop
  <1>2. \/ bg' = bg
        \/ bg' = StopFlag(bg) /\ fleet' = fleet
              /\ (~Concurrent => \A t \in Threads \cup {Owner} : op[t].pc = "idle")
    BY OwnerIsNoThread DEF Gather, CloseFleet, Stop, Finish, CloseGivenLoop, AllDestroyed,
       FleetInv, Phased, Unparked
  <1>3. bg' \in [closed : BOOLEAN, phase : LoopPhases] /\ (bg'.closed <=> bg'.phase # "running")
    BY <1>2 DEF FleetInv, FleetTyping, StopFlag, LoopPhases
  <1>4. FleetTyping'
    BY <1>1, <1>3 DEF FleetInv, FleetTyping, Gather, CloseFleet, Stop, Finish, CloseGivenLoop, Ended
  <1>5. \A r \in Replicas : Owned(r)'
    BY <1>1 DEF FleetInv, Owned
  <1>6. Phased'
    BY <1>1 DEF FleetInv, Phased, Members, Gather, CloseFleet, Stop, Finish, CloseGivenLoop, Ended,
       AllEnded, AllDestroyed
  <1>7. Unparked'
    BY <1>1, <1>2 DEF FleetInv, FleetTyping, Unparked, NobodyParked, Gather, CloseFleet, Stop,
       Finish,
       CloseGivenLoop, Ended, AllDestroyed, StopFlag
  <1> QED BY <1>4, <1>5, <1>6, <1>7 DEF FleetInv

\* There is no replica yet.
LEMMA FleetInitInv == ASSUME FleetInit PROVE FleetInv
  <1>1. NoCall \in Blocking /\ NoCall.pc = "idle"
    BY DEF NoCall, Blocking
  <1>2. FleetTyping
    BY <1>1 DEF FleetInit, FleetTyping, LoopPhases
  <1>3. (\A r \in Replicas : Owned(r)) /\ Phased
    BY <1>1, OwnerIsNoThread DEF FleetInit, Owned, Phased
  <1>4. Unparked
    BY <1>1 DEF FleetInit, Unparked, NobodyParked
  <1> QED BY <1>2, <1>3, <1>4 DEF FleetInv

\* Every step keeps the fleet whole.
LEMMA FleetNextInv == ASSUME FleetInv, [FleetNext]_fleetVars PROVE FleetInv'
  <1>1. CASE UNCHANGED fleetVars
    BY <1>1 DEF fleetVars, FleetInv, FleetTyping, Owned, Phased, Unparked, NobodyParked, Members
  <1>2. CASE Loop
    BY <1>2, LoopInv, CompleteInv DEF Loop
  <1>3. CASE OwnerSteps
    BY <1>3, PhaseInv, DestroyNextInv, ScheduleInv, ReturnInv DEF OwnerSteps
  <1>4. CASE CloseFleet \/ CloseGivenLoop
    BY <1>4, PhaseInv
  <1>5. CASE \E r \in Replicas : Restore(r) \/ Connect(r)
    BY <1>5, SpawnInv
  <1>6. ASSUME NEW t \in Threads,
               \/ Schedule(t) \/ Return(t)
               \/ \E r \in Replicas : Call(t, r) \/ CloseMember(t, r) \/ DestroyMember(t, r)
        PROVE  FleetInv'
    BY <1>6, ScheduleInv, ReturnInv, MemberInv
  <1> HIDE DEF FleetInv
  <1> QED BY <1>1, <1>2, <1>3, <1>4, <1>5, <1>6 DEF FleetNext

\* NoHalfFleet and NobodyParked from the invariant.
LEMMA FleetInvSound == FleetInv => NoHalfFleet /\ (~Concurrent => NobodyParked)
  BY DEF FleetInv, FleetTyping, Owned, Phased, Unparked, NoHalfFleet, Members

\* A loop that was given is stopped by whoever gave it, and by no step of the fleet.
LEMMA GivenLoopStep ==
    ASSUME FleetInv, [FleetNext]_fleetVars, ~ownLoop, bg' # bg, ~bg.closed
    PROVE  CloseGivenLoop
  BY DEF FleetInv, FleetTyping, FleetNext, fleetVars, Loop, OwnerSteps, Drain, EndThread, Complete,
     Schedule, Return, Restore, Connect, Gather, CloseFleet, DestroyNext, Stop, StopLoop, Finish,
     Call, CloseMember, DestroyMember

--------------------------------------------------------------------------------
(* Snapshots of memory (MemorySnapshots), the part "memory" of MCEnds.          *)

\* The steps that take a snapshot, from the dump to its publication or its removal.
Taking == {"dump", "commit", "resume", "rmi", "rmdir", "publish"}
OfDonor == [st : {"none", "part", "full", "here", "gone"}, work : Nat]

DumpTyping ==
    /\ donor \in [running : BOOLEAN, work : Nat]
    /\ dir \in [Snaps -> OfDonor] /\ image \in [Snaps -> OfDonor]
    /\ doing \in [pc : Taking \cup {"idle", "launch", "criu", "undo", "deldir", "delimage"},
                  snap : Snaps \cup {0}, tries : Nat, committed : BOOLEAN, failed : BOOLEAN]
    /\ doing.pc # "idle" => doing.snap \in Snaps
    /\ boxes \in [st : {"none", "idle", "live"}, memory : Nat, disk : Nat]
    /\ given \in [Snaps -> {"no", "yes", "deleting"}]
    /\ gaveUp \in [donor : BOOLEAN, images : SUBSET Snaps, dirs : SUBSET Snaps]

\* The dump and the image of one moment
Whole(s) == dir[s].st = "full" /\ image[s].st = "here" /\ dir[s].work = image[s].work

\* What was given is whole until it is deleted, and what is left of it is of one moment.
GivenWhole(s) ==
    /\ dir[s].st = "none" => image[s].st = "none" /\ given[s] = "no"
    /\ given[s] = "yes" => Whole(s)
    /\ given[s] # "no" => dir[s].work = image[s].work

\* Of what is neither given nor being taken, what is left is known to be.
BeingTaken(s) == doing.pc \in Taking /\ doing.snap = s
RemnantsKnown(s) ==
    given[s] = "no" /\ ~BeingTaken(s) =>
        /\ image[s].st = "here" => s \in gaveUp.images
        /\ dir[s].st \in {"part", "full"} => s \in gaveUp.dirs

\* How far the snapshot under way has come.  The donor stands still between the dump and the
\* commit, an image that is not committed is not removed, and nothing is published in part.
Stages ==
    LET s == doing.snap IN
    /\ doing.pc \in Taking => given[s] = "no"
    /\ doing.pc \notin Taking \cup {"idle"} => given[s] # "no"
    /\ doing.pc \in {"deldir", "delimage"} => given[s] = "deleting"
    /\ doing.pc = "dump" => dir[s].st = "none" /\ ~doing.failed /\ ~doing.committed
    /\ doing.pc = "commit" =>
          /\ dir[s].st = "full" /\ dir[s].work = donor.work
          /\ ~donor.running /\ ~doing.failed
    /\ doing.pc \in {"dump", "commit"} => image[s].st = "none"
    /\ doing.pc \in {"resume", "rmi"} =>
          dir[s].st # "none" /\ (image[s].st = "here" => doing.committed \/ s \in gaveUp.images)
    /\ doing.pc = "resume" /\ ~doing.failed => Whole(s)
    /\ doing.pc = "rmdir" => (image[s].st = "here" => s \in gaveUp.images)
    /\ doing.pc = "publish" => Whole(s)

\* A container has the disk of its image, and the memory of the same moment once it is live.
BoxesHold ==
    /\ doing.pc = "criu" => boxes.disk = image[doing.snap].work
    /\ boxes.st = "live" => boxes.memory = boxes.disk

DumpsInv ==
    DumpTyping /\ BoxesHold /\ Stages /\ \A s \in Snaps : GivenWhole(s) /\ RemnantsKnown(s)

\* The dump, which leaves the donor stopped when it works.
LEMMA DumpKeepsWhole == ASSUME DumpsInv, M!Dump PROVE DumpsInv'
  <1> USE DEF DumpsInv, OfDonor, Taking, M!Goto, M!Idle
  <1>1. doing.pc = "dump" /\ UNCHANGED <<image, boxes, given, gaveUp>>
    BY DEF M!Dump
  <1>2. doing.snap \in Snaps /\ GivenWhole(doing.snap) /\ RemnantsKnown(doing.snap)
    BY <1>1 DEF DumpTyping
  <1>3. CASE dir' = [dir EXCEPT ![doing.snap] = [st |-> "full", work |-> donor.work]]
             /\ donor' = [donor EXCEPT !.running = FALSE] /\ doing' = [doing EXCEPT !.pc = "commit"]
    <2>1. DumpTyping'
      BY <1>1, <1>2, <1>3 DEF DumpTyping, Stages
    <2>2. BoxesHold'
      BY <1>1, <1>2, <1>3 DEF DumpTyping, BoxesHold, Stages, GivenWhole
    <2>3. Stages'
      BY <1>1, <1>2, <1>3 DEF DumpTyping, Stages, GivenWhole, Whole
    <2>4. ASSUME NEW q \in Snaps PROVE GivenWhole(q)' /\ RemnantsKnown(q)'
      BY <1>1, <1>2, <1>3 DEF DumpTyping, Stages, GivenWhole, RemnantsKnown, Whole, BeingTaken
    <2> QED BY <2>1, <2>2, <2>3, <2>4
  <1>4. CASE \E st \in {"part", "full"}, d \in {donor, [donor EXCEPT !.running = FALSE]} :
              /\ dir' = [dir EXCEPT ![doing.snap] = [st |-> st, work |-> donor.work]] /\ donor' = d
              /\ doing' = [doing EXCEPT !.pc = "resume", !.failed = TRUE]
    <2>1. DumpTyping'
      <3>1. donor' \in [running : BOOLEAN, work : Nat] /\ dir' \in [Snaps -> OfDonor]
        <4>1. PICK st \in {"part", "full"}, d \in {donor, [donor EXCEPT !.running = FALSE]} :
                 dir' = [dir EXCEPT ![doing.snap] = [st |-> st, work |-> donor.work]] /\ donor' = d
          BY <1>4
        <4>2. [st |-> st, work |-> donor.work] \in OfDonor
          BY DEF DumpTyping
        <4> QED BY <4>1, <4>2 DEF DumpTyping
      <3> QED BY <1>1, <1>2, <1>4, <3>1 DEF DumpTyping, Taking
    <2>2. BoxesHold'
      BY <1>1, <1>2, <1>4 DEF DumpTyping, BoxesHold, Stages, GivenWhole
    <2>3. Stages'
      BY <1>1, <1>2, <1>4 DEF DumpTyping, Stages, GivenWhole, Whole
    <2>4. ASSUME NEW q \in Snaps PROVE GivenWhole(q)' /\ RemnantsKnown(q)'
      BY <1>1, <1>2, <1>4 DEF DumpTyping, Stages, GivenWhole, RemnantsKnown, Whole, BeingTaken
    <2> QED BY <2>1, <2>2, <2>3, <2>4
  <1> QED BY <1>3, <1>4 DEF M!Dump, M!Goto, M!Dumped, M!AfterFailedDump

\* The commit, of the moment of the dump; one that is cut off is given up.
LEMMA CommitKeepsWhole == ASSUME DumpsInv, M!Commit PROVE DumpsInv'
  <1> USE DEF DumpsInv, OfDonor, Taking, M!Goto, M!Idle
  <1>1. doing.pc = "commit" /\ UNCHANGED <<donor, dir, boxes, given>>
    BY DEF M!Commit
  <1>2. doing.snap \in Snaps /\ GivenWhole(doing.snap) /\ RemnantsKnown(doing.snap)
    BY <1>1 DEF DumpTyping
  <1>3. CASE image' = [image EXCEPT ![doing.snap] = [st |-> "here", work |-> donor.work]]
             /\ doing' = [doing EXCEPT !.pc = "resume", !.committed = TRUE] /\ UNCHANGED gaveUp
    <2>1. DumpTyping'
      BY <1>1, <1>2, <1>3 DEF DumpTyping, Stages
    <2>2. BoxesHold'
      BY <1>1, <1>2, <1>3 DEF DumpTyping, BoxesHold, Stages, GivenWhole
    <2>3. Stages'
      BY <1>1, <1>2, <1>3 DEF DumpTyping, Stages, GivenWhole, Whole
    <2>4. ASSUME NEW q \in Snaps PROVE GivenWhole(q)' /\ RemnantsKnown(q)'
      BY <1>1, <1>2, <1>3 DEF DumpTyping, Stages, GivenWhole, RemnantsKnown, Whole, BeingTaken
    <2> QED BY <2>1, <2>2, <2>3, <2>4
  <1>4. CASE image' = image /\ doing' = [doing EXCEPT !.pc = "resume",
     !.failed = TRUE] /\ UNCHANGED gaveUp
    <2>1. DumpTyping'
      BY <1>1, <1>2, <1>4 DEF DumpTyping, Stages
    <2>2. BoxesHold'
      BY <1>1, <1>2, <1>4 DEF DumpTyping, BoxesHold, Stages, GivenWhole
    <2>3. Stages'
      BY <1>1, <1>2, <1>4 DEF DumpTyping, Stages, GivenWhole, Whole
    <2>4. ASSUME NEW q \in Snaps PROVE GivenWhole(q)' /\ RemnantsKnown(q)'
      BY <1>1, <1>2, <1>4 DEF DumpTyping, Stages, GivenWhole, RemnantsKnown, Whole, BeingTaken
    <2> QED BY <2>1, <2>2, <2>3, <2>4
  <1>5. CASE image' = [image EXCEPT ![doing.snap] = [st |-> "here", work |-> donor.work]]
             /\ doing' = [doing EXCEPT !.pc = "resume", !.failed = TRUE]
             /\ gaveUp' = [gaveUp EXCEPT !.images = @ \cup {doing.snap}]
    <2>1. DumpTyping'
      BY <1>1, <1>2, <1>5 DEF DumpTyping, Stages
    <2>2. BoxesHold'
      BY <1>1, <1>2, <1>5 DEF DumpTyping, BoxesHold, Stages, GivenWhole
    <2>3. Stages'
      BY <1>1, <1>2, <1>5 DEF DumpTyping, Stages, GivenWhole, Whole
    <2>4. ASSUME NEW q \in Snaps PROVE GivenWhole(q)' /\ RemnantsKnown(q)'
      BY <1>1, <1>2, <1>5 DEF DumpTyping, Stages, GivenWhole, RemnantsKnown, Whole, BeingTaken
    <2> QED BY <2>1, <2>2, <2>3, <2>4
  <1> QED BY <1>3, <1>4, <1>5 DEF M!Commit, M!Goto

\* The donor is resumed, tried again, or given up.
LEMMA ResumeKeepsWhole == ASSUME DumpsInv, M!Resume PROVE DumpsInv'
  <1> USE DEF DumpsInv, OfDonor, Taking, M!Goto, M!Idle
  <1>1. doing.pc = "resume" /\ UNCHANGED <<dir, image, boxes, given>>
    BY DEF M!Resume
  <1>2. doing.snap \in Snaps /\ GivenWhole(doing.snap) /\ RemnantsKnown(doing.snap)
    BY <1>1 DEF DumpTyping
  <1>3. CASE donor' = [donor EXCEPT !.running = TRUE] /\ UNCHANGED gaveUp
             /\ doing' = [doing EXCEPT !.pc = IF doing.failed THEN "rmi" ELSE "publish"]
    <2>1. DumpTyping'
      BY <1>1, <1>2, <1>3 DEF DumpTyping, Stages
    <2>2. BoxesHold'
      BY <1>1, <1>2, <1>3 DEF DumpTyping, BoxesHold, Stages, GivenWhole
    <2>3. Stages'
      BY <1>1, <1>2, <1>3 DEF DumpTyping, Stages, GivenWhole, Whole
    <2>4. ASSUME NEW q \in Snaps PROVE GivenWhole(q)' /\ RemnantsKnown(q)'
      BY <1>1, <1>2, <1>3 DEF DumpTyping, Stages, GivenWhole, RemnantsKnown, Whole, BeingTaken
    <2> QED BY <2>1, <2>2, <2>3, <2>4
  <1>4. CASE doing' = [doing EXCEPT !.tries = @ + 1] /\ UNCHANGED <<donor, gaveUp>>
    <2>1. DumpTyping'
      BY <1>1, <1>2, <1>4 DEF DumpTyping, Stages
    <2>2. BoxesHold'
      BY <1>1, <1>2, <1>4 DEF DumpTyping, BoxesHold, Stages, GivenWhole
    <2>3. Stages'
      BY <1>1, <1>2, <1>4 DEF DumpTyping, Stages, GivenWhole, Whole
    <2>4. ASSUME NEW q \in Snaps PROVE GivenWhole(q)' /\ RemnantsKnown(q)'
      BY <1>1, <1>2, <1>4 DEF DumpTyping, Stages, GivenWhole, RemnantsKnown, Whole, BeingTaken
    <2> QED BY <2>1, <2>2, <2>3, <2>4
  <1>5. CASE doing' = [doing EXCEPT !.pc = "rmi", !.failed = TRUE]
             /\ gaveUp' = [gaveUp EXCEPT !.donor = TRUE] /\ UNCHANGED donor
    <2>1. DumpTyping'
      BY <1>1, <1>2, <1>5 DEF DumpTyping, Stages
    <2>2. BoxesHold'
      BY <1>1, <1>2, <1>5 DEF DumpTyping, BoxesHold, Stages, GivenWhole
    <2>3. Stages'
      BY <1>1, <1>2, <1>5 DEF DumpTyping, Stages, GivenWhole, Whole
    <2>4. ASSUME NEW q \in Snaps PROVE GivenWhole(q)' /\ RemnantsKnown(q)'
      BY <1>1, <1>2, <1>5 DEF DumpTyping, Stages, GivenWhole, RemnantsKnown, Whole, BeingTaken
    <2> QED BY <2>1, <2>2, <2>3, <2>4
  <1> QED BY <1>3, <1>4, <1>5 DEF M!Resume, M!Goto, M!AfterResume, M!AfterFailure

\* The removal of what will not be published: the image,
LEMMA CleanupImageKeepsWhole == ASSUME DumpsInv, M!CleanupImage PROVE DumpsInv'
  <1> USE DEF DumpsInv, OfDonor, Taking, M!Goto, M!Idle
  <1>1. doing.pc = "rmi" /\ doing' = [doing EXCEPT !.pc = "rmdir"]
          /\ UNCHANGED <<donor, dir, boxes, given>>
    BY DEF M!CleanupImage, M!Goto
  <1>2. doing.snap \in Snaps /\ GivenWhole(doing.snap) /\ RemnantsKnown(doing.snap)
    BY <1>1 DEF DumpTyping
  <1>3. CASE image' = [image EXCEPT ![doing.snap] = [@ EXCEPT !.st = "gone"]] /\ UNCHANGED gaveUp
    <2>1. DumpTyping'
      BY <1>1, <1>2, <1>3 DEF DumpTyping, Stages
    <2>2. BoxesHold'
      BY <1>1, <1>2, <1>3 DEF DumpTyping, BoxesHold, Stages, GivenWhole
    <2>3. Stages'
      BY <1>1, <1>2, <1>3 DEF DumpTyping, Stages, GivenWhole, Whole
    <2>4. ASSUME NEW q \in Snaps PROVE GivenWhole(q)' /\ RemnantsKnown(q)'
      <3>1. image'[q].work = image[q].work
              /\ image'[q].st = IF q = doing.snap THEN "gone" ELSE image[q].st
        BY <1>1, <1>2, <1>3 DEF DumpTyping, OfDonor
      <3>2. GivenWhole(q) /\ RemnantsKnown(q) /\ ((doing'.pc \in Taking
              /\ doing'.snap = doing.snap) \/ doing.pc \notin Taking)
        BY <1>1 DEF DumpTyping, M!Idle, Taking
      <3> QED BY <3>1, <3>2, <1>1, <1>2, <1>3 DEF Stages, GivenWhole, RemnantsKnown, Whole,
         BeingTaken
    <2> QED BY <2>1, <2>2, <2>3, <2>4
  <1>4. CASE gaveUp' = [gaveUp EXCEPT !.images = @ \cup {doing.snap}] /\ UNCHANGED image
    <2>1. DumpTyping'
      BY <1>1, <1>2, <1>4 DEF DumpTyping, Stages
    <2>2. BoxesHold'
      BY <1>1, <1>2, <1>4 DEF DumpTyping, BoxesHold, Stages, GivenWhole
    <2>3. Stages'
      BY <1>1, <1>2, <1>4 DEF DumpTyping, Stages, GivenWhole, Whole
    <2>4. ASSUME NEW q \in Snaps PROVE GivenWhole(q)' /\ RemnantsKnown(q)'
      BY <1>1, <1>2, <1>4 DEF DumpTyping, Stages, GivenWhole, RemnantsKnown, Whole, BeingTaken
    <2> QED BY <2>1, <2>2, <2>3, <2>4
  <1>5. CASE ~doing.committed /\ UNCHANGED <<image, gaveUp>>
    <2>1. DumpTyping'
      BY <1>1, <1>2, <1>5 DEF DumpTyping, Stages
    <2>2. BoxesHold'
      BY <1>1, <1>2, <1>5 DEF DumpTyping, BoxesHold, Stages, GivenWhole
    <2>3. Stages'
      BY <1>1, <1>2, <1>5 DEF DumpTyping, Stages, GivenWhole, Whole
    <2>4. ASSUME NEW q \in Snaps PROVE GivenWhole(q)' /\ RemnantsKnown(q)'
      BY <1>1, <1>2, <1>5 DEF DumpTyping, Stages, GivenWhole, RemnantsKnown, Whole, BeingTaken
    <2> QED BY <2>1, <2>2, <2>3, <2>4
  <1> QED BY <1>3, <1>4, <1>5 DEF M!CleanupImage, M!Goto

\* and the directory.
LEMMA CleanupDirKeepsWhole == ASSUME DumpsInv, M!CleanupDir PROVE DumpsInv'
  <1> USE DEF DumpsInv, OfDonor, Taking, M!Goto, M!Idle
  <1>1. doing.pc = "rmdir" /\ doing' = M!Idle /\ UNCHANGED <<donor, image, boxes, given>>
    BY DEF M!CleanupDir
  <1>2. doing.snap \in Snaps /\ GivenWhole(doing.snap) /\ RemnantsKnown(doing.snap)
    BY <1>1 DEF DumpTyping
  <1>3. CASE dir' = [dir EXCEPT ![doing.snap] = [@ EXCEPT !.st = "gone"]] /\ UNCHANGED gaveUp
    <2>1. DumpTyping'
      BY <1>1, <1>2, <1>3 DEF DumpTyping, Stages
    <2>2. BoxesHold'
      BY <1>1, <1>2, <1>3 DEF DumpTyping, BoxesHold, Stages, GivenWhole
    <2>3. Stages'
      BY <1>1, <1>2, <1>3 DEF DumpTyping, Stages, GivenWhole, Whole
    <2>4. ASSUME NEW q \in Snaps PROVE GivenWhole(q)' /\ RemnantsKnown(q)'
      BY <1>1, <1>2, <1>3 DEF DumpTyping, Stages, GivenWhole, RemnantsKnown, Whole, BeingTaken
    <2> QED BY <2>1, <2>2, <2>3, <2>4
  <1>4. CASE gaveUp' = [gaveUp EXCEPT !.dirs = @ \cup {doing.snap}] /\ UNCHANGED dir
    <2>1. DumpTyping'
      BY <1>1, <1>2, <1>4 DEF DumpTyping, Stages
    <2>2. BoxesHold'
      BY <1>1, <1>2, <1>4 DEF DumpTyping, BoxesHold, Stages, GivenWhole
    <2>3. Stages'
      BY <1>1, <1>2, <1>4 DEF DumpTyping, Stages, GivenWhole, Whole
    <2>4. ASSUME NEW q \in Snaps PROVE GivenWhole(q)' /\ RemnantsKnown(q)'
      BY <1>1, <1>2, <1>4 DEF DumpTyping, Stages, GivenWhole, RemnantsKnown, Whole, BeingTaken
    <2> QED BY <2>1, <2>2, <2>3, <2>4
  <1> QED BY <1>3, <1>4 DEF M!CleanupDir, M!Goto

\* A container of the committed image.
LEMMA LaunchKeepsWhole == ASSUME DumpsInv, M!Launch PROVE DumpsInv'
  <1> USE DEF DumpsInv, OfDonor, Taking, M!Goto, M!Idle
  <1>1. doing.pc = "launch" /\ UNCHANGED <<donor, dir, image, given, gaveUp>>
    BY DEF M!Launch
  <1>2. doing.snap \in Snaps /\ GivenWhole(doing.snap) /\ RemnantsKnown(doing.snap)
    BY <1>1 DEF DumpTyping
  <1>3. CASE image[doing.snap].st = "here" /\ doing' = [doing EXCEPT !.pc = "criu"]
             /\ boxes' = [st |-> "idle", memory |-> 0, disk |-> image[doing.snap].work]
    <2>1. DumpTyping'
      BY <1>1, <1>2, <1>3 DEF DumpTyping, Stages
    <2>2. BoxesHold'
      BY <1>1, <1>2, <1>3 DEF DumpTyping, BoxesHold, Stages, GivenWhole
    <2>3. Stages'
      BY <1>1, <1>2, <1>3 DEF DumpTyping, Stages, GivenWhole, Whole
    <2>4. ASSUME NEW q \in Snaps PROVE GivenWhole(q)' /\ RemnantsKnown(q)'
      BY <1>1, <1>2, <1>3 DEF DumpTyping, Stages, GivenWhole, RemnantsKnown, Whole, BeingTaken
    <2> QED BY <2>1, <2>2, <2>3, <2>4
  <1>4. CASE doing' = [doing EXCEPT !.tries = @ + 1] /\ UNCHANGED boxes
    <2>1. DumpTyping'
      BY <1>1, <1>2, <1>4 DEF DumpTyping, Stages
    <2>2. BoxesHold'
      BY <1>1, <1>2, <1>4 DEF DumpTyping, BoxesHold, Stages, GivenWhole
    <2>3. Stages'
      BY <1>1, <1>2, <1>4 DEF DumpTyping, Stages, GivenWhole, Whole
    <2>4. ASSUME NEW q \in Snaps PROVE GivenWhole(q)' /\ RemnantsKnown(q)'
      BY <1>1, <1>2, <1>4 DEF DumpTyping, Stages, GivenWhole, RemnantsKnown, Whole, BeingTaken
    <2> QED BY <2>1, <2>2, <2>3, <2>4
  <1>5. CASE doing' = M!Idle /\ UNCHANGED boxes
    <2>1. DumpTyping'
      BY <1>1, <1>2, <1>5 DEF DumpTyping, Stages
    <2>2. BoxesHold'
      BY <1>1, <1>2, <1>5 DEF DumpTyping, BoxesHold, Stages, GivenWhole
    <2>3. Stages'
      BY <1>1, <1>2, <1>5 DEF DumpTyping, Stages, GivenWhole, Whole
    <2>4. ASSUME NEW q \in Snaps PROVE GivenWhole(q)' /\ RemnantsKnown(q)'
      BY <1>1, <1>2, <1>5 DEF DumpTyping, Stages, GivenWhole, RemnantsKnown, Whole, BeingTaken
    <2> QED BY <2>1, <2>2, <2>3, <2>4
  <1> QED BY <1>3, <1>4, <1>5 DEF M!Launch, M!Goto

\* The memory of the dump, which is of the moment of that image.
LEMMA CriuRestoreKeepsWhole == ASSUME DumpsInv, M!CriuRestore PROVE DumpsInv'
  <1> USE DEF DumpsInv, OfDonor, Taking, M!Goto, M!Idle
  <1>1. doing.pc = "criu" /\ UNCHANGED <<donor, dir, image, given, gaveUp>>
    BY DEF M!CriuRestore
  <1>2. doing.snap \in Snaps /\ GivenWhole(doing.snap) /\ RemnantsKnown(doing.snap)
    BY <1>1 DEF DumpTyping
  <1>3. CASE doing' = M!Idle /\ boxes' = [boxes EXCEPT !.st = "live",
     !.memory = dir[doing.snap].work]
    <2>1. DumpTyping'
      BY <1>1, <1>2, <1>3 DEF DumpTyping, Stages
    <2>2. BoxesHold'
      BY <1>1, <1>2, <1>3 DEF DumpTyping, BoxesHold, Stages, GivenWhole
    <2>3. Stages'
      BY <1>1, <1>2, <1>3 DEF DumpTyping, Stages, GivenWhole, Whole
    <2>4. ASSUME NEW q \in Snaps PROVE GivenWhole(q)' /\ RemnantsKnown(q)'
      BY <1>1, <1>2, <1>3 DEF DumpTyping, Stages, GivenWhole, RemnantsKnown, Whole, BeingTaken
    <2> QED BY <2>1, <2>2, <2>3, <2>4
  <1>4. CASE doing' = [doing EXCEPT !.pc = "undo"] /\ UNCHANGED boxes
    <2>1. DumpTyping'
      BY <1>1, <1>2, <1>4 DEF DumpTyping, Stages
    <2>2. BoxesHold'
      BY <1>1, <1>2, <1>4 DEF DumpTyping, BoxesHold, Stages, GivenWhole
    <2>3. Stages'
      BY <1>1, <1>2, <1>4 DEF DumpTyping, Stages, GivenWhole, Whole
    <2>4. ASSUME NEW q \in Snaps PROVE GivenWhole(q)' /\ RemnantsKnown(q)'
      BY <1>1, <1>2, <1>4 DEF DumpTyping, Stages, GivenWhole, RemnantsKnown, Whole, BeingTaken
    <2> QED BY <2>1, <2>2, <2>3, <2>4
  <1> QED BY <1>3, <1>4 DEF M!CriuRestore, M!Goto

\* A deletion: the directory,
LEMMA DeleteDirKeepsWhole == ASSUME DumpsInv, M!DeleteDir PROVE DumpsInv'
  <1> USE DEF DumpsInv, OfDonor, Taking, M!Goto, M!Idle
  <1>1. doing.pc = "deldir" /\ UNCHANGED <<donor, image, boxes, given, gaveUp>>
    BY DEF M!DeleteDir
  <1>2. doing.snap \in Snaps /\ GivenWhole(doing.snap) /\ RemnantsKnown(doing.snap)
    BY <1>1 DEF DumpTyping
  <1>3. CASE dir' = [dir EXCEPT ![doing.snap] = [@ EXCEPT !.st = "gone"]]
               /\ doing' = [doing EXCEPT !.pc = "delimage"]
    <2>1. DumpTyping'
      BY <1>1, <1>2, <1>3 DEF DumpTyping, Stages
    <2>2. BoxesHold'
      BY <1>1, <1>2, <1>3 DEF DumpTyping, BoxesHold, Stages, GivenWhole
    <2>3. Stages'
      BY <1>1, <1>2, <1>3 DEF DumpTyping, Stages, GivenWhole, Whole
    <2>4. ASSUME NEW q \in Snaps PROVE GivenWhole(q)' /\ RemnantsKnown(q)'
      <3>1. dir'[q].work = dir[q].work /\ dir'[q].st = IF q = doing.snap THEN "gone" ELSE dir[q].st
        BY <1>1, <1>2, <1>3 DEF DumpTyping, OfDonor
      <3>2. GivenWhole(q) /\ RemnantsKnown(q) /\ ((doing'.pc \in Taking
              /\ doing'.snap = doing.snap) \/ doing.pc \notin Taking)
        BY <1>1 DEF DumpTyping, M!Idle, Taking
      <3> QED BY <3>1, <3>2, <1>1, <1>2, <1>3 DEF Stages, GivenWhole, RemnantsKnown, Whole,
         BeingTaken
    <2> QED BY <2>1, <2>2, <2>3, <2>4
  <1>4. CASE doing' = M!Idle /\ UNCHANGED dir
    <2>1. DumpTyping'
      BY <1>1, <1>2, <1>4 DEF DumpTyping, Stages
    <2>2. BoxesHold'
      BY <1>1, <1>2, <1>4 DEF DumpTyping, BoxesHold, Stages, GivenWhole
    <2>3. Stages'
      BY <1>1, <1>2, <1>4 DEF DumpTyping, Stages, GivenWhole, Whole
    <2>4. ASSUME NEW q \in Snaps PROVE GivenWhole(q)' /\ RemnantsKnown(q)'
      BY <1>1, <1>2, <1>4 DEF DumpTyping, Stages, GivenWhole, RemnantsKnown, Whole, BeingTaken
    <2> QED BY <2>1, <2>2, <2>3, <2>4
  <1> QED BY <1>3, <1>4 DEF M!DeleteDir, M!Goto

\* and the image.
LEMMA DeleteImageKeepsWhole == ASSUME DumpsInv, M!DeleteImage PROVE DumpsInv'
  <1> USE DEF DumpsInv, OfDonor, Taking, M!Goto, M!Idle
  <1>1. doing.pc = "delimage" /\ doing' = M!Idle /\ UNCHANGED <<donor, dir, boxes, given, gaveUp>>
    BY DEF M!DeleteImage
  <1>2. doing.snap \in Snaps /\ GivenWhole(doing.snap) /\ RemnantsKnown(doing.snap)
    BY <1>1 DEF DumpTyping
  <1>3. CASE image' = [image EXCEPT ![doing.snap] = [@ EXCEPT !.st = "gone"]]
    <2>1. DumpTyping'
      BY <1>1, <1>2, <1>3 DEF DumpTyping, Stages
    <2>2. BoxesHold'
      BY <1>1, <1>2, <1>3 DEF DumpTyping, BoxesHold, Stages, GivenWhole
    <2>3. Stages'
      BY <1>1, <1>2, <1>3 DEF DumpTyping, Stages, GivenWhole, Whole
    <2>4. ASSUME NEW q \in Snaps PROVE GivenWhole(q)' /\ RemnantsKnown(q)'
      <3>1. image'[q].work = image[q].work
              /\ image'[q].st = IF q = doing.snap THEN "gone" ELSE image[q].st
        BY <1>1, <1>2, <1>3 DEF DumpTyping, OfDonor
      <3>2. GivenWhole(q) /\ RemnantsKnown(q) /\ ((doing'.pc \in Taking
              /\ doing'.snap = doing.snap) \/ doing.pc \notin Taking)
        BY <1>1 DEF DumpTyping, M!Idle, Taking
      <3> QED BY <3>1, <3>2, <1>1, <1>2, <1>3 DEF Stages, GivenWhole, RemnantsKnown, Whole,
         BeingTaken
    <2> QED BY <2>1, <2>2, <2>3, <2>4
  <1>4. CASE UNCHANGED image
    <2>1. DumpTyping'
      BY <1>1, <1>2, <1>4 DEF DumpTyping, Stages
    <2>2. BoxesHold'
      BY <1>1, <1>2, <1>4 DEF DumpTyping, BoxesHold, Stages, GivenWhole
    <2>3. Stages'
      BY <1>1, <1>2, <1>4 DEF DumpTyping, Stages, GivenWhole, Whole
    <2>4. ASSUME NEW q \in Snaps PROVE GivenWhole(q)' /\ RemnantsKnown(q)'
      BY <1>1, <1>2, <1>4 DEF DumpTyping, Stages, GivenWhole, RemnantsKnown, Whole, BeingTaken
    <2> QED BY <2>1, <2>2, <2>3, <2>4
  <1> QED BY <1>3, <1>4 DEF M!DeleteImage, M!Goto

\* There is no snapshot yet.
LEMMA DumpsInvInit == M!Init => DumpsInv
  BY DEF M!Init, M!Idle, M!NoDump, M!NoBoxes, DumpsInv, DumpTyping, OfDonor, BoxesHold, Stages,
     Taking,
         GivenWhole, RemnantsKnown, Whole

\* Every step keeps a snapshot of one moment.
LEMMA DumpsInvStep == ASSUME DumpsInv, [M!Next]_memoryVars PROVE DumpsInv'
  <1> USE DEF DumpsInv, OfDonor, Taking, M!Idle, M!Resolve, M!NoBoxes
  <1>1. CASE UNCHANGED memoryVars
    BY <1>1 DEF memoryVars, DumpTyping, BoxesHold, Stages, GivenWhole, RemnantsKnown, BeingTaken,
       Whole
  <1>2. ASSUME M!Work PROVE DumpsInv'
    <2> USE <1>2 DEF M!Work
    <2>1. DumpTyping' /\ BoxesHold'
      BY DEF DumpTyping, BoxesHold
    <2>2. Stages'
      BY DEF DumpTyping, Stages, GivenWhole, Whole
    <2>3. ASSUME NEW q \in Snaps PROVE GivenWhole(q)' /\ RemnantsKnown(q)'
      BY DEF DumpTyping, Stages, GivenWhole, RemnantsKnown, Whole, BeingTaken
    <2> QED BY <2>1, <2>2, <2>3
  <1>3. ASSUME NEW s \in Snaps, M!Begin(s) PROVE DumpsInv'
    <2> USE <1>3 DEF M!Begin
    <2>1. DumpTyping' /\ BoxesHold'
      BY DEF DumpTyping, BoxesHold
    <2>2. Stages'
      BY DEF DumpTyping, Stages, GivenWhole, Whole
    <2>3. ASSUME NEW q \in Snaps PROVE GivenWhole(q)' /\ RemnantsKnown(q)'
      BY DEF DumpTyping, Stages, GivenWhole, RemnantsKnown, Whole, BeingTaken
    <2> QED BY <2>1, <2>2, <2>3
  <1>4. ASSUME M!Publish PROVE DumpsInv'
    <2> USE <1>4 DEF M!Publish
    <2>1. DumpTyping' /\ BoxesHold'
      BY DEF DumpTyping, BoxesHold
    <2>2. Stages'
      BY DEF DumpTyping, Stages, GivenWhole, Whole
    <2>3. ASSUME NEW q \in Snaps PROVE GivenWhole(q)' /\ RemnantsKnown(q)'
      BY DEF DumpTyping, Stages, GivenWhole, RemnantsKnown, Whole, BeingTaken
    <2> QED BY <2>1, <2>2, <2>3
  <1>5. ASSUME NEW s \in Snaps, M!Restore(s) PROVE DumpsInv'
    <2> USE <1>5 DEF M!Restore
    <2>1. DumpTyping' /\ BoxesHold'
      BY DEF DumpTyping, BoxesHold
    <2>2. Stages'
      BY DEF DumpTyping, Stages, GivenWhole, Whole
    <2>3. ASSUME NEW q \in Snaps PROVE GivenWhole(q)' /\ RemnantsKnown(q)'
      BY DEF DumpTyping, Stages, GivenWhole, RemnantsKnown, Whole, BeingTaken
    <2> QED BY <2>1, <2>2, <2>3
  <1>6. ASSUME M!Undo PROVE DumpsInv'
    <2> USE <1>6 DEF M!Undo
    <2>1. DumpTyping' /\ BoxesHold'
      BY DEF DumpTyping, BoxesHold
    <2>2. Stages'
      BY DEF DumpTyping, Stages, GivenWhole, Whole
    <2>3. ASSUME NEW q \in Snaps PROVE GivenWhole(q)' /\ RemnantsKnown(q)'
      BY DEF DumpTyping, Stages, GivenWhole, RemnantsKnown, Whole, BeingTaken
    <2> QED BY <2>1, <2>2, <2>3
  <1>7. ASSUME M!Destroy PROVE DumpsInv'
    <2> USE <1>7 DEF M!Destroy
    <2>1. DumpTyping' /\ BoxesHold'
      BY DEF DumpTyping, BoxesHold
    <2>2. Stages'
      BY DEF DumpTyping, Stages, GivenWhole, Whole
    <2>3. ASSUME NEW q \in Snaps PROVE GivenWhole(q)' /\ RemnantsKnown(q)'
      BY DEF DumpTyping, Stages, GivenWhole, RemnantsKnown, Whole, BeingTaken
    <2> QED BY <2>1, <2>2, <2>3
  <1>8. ASSUME NEW s \in Snaps, M!Delete(s) PROVE DumpsInv'
    <2> USE <1>8 DEF M!Delete
    <2>1. DumpTyping' /\ BoxesHold'
      BY DEF DumpTyping, BoxesHold
    <2>2. Stages'
      BY DEF DumpTyping, Stages, GivenWhole, Whole
    <2>3. ASSUME NEW q \in Snaps PROVE GivenWhole(q)' /\ RemnantsKnown(q)'
      BY DEF DumpTyping, Stages, GivenWhole, RemnantsKnown, Whole, BeingTaken
    <2> QED BY <2>1, <2>2, <2>3
  <1>9. ASSUME M!Reconstruct PROVE DumpsInv'
    <2> USE <1>9 DEF M!Reconstruct
    <2>1. DumpTyping' /\ BoxesHold'
      BY DEF DumpTyping, BoxesHold
    <2>2. Stages'
      BY DEF DumpTyping, Stages, GivenWhole, Whole
    <2>3. ASSUME NEW q \in Snaps PROVE GivenWhole(q)' /\ RemnantsKnown(q)'
      BY DEF DumpTyping, Stages, GivenWhole, RemnantsKnown, Whole, BeingTaken
    <2> QED BY <2>1, <2>2, <2>3
  <1> QED BY <1>1, <1>2, <1>3, <1>4, <1>5, <1>6, <1>7, <1>8, <1>9,
     DumpKeepsWhole, CommitKeepsWhole, ResumeKeepsWhole, CleanupImageKeepsWhole,
     CleanupDirKeepsWhole, LaunchKeepsWhole, CriuRestoreKeepsWhole, DeleteDirKeepsWhole,
     DeleteImageKeepsWhole DEF M!Next, M!Step

\* DumpsSound of MemorySnapshots from its invariant.
LEMMA DumpsInvSound == DumpsInv => M!DumpsSound
  BY DEF DumpsInv, DumpTyping, BoxesHold, GivenWhole, RemnantsKnown, BeingTaken, Taking, Whole,
     M!DumpsSound, M!OneMoment, M!NothingUnpublished

--------------------------------------------------------------------------------
(* The specification of the run, whose behaviours are each of one part.         *)

EndsInv == DumpsInv /\ TsInv /\ FleetInv

\* The invariants of the three parts hold together: a step of one leaves the others alone.
LEMMA EndsInductive == EndsSpec => []EndsInv
  <1>1. ASSUME EndsInit PROVE EndsInv
    BY <1>1, DumpsInvInit, TsInitInv, FleetInitInv DEF EndsInit, EndsInv
  <1>2. ASSUME EndsInv, [EndsNext]_endVars PROVE EndsInv'
    <2>1. [M!Next]_memoryVars
      BY <1>2 DEF EndsNext, Rest, endVars
    <2>2. [T!TsNext]_typescriptVars
      BY <1>2 DEF EndsNext, Rest, endVars
    <2>3. [FleetNext]_fleetVars
      BY <1>2 DEF EndsNext, Rest, endVars
    <2> HIDE DEF DumpsInv, TsInv, FleetInv
    <2> QED BY <1>2, <2>1, <2>2, <2>3, DumpsInvStep, TsNextInv, FleetNextInv DEF EndsInv
  <1> QED BY <1>1, <1>2, PTL DEF EndsSpec

\* The safety of DumpsSound: a snapshot of memory that a caller was given has a dump and an image
\* of one moment of the donor, and so has what is restored from it; of one that was not given
\* nothing is left that is not known to be.  For any number of snapshots, attempts and changes,
\* whatever fails, is cut off or is deleted (criu.py, _take_snapshot, restore, delete_snapshot).
THEOREM DumpsAlwaysWhole == EndsSpec => []M!DumpsSound
  <1>1. EndsInv => M!DumpsSound
    BY DumpsInvSound DEF EndsInv
  <1> QED BY <1>1, EndsInductive, PTL

\* TsSound: a promise of the TypeScript client that is not settled waits in exactly one of its
\* tables, none waits once the session is over or its socket gone, no reader waits while a frame
\* is queued, and a connect() that is rejected leaves no socket open.  For any number of calls,
\* pings, readers and frames (client.ts, connect and AciClient).
THEOREM PromisesAlwaysKept == EndsSpec => []T!TsSound
  <1>1. EndsInv => T!TsSound
    BY TsInvSound DEF EndsInv
  <1> QED BY <1>1, EndsInductive, PTL

\* The safety of FleetKept: when spawn_many has raised, or its fleet is closed, no replica is left
\* of which nobody has tried to get rid; while members are used inside the life of the fleet no
\* thread is parked on a loop that is gone; and the loop of the caller is never stopped by the
\* fleet.  For any number of replicas and threads (client.py, Checkpoint.spawn_many,
\* SandboxFleet.close, _BackgroundLoop).
THEOREM FleetsAlwaysWhole ==
    EndsSpec => [](NoHalfFleet /\ (~Concurrent => NobodyParked)) /\ GivenLoopIsKept
  <1>1. EndsInv => NoHalfFleet /\ (~Concurrent => NobodyParked)
    BY FleetInvSound DEF EndsInv
  <1>2. EndsInv /\ [EndsNext]_endVars =>
            [~ownLoop /\ bg' # bg /\ ~bg.closed => CloseGivenLoop]_fleetVars
    <2> SUFFICES ASSUME EndsInv, [EndsNext]_endVars, ~ownLoop, bg' # bg, ~bg.closed
                 PROVE  CloseGivenLoop
      OBVIOUS
    <2>1. [FleetNext]_fleetVars
      BY DEF EndsNext, Rest, endVars
    <2> QED BY <2>1, GivenLoopStep DEF EndsInv
  <1> QED BY <1>1, <1>2, EndsInductive, PTL DEF EndsSpec, GivenLoopIsKept
================================================================================
