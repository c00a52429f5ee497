------------------------------ MODULE Observations ------------------------------
(***************************************************************************)
(* Structured observations of one shinkend session (src/shinkend/src/      *)
(* observe.rs and the `observe` and element verbs of connection.rs): ids   *)
(* of elements that are stable across snapshots, the index that resolves   *)
(* an `element_ref`, and the full or diff rendering of each revision.      *)
(*                                                                         *)
(* A node of the accessibility tree is its identity key (parent, role,     *)
(* backend id) and the content of its rendered line; whatever else a line  *)
(* shows is part of the content.  The tree belongs to the desktop: it      *)
(* changes at any moment, and a key may occur twice in it.  The client is  *)
(* one that applies every reply to what it knows.                          *)
(***************************************************************************)
EXTENDS Integers, Sequences, FiniteSets

CONSTANTS
    Keys,         \* identity keys
    Contents,     \* contents of a line
    None,         \* no key
    MaxNodes,     \* the node cap of the walk
    DiffBudget,   \* SHINKEND_DIFF_BUDGET
    MaxId,        \* bound of the exploration: ids minted
    MaxRevision   \* bound of the exploration: observations

ASSUME KeysAssumption == None \notin Keys
ASSUME ObservationsAssumption == {MaxNodes, DiffBudget, MaxId, MaxRevision} \subseteq Nat

Ids == 1 .. MaxId

Node == [key : Keys, content : Contents]

Trees == UNION {[1 .. n -> Node] : n \in 0 .. MaxNodes}

VARIABLES
    tree,       \* what the desktop shows: the nodes in pre-order
    looked,     \* the desktop was looked at since it changed
    next_id,    \* ObserveState::next_id
    ids,        \* key -> id for the last snapshot, 0 when there is none
    live,       \* id -> the key it resolves to, None unless in the last snapshot
    revision,   \* ObserveState::revision; 0 stands for `observed: false` as well
    last_lines, \* the baseline of a diff: <<id, content>> of the last snapshot
    view,       \* what the client knows of the elements: <<id, content>>
    meant       \* id -> the key for which the client was first shown it

stateVars == <<next_id, ids, live, revision, last_lines>>
clientVars == <<view, meant>>
vars == <<tree, looked, stateVars, clientVars>>

--------------------------------------------------------------------------------
(* Identity.  A node keeps the live id of its key, unless an earlier node of    *)
(* the snapshot took it; every other node gets the next id.                     *)

Nodes == 1 .. Len(tree)

Fresh(i) ==
    ids[tree[i].key] = 0 \/ \E j \in 1 .. (i - 1) : tree[j].key = tree[i].key

\* A counter that starts again with an empty tree.
MintedAnew(i) ==
    Cardinality({j \in 1 .. i : Fresh(j)}) + IF \A k \in Keys : ids[k] = 0 THEN 0 ELSE next_id

\* next_id when the first i nodes are done
Minted(i) == next_id + Cardinality({j \in 1 .. i : Fresh(j)})

IdAt(i) == IF Fresh(i) THEN Minted(i) ELSE ids[tree[i].key]

\* ids.insert(key, id): of two nodes with the key the last one stays in the map.
LastWith(k, i) ==
    tree[i].key = k /\ \A j \in Nodes : j > i => tree[j].key # k

Vanished(k) == 0

SnapshotIds == [k \in Keys |->
    IF \E i \in Nodes : LastWith(k, i)
    THEN IdAt(CHOOSE i \in Nodes : LastWith(k, i))
    ELSE Vanished(k)]

SnapshotLive == [d \in Ids |->
    IF \E i \in Nodes : IdAt(i) = d
    THEN tree[CHOOSE i \in Nodes : IdAt(i) = d].key
    ELSE None]

Lines == {<<IdAt(i), tree[i].content>> : i \in Nodes}

--------------------------------------------------------------------------------
(* render_diff: a `+` or `~` line per new id or new content, one `-` line for   *)
(* all removals; over the budget the reply is the full tree.                    *)

IdsOf(lines) == {l[1] : l \in lines}

Updated == Lines \ last_lines

Removed == IdsOf(last_lines) \ IdsOf(Lines)

AsDiff(diff) ==
    /\ diff /\ revision > 0
    /\ Cardinality(Updated) + (IF Removed = {} THEN 0 ELSE 1) <= DiffBudget

\* self.last_lines = Some(lines), after a full reply as after a diff.
BaselineOfFulls(diff) == IF AsDiff(diff) THEN last_lines ELSE Lines

Baseline(diff) == Lines

--------------------------------------------------------------------------------
\* The desktop: elements come, go, move and change, and keys are recycled.  Changes that
\* nobody looks between are one.
Change(t) ==
    /\ looked
    /\ tree' = t /\ looked' = FALSE
    /\ UNCHANGED <<stateVars, clientVars>>

\* observe: a snapshot, ObserveState::observe, and the client applies the reply.
Observe(diff) ==
    /\ revision < MaxRevision
    /\ Minted(Len(tree)) <= MaxId
    /\ next_id' = Minted(Len(tree))
    /\ ids' = SnapshotIds
    /\ live' = SnapshotLive
    /\ revision' = revision + 1
    /\ last_lines' = Baseline(diff)
    /\ view' = IF AsDiff(diff)
               THEN {l \in view : l[1] \notin Removed \cup IdsOf(Updated)} \cup Updated
               ELSE Lines
    /\ meant' = [d \in Ids |-> IF meant[d] = None THEN SnapshotLive[d] ELSE meant[d]]
    /\ looked' = TRUE
    /\ UNCHANGED tree

\* A snapshot that fails is a nack: neither the ids nor the baseline move.
ObserveFails == UNCHANGED vars

\* The nodes that a verb through ref d may drive: resolve, and the node of that key.
Driven(d) == {i \in Nodes : tree[i].key = live[d]}

\* An element verb, with any ref: a node is driven, or, when the ref is refused or the desktop
\* has no such node any more, the call is an error.
ElementVerb(d) ==
    \/ /\ \E i \in Driven(d), text \in Contents : tree' = [tree EXCEPT ![i].content = text]
       /\ looked' = TRUE
       /\ UNCHANGED <<stateVars, clientVars>>
    \/ Driven(d) = {} /\ UNCHANGED vars

Init ==
    /\ tree \in Trees /\ looked = TRUE
    /\ next_id = 0
    /\ ids = [k \in Keys |-> 0]
    /\ live = [d \in Ids |-> None]
    /\ revision = 0
    /\ last_lines = {}
    /\ view = {}
    /\ meant = [d \in Ids |-> None]

Next ==
    \/ \E t \in Trees : Change(t)
    \/ \E diff \in BOOLEAN : Observe(diff)
    \/ ObserveFails
    \/ \E d \in Ids : ElementVerb(d)

ObservationSpec == Init /\ [][Next]_vars

--------------------------------------------------------------------------------
(* Properties.                                                                 *)

\* Every variable has its type.
ObservationTypeOK ==
    /\ tree \in Trees /\ looked \in BOOLEAN
    /\ next_id \in 0 .. MaxId
    /\ ids \in [Keys -> 0 .. next_id]
    /\ live \in [Ids -> Keys \cup {None}]
    /\ revision \in 0 .. MaxRevision
    /\ last_lines \subseteq (1 .. next_id) \X Contents
    /\ view \subseteq (1 .. next_id) \X Contents
    /\ meant \in [Ids -> Keys \cup {None}]

\* "never a guess": whatever ref a client kept, through recycled and doubled keys and
\* however many observations ago, a verb goes to the element it was shown for or is refused.
NeverAnotherElement ==
    \A d \in Ids : \A i \in Driven(d) : tree[i].key = meant[d]

\* The id map agrees with the index, and no ref is good for two elements: the
\* identity a client was shown is the one that resolves.
RefsKeepIdentity ==
    /\ \A d \in Ids : live[d] # None => live[d] = meant[d]
    /\ \A k \in Keys : ids[k] # 0 => live[ids[k]] = k

\* Two nodes of one snapshot, of the tree as it is now, never share a ref, not even under
\* one key and not with an id of the past.
RefsDistinct ==
    \A i, j \in Nodes : i # j => IdAt(i) # IdAt(j)

\* render_diff and its baseline: a client that applies the diffs and full trees it is
\* sent knows exactly the lines of the latest snapshot.
DiffFaithful == view = last_lines /\ IdsOf(view) = {d \in Ids : live[d] # None}

\* The references of a client: each stands for the element it was shown for, in every
\* snapshot, and for no other (ObserveState).
RefsSound == ObservationTypeOK /\ NeverAnotherElement /\ RefsKeepIdentity /\ RefsDistinct
================================================================================
