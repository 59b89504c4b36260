-------------------------------- MODULE Treap --------------------------------
(***************************************************************************)
(* treap/treap.hpp: TreapMap, a search tree on the keys that is a heap on  *)
(* random priorities.  Nodes are addresses of a heap, so that a rotation,  *)
(* a merge or a move that loses or shares a node is seen.  Two maps, so    *)
(* that one can be moved to the other.  The recursion of the code is a     *)
(* stack of activations: every call and every return is a step.            *)
(***************************************************************************)
EXTENDS Integers, Sequences, FiniteSets

CONSTANTS Entries,       \* the <<key, value>> pairs that are inserted
          Prios,         \* what random_priority may return: ties do happen
          Addresses,     \* of nodes
          Malloc(_, _),  \* which of the free addresses a node with a key gets
          MaxNodes,      \* bound on the nodes of a map while the other is empty,
          MaxShared      \* and on those of both

Keys == {e[1] : e \in Entries}

ASSUME TreapAssumption ==
  /\ Entries \subseteq Int \X Int /\ Prios \subseteq Int
  /\ IsFiniteSet(Addresses) /\ 0 \notin Addresses
  /\ \A free \in SUBSET Addresses, k \in Keys : free # {} => Malloc(free, k) \in free

VARIABLES
  node,      \* [key, value, prio] at each address in use
  link,      \* left and right of each node; 0 is nullptr
  root,      \* root_ of each map
  size,      \* size_ of each map
  content,   \* what each map holds, according to the calls made on it
  job,       \* the insert or erase in progress
  doing,     \* "ready"; "descend" or "merge", just called; "return"ing
  waiting,   \* activations that wait for the one they called: [at, on] is to
             \* put its result on a side of node at, or to "delete" node at
  tree,      \* the Node* it was called with, or returns
  mate,      \* the other Node* of merge
  delta      \* inserted or removed: what is added to size_

treapVars == <<node, link, root, size, content, job, doing, waiting, tree, mate, delta>>
heapVars == <<node, link>>
mapVars == <<root, size, content>>

Maps == {"a", "b"}
Sides == {"left", "right"}
Opposite(side) == IF side = "left" THEN "right" ELSE "left"
NoKeys == [k \in {} |-> 0]
NoJob == [op |-> "none", map |-> "a", key |-> 0, value |-> 0, assign |-> FALSE]

TreapInit ==
  /\ node = [n \in {} |-> 0] /\ link = [n \in {} |-> 0]
  /\ root = [m \in Maps |-> 0]
  /\ size = [m \in Maps |-> 0]
  /\ content = [m \in Maps |-> NoKeys]
  /\ job = NoJob /\ doing = "ready" /\ waiting = <<>>
  /\ tree = 0 /\ mate = 0 /\ delta = 0

-----------------------------------------------------------------------------
With(f, k, v) == [x \in DOMAIN f \cup {k} |-> IF x = k THEN v ELSE f[x]]
Without(f, dead) == [x \in DOMAIN f \ dead |-> f[x]]

Call(n, side) == waiting' = Append(waiting, [at |-> n, on |-> side])

Start(op, m, k, v, assign) ==
  /\ doing = "ready" /\ doing' = "descend"
  /\ job' = [op |-> op, map |-> m, key |-> k, value |-> v, assign |-> assign]
  /\ tree' = root[m]
  /\ UNCHANGED <<heapVars, mapVars, waiting, mate, delta>>

Bound == IF 0 \in {root[m] : m \in Maps} THEN MaxNodes ELSE MaxShared
Insert(m, k, v, assign) ==
  /\ Addresses \ DOMAIN node # {} /\ Cardinality(DOMAIN node) < Bound
  /\ Start("insert", m, k, v, assign)
Erase(m, k) == Start("erase", m, k, 0, FALSE)

\* insert_impl and erase_impl: the key is not here.
Descend ==
  LET side == IF job.key < node[tree].key THEN "left" ELSE "right"
  IN /\ doing = "descend" /\ tree # 0 /\ job.key # node[tree].key
     /\ Call(tree, side) /\ tree' = link[tree][side]
     /\ UNCHANGED <<heapVars, mapVars, job, doing, mate, delta>>

NewNode ==
  LET n == Malloc(Addresses \ DOMAIN node, job.key)
  IN /\ doing = "descend" /\ tree = 0 /\ job.op = "insert" /\ doing' = "return"
     /\ \E p \in Prios : node' = With(node, n, [key |-> job.key, value |-> job.value, prio |-> p])
     /\ link' = With(link, n, [side \in Sides |-> 0])
     /\ tree' = n /\ delta' = 1
     /\ UNCHANGED <<mapVars, job, waiting, mate>>

Match ==
  /\ doing = "descend" /\ tree # 0 /\ job.key = node[tree].key
  /\ job.op = "insert" /\ doing' = "return"
  /\ node' = IF job.assign THEN [node EXCEPT ![tree].value = job.value] ELSE node
  /\ UNCHANGED <<link, mapVars, job, waiting, tree, mate, delta>>

NotFound ==
  /\ doing = "descend" /\ tree = 0 /\ job.op = "erase" /\ doing' = "return"
  /\ UNCHANGED <<heapVars, mapVars, job, waiting, tree, mate, delta>>

Found ==
  /\ doing = "descend" /\ tree # 0 /\ job.key = node[tree].key
  /\ job.op = "erase" /\ doing' = "merge" /\ delta' = -1
  /\ Call(tree, "delete")
  /\ tree' = link[tree]["left"] /\ mate' = link[tree]["right"]
  /\ UNCHANGED <<heapVars, mapVars, job>>

\* Fault: children are merged by key order alone, the left one on top.
MergeFault ==
  /\ doing = "merge" /\ tree # 0 /\ mate # 0
  /\ Call(tree, "right") /\ tree' = link[tree]["right"] /\ UNCHANGED mate
  /\ UNCHANGED <<heapVars, mapVars, job, doing, delta>>

\* Fault: the higher tree is handed on instead of its child.
MergeSameFault ==
  /\ doing = "merge" /\ tree # 0 /\ mate # 0
  /\ Call(IF node[tree].prio > node[mate].prio THEN tree ELSE mate, "left")
  /\ UNCHANGED <<heapVars, mapVars, job, doing, tree, mate, delta>>

Merge ==
  /\ doing = "merge" /\ tree # 0 /\ mate # 0
  /\ \/ /\ node[tree].prio > node[mate].prio
        /\ Call(tree, "right") /\ tree' = link[tree]["right"] /\ UNCHANGED mate
     \/ /\ node[tree].prio <= node[mate].prio
        /\ Call(mate, "left") /\ mate' = link[mate]["left"] /\ UNCHANGED tree
  /\ UNCHANGED <<heapVars, mapVars, job, doing, delta>>

MergeEnds ==
  /\ doing = "merge" /\ 0 \in {tree, mate} /\ doing' = "return"
  /\ tree' = (IF tree = 0 THEN mate ELSE tree) /\ mate' = 0
  /\ UNCHANGED <<heapVars, mapVars, job, waiting, delta>>

\* rotate_right for the left side, rotate_left for the right: n's child on
\* the side takes n's place.
Rotate(l, n, side) ==
  LET child == l[n][side]
  IN [l EXCEPT ![n][side] = l[child][Opposite(side)], ![child][Opposite(side)] = n]

\* On insertion a child above its parent's priority is rotated up, an equal one not.
Above(n) == job.op = "insert" /\ tree # 0 /\ node[tree].prio > node[n].prio

Resume ==
  LET last == waiting[Len(waiting)]
      linked == [link EXCEPT ![last.at][last.on] = tree]
  IN /\ doing = "return" /\ waiting # <<>>
     /\ waiting' = SubSeq(waiting, 1, Len(waiting) - 1)
     /\ \/ /\ last.on = "delete"
           /\ node' = Without(node, {last.at}) /\ link' = Without(link, {last.at})
           /\ UNCHANGED tree
        \/ /\ last.on # "delete" /\ Above(last.at)
           /\ link' = Rotate(linked, last.at, last.on)
           /\ UNCHANGED <<node, tree>>
        \/ /\ last.on # "delete" /\ ~Above(last.at)
           /\ link' = linked /\ tree' = last.at
           /\ UNCHANGED node
     /\ UNCHANGED <<mapVars, job, doing, mate, delta>>

\* What the call makes of the content of its map.
Outcome(held) ==
  IF job.op = "erase" THEN Without(held, {job.key})
  ELSE IF job.key \in DOMAIN held /\ ~job.assign THEN held
  ELSE With(held, job.key, job.value)

Finished ==
  /\ doing = "return" /\ waiting = <<>> /\ doing' = "ready"
  /\ root' = [root EXCEPT ![job.map] = tree]
  /\ size' = [size EXCEPT ![job.map] = @ + delta]
  /\ content' = [content EXCEPT ![job.map] = Outcome(@)]
  /\ job' = NoJob /\ tree' = 0 /\ delta' = 0
  /\ UNCHANGED <<heapVars, waiting, mate>>

\* The nodes destroy_subtree visits.
Subtree(n) ==
  LET visit[x \in DOMAIN node] ==
        {x} \cup UNION {visit[link[x][side]] : side \in {s \in Sides : link[x][s] # 0}}
  IN IF n = 0 THEN {} ELSE visit[n]

Destroyed(m) ==
  /\ node' = Without(node, Subtree(root[m]))
  /\ link' = Without(link, Subtree(root[m]))

Clear(m) ==
  /\ doing = "ready" /\ Destroyed(m)
  /\ root' = [root EXCEPT ![m] = 0]
  /\ size' = [size EXCEPT ![m] = 0]
  /\ content' = [content EXCEPT ![m] = NoKeys]
  /\ UNCHANGED <<job, doing, waiting, tree, mate, delta>>

\* m = std::move(o), which does nothing if o is m; moving into a new map is the
\* case of an empty m.
MoveAssign(m, o) ==
  /\ doing = "ready" /\ m # o /\ Destroyed(m)
  /\ root' = [root EXCEPT ![m] = root[o], ![o] = 0]
  /\ size' = [size EXCEPT ![m] = size[o], ![o] = 0]
  /\ content' = [content EXCEPT ![m] = content[o], ![o] = NoKeys]
  /\ UNCHANGED <<job, doing, waiting, tree, mate, delta>>

TreapNext ==
  \/ \E m \in Maps :
       \/ \E e \in Entries, assign \in BOOLEAN : Insert(m, e[1], e[2], assign)
       \/ \E k \in Keys : Erase(m, k)
       \/ Clear(m)
       \/ \E o \in Maps : MoveAssign(m, o)
  \/ Descend \/ NewNode \/ Match \/ NotFound \/ Found \/ Merge \/ MergeEnds
  \/ Resume \/ Finished

-----------------------------------------------------------------------------
\* The address find returns, 0 for nullptr: its loop goes down one level a turn.
Find(m, k) ==
  LET at[i \in 0..Cardinality(Addresses)] ==
        IF i = 0 THEN root[m]
        ELSE LET n == at[i - 1]
             IN IF n = 0 \/ node[n].key = k THEN n
                ELSE link[n][IF k < node[n].key THEN "left" ELSE "right"]
  IN at[Cardinality(Addresses)]

(***************************************************************************)
(* Any sequence of insertions, assignments, erasures, clears and moves     *)
(* leaves each map a search tree and a heap, owning nodes no other map     *)
(* owns and leaking none, that finds exactly what was put in it.           *)
(***************************************************************************)
Ordered(n) ==
  \A side \in Sides : \A c \in Subtree(link[n][side]) :
    /\ node[c].prio <= node[n].prio
    /\ IF side = "left" THEN node[c].key < node[n].key ELSE node[c].key > node[n].key

IsMap(m) ==
  /\ \A n \in Subtree(root[m]) : Ordered(n)
  /\ size[m] = Cardinality(DOMAIN content[m])
  /\ size[m] = Cardinality(Subtree(root[m]))
  /\ \A k \in Keys : IF k \in DOMAIN content[m]
                     THEN Find(m, k) # 0 /\ node[Find(m, k)].value = content[m][k]
                     ELSE Find(m, k) = 0

TreapIsMap ==
  doing = "ready" =>
    /\ \A m \in Maps : IsMap(m)
    /\ DOMAIN node = Subtree(root["a"]) \cup Subtree(root["b"])
    /\ Subtree(root["a"]) \cap Subtree(root["b"]) = {}

(***************************************************************************)
(* An insert or erase ends: every call and every return leaves fewer steps *)
(* to make, and no call is made deeper than there are nodes to wait.       *)
(***************************************************************************)
StepsLeft ==
  IF doing \in {"descend", "merge"}
  THEN 2 * Cardinality(DOMAIN node) + 1 - Len(waiting)
  ELSE Len(waiting)

CallsEnd ==
  [][doing # "ready" /\ doing' # "ready" => StepsLeft' \in 0..StepsLeft - 1]_treapVars
=============================================================================
