------------------------------- MODULE Vectors -------------------------------
(***************************************************************************)
(* std_vector: the two my_vec classes, vec_1.cpp and vector_basic.cpp.     *)
(* Arrays are blocks of a heap, so that a block deleted twice, shared or   *)
(* leaked is seen, and an element may throw while it is copied or moved.   *)
(* A bad_alloc and a throw while tmp is made leave everything as it was.   *)
(***************************************************************************)
EXTENDS Integers, Sequences, FiniteSets, SequencesExt

CONSTANTS VecImpls,   \* subset of {"vec_1", "basic"}
          ElemKinds,  \* "plain": int; "copies": copy and move assignment may throw;
                      \* "moveonly": move assignment may throw, no copy
          Elems,      \* values of elements; 0 is a default or moved-from one
          MaxCap,     \* bound: elements of an array
          MaxBlocks   \* bound: arrays alive at a time

ASSUME VectorsAssumption ==
  /\ VecImpls \subseteq {"vec_1", "basic"} /\ ElemKinds \subseteq {"plain", "copies", "moveonly"}
  /\ Elems \subseteq Nat \ {0} /\ MaxCap \in Nat /\ MaxBlocks \in Nat

VARIABLES
  impl, kind,   \* which class, of which elements
  block,        \* the arrays alive: [form, els] by address
  vec,          \* [data, size, cap] of each vector; data 0 is nullptr
  held,         \* what each vector holds, according to the calls that returned
  thrown,       \* the operations during which an element threw
  undefined     \* the program has done something undefined

vecVars == <<impl, kind, block, vec, held, thrown, undefined>>

Vecs == {"v", "w"}
EmptyVec == [data |-> 0, size |-> 0, cap |-> 0]
Blocks == 1..MaxBlocks
NewBlock == CHOOSE b \in Blocks : b \notin DOMAIN block
RoomForBlock == DOMAIN block # Blocks

VectorsInit ==
  /\ impl \in VecImpls /\ kind \in ElemKinds
  /\ block = [b \in {} |-> <<>>]
  /\ vec = [v \in Vecs |-> EmptyVec]
  /\ held = [v \in Vecs |-> <<>>]
  /\ thrown = {} /\ undefined = FALSE

-----------------------------------------------------------------------------
Array(els) == [form |-> "array", els |-> els]
Padded(els, cap) == els \o [i \in 1..cap - Len(els) |-> 0]
Contents(v) == SubSeq(block[vec[v].data].els, 1, vec[v].size)
Now(v) == IF vec[v].data = 0 THEN <<>> ELSE Contents(v)
MayThrow == kind # "plain"

\* The heap with a block added, and with one deleted (0: delete[] nullptr).
WithBlock(h, b, a) == [x \in DOMAIN h \cup {b} |-> IF x = b THEN a ELSE h[x]]
WithoutBlock(h, b) == [x \in DOMAIN h \ {b} |-> h[x]]
DeleteIsUndefined(b) == b # 0 /\ (b \notin DOMAIN block \/ block[b].form = "single")
Deletes(b) == undefined' = (undefined \/ DeleteIsUndefined(b))
Threw(op) == thrown' = thrown \cup {op} /\ UNCHANGED <<vec, held, undefined>>

\* my_vec v = {...}.  vec_1 makes one object, T(n), and copies n into it; basic
\* makes n, but its array belongs to nobody if a copy throws.
InitList(v, s) ==
  /\ vec[v] = EmptyVec /\ RoomForBlock /\ kind # "moveonly"
  /\ \/ /\ block' = WithBlock(block, NewBlock, IF impl = "basic" THEN Array(s)
                                      ELSE [form |-> "single", els |-> IF s = <<>> THEN <<0>> ELSE SubSeq(s, 1, 1)])
        /\ vec' = [vec EXCEPT ![v] = [data |-> NewBlock, size |-> Len(s), cap |-> Len(s)]]
        /\ held' = [held EXCEPT ![v] = s]
        /\ undefined' = (undefined \/ (impl = "vec_1" /\ Len(s) > 1))
        /\ UNCHANGED thrown
     \/ /\ MayThrow /\ s # <<>>
        /\ block' = WithBlock(block, NewBlock, Array(Padded(<<>>, Len(s))))
        /\ Threw("list")

\* new_data thrown away by the catch clause; vec_1 has none.
Abandon == block' = IF impl = "basic" THEN block ELSE WithBlock(block, NewBlock, Array(<<>>))

\* v = o for another o; my_vec v(o) is the case of a v that holds nothing.
\* Fault: the old array is deleted before the copy is known to succeed.
CopyFault(v, o) ==
  /\ v # o /\ RoomForBlock /\ kind # "moveonly" /\ UNCHANGED <<impl, kind>>
  /\ \/ /\ block' = WithBlock(WithoutBlock(block, vec[v].data), NewBlock, Array(Padded(Now(o), vec[o].cap)))
        /\ vec' = [vec EXCEPT ![v] = [vec[o] EXCEPT !.data = NewBlock]]
        /\ held' = [held EXCEPT ![v] = held[o]]
        /\ Deletes(vec[v].data)
        /\ UNCHANGED thrown
     \/ /\ MayThrow /\ vec[o].size > 0
        /\ block' = WithoutBlock(block, vec[v].data) /\ Threw("copy")

Copy(v, o) ==
  /\ v # o /\ RoomForBlock /\ kind # "moveonly" /\ UNCHANGED <<impl, kind>>
  /\ \/ /\ block' = WithBlock(WithoutBlock(block, vec[v].data), NewBlock, Array(Padded(Now(o), vec[o].cap)))
        /\ vec' = [vec EXCEPT ![v] = [vec[o] EXCEPT !.data = NewBlock]]
        /\ held' = [held EXCEPT ![v] = held[o]]
        /\ Deletes(vec[v].data)
        /\ UNCHANGED thrown
     \/ /\ MayThrow /\ vec[o].size > 0
        /\ Abandon /\ Threw("copy")

\* v = std::move(o); my_vec v(std::move(o)) is the case of an empty v.
Move(v, o) ==
  /\ v # o
  /\ block' = WithoutBlock(block, vec[v].data)
  /\ vec' = [vec EXCEPT ![v] = vec[o], ![o] = EmptyVec]
  /\ held' = [held EXCEPT ![v] = held[o], ![o] = <<>>]
  /\ Deletes(vec[v].data)
  /\ UNCHANGED <<impl, kind, thrown>>

Destroy(v) ==
  /\ block' = WithoutBlock(block, vec[v].data)
  /\ vec' = [vec EXCEPT ![v] = EmptyVec]
  /\ held' = [held EXCEPT ![v] = <<>>]
  /\ Deletes(vec[v].data)
  /\ UNCHANGED <<impl, kind, thrown>>

\* reserve moves the elements, or copies those whose move may throw (basic).
\* A move that throws leaves the elements before it moved from.
Copies == impl = "basic" /\ kind = "copies"
Grown(v, n) == WithBlock(WithoutBlock(block, vec[v].data), NewBlock, Array(Padded(Now(v), n)))
Returns(n, v) == IF impl = "basic" THEN n <= vec[v].cap ELSE n < vec[v].cap
ReserveThrows(v) ==
  /\ MayThrow
  /\ \E k \in 1..vec[v].size :
       LET d == vec[v].data
           hurt == IF Copies \/ k = 1 THEN block
                   ELSE [block EXCEPT ![d].els = [i \in DOMAIN @ |-> IF i < k THEN 0 ELSE @[i]]]
       IN block' = IF impl = "basic" THEN hurt ELSE WithBlock(hurt, NewBlock, Array(<<>>))
  /\ Threw("reserve")

Reserve(v, n) ==
  /\ ~Returns(n, v) /\ RoomForBlock /\ UNCHANGED <<impl, kind>>
  /\ \/ /\ block' = Grown(v, n)
        /\ vec' = [vec EXCEPT ![v].data = NewBlock, ![v].cap = n]
        /\ Deletes(vec[v].data)
        /\ UNCHANGED <<held, thrown>>
     \/ ReserveThrows(v)

\* push_back and emplace_back: the value is taken before the array may move.
PutAt(h, d, n, x) == [h EXCEPT ![d].els[n] = x]
PushBack(v, x) ==
  LET full == vec[v].size = vec[v].cap
      cap == IF vec[v].cap = 0 THEN 1 ELSE 2 * vec[v].cap
      n == vec[v].size + 1
      heap == IF full THEN Grown(v, cap) ELSE block
      data == IF full THEN NewBlock ELSE vec[v].data
      grown == IF full THEN [data |-> data, size |-> n - 1, cap |-> cap] ELSE vec[v]
  IN /\ full => RoomForBlock /\ cap <= MaxCap
     /\ UNCHANGED <<impl, kind>>
     /\ \/ /\ block' = PutAt(heap, data, n, x)
           /\ vec' = [vec EXCEPT ![v] = [grown EXCEPT !.size = n]]
           /\ held' = [held EXCEPT ![v] = Append(@, x)]
           /\ IF full THEN Deletes(vec[v].data) ELSE UNCHANGED undefined
           /\ UNCHANGED thrown
        \/ full /\ ReserveThrows(v)
        \/ /\ MayThrow   \* the assignment into the array throws: only grown
           /\ block' = heap /\ vec' = [vec EXCEPT ![v] = grown]
           /\ IF full THEN Deletes(vec[v].data) ELSE UNCHANGED undefined
           /\ UNCHANGED <<held, thrown>>

\* The contract: never on an empty vector.  The element stays until later.
PopBack(v) ==
  /\ vec[v].size > 0
  /\ vec' = [vec EXCEPT ![v].size = @ - 1]
  /\ held' = [held EXCEPT ![v] = Front(@)]
  /\ UNCHANGED <<impl, kind, block, thrown, undefined>>

VectorsNext ==
  /\ ~undefined
  /\ \E v \in Vecs :
       \/ \E s \in {<<>>} \cup {<<x>> : x \in Elems} \cup {<<x, x>> : x \in Elems} :
            InitList(v, s) /\ UNCHANGED <<impl, kind>>
       \/ \E o \in Vecs : Copy(v, o) \/ Move(v, o)
       \/ Destroy(v)
       \/ \E n \in 0..MaxCap : Reserve(v, n)
       \/ \E x \in Elems : PushBack(v, x)
       \/ PopBack(v)

-----------------------------------------------------------------------------
(***************************************************************************)
(* The contracts at the head of vector_basic.cpp, for both classes: every  *)
(* array has one owner and the capacity its owner believes, and a vector   *)
(* holds what the calls that returned put there - even after a call that   *)
(* threw.  What the classes do not manage is named: an array may be leaked *)
(* where basic has no catch (its initializer list) and anywhere in vec_1;  *)
(* elements may be lost only by moving elements whose move throws; and the *)
(* one undefined step is vec_1's, whose initializer list makes one object. *)
(***************************************************************************)
Owned == {vec[v].data : v \in Vecs} \ {0}
VectorsKeepContract ==
  /\ undefined => impl = "vec_1"
  /\ ~undefined =>
       /\ Owned \subseteq DOMAIN block
       /\ \A v \in Vecs :
            /\ vec[v].size <= vec[v].cap
            /\ vec[v].data = 0 => vec[v] = EmptyVec
            /\ vec[v].data # 0 => vec[v].data \notin {vec[w].data : w \in Vecs \ {v}}
            /\ vec[v].data # 0 /\ block[vec[v].data].form = "array"
                 => Len(block[vec[v].data].els) = vec[v].cap
            /\ Len(held[v]) = vec[v].size
            /\ Now(v) # held[v] =>
                 "reserve" \in thrown /\ (kind = "moveonly" \/ impl = "vec_1")
       /\ DOMAIN block # Owned =>
            IF impl = "basic" THEN "list" \in thrown ELSE thrown # {}
=============================================================================
