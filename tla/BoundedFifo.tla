----------------------------- MODULE BoundedFifo -----------------------------
(***************************************************************************)
(* What a single-producer/single-consumer queue promises its two users:    *)
(* items leave in the order in which they were accepted, none is lost,     *)
(* duplicated or invented, and at most Bound of them wait.  A refused push *)
(* and an empty pop change nothing (they are stuttering steps).            *)
(*                                                                         *)
(* Implemented by SpscRing, and by it on behalf of the rings of hft_test   *)
(* and of the queues of frame_work, which the composed models take as      *)
(* atomic sequences.                                                       *)
(***************************************************************************)
EXTENDS Naturals, Sequences

CONSTANTS
    Items,    \* what may be pushed
    Blank,    \* stands for "nothing popped yet"
    Bound     \* the largest number of waiting items

VARIABLES
    queue,    \* the accepted items not yet popped, oldest first
    got       \* the item the last successful pop returned

vars == <<queue, got>>

TypeOK ==
    /\ queue \in Seq(Items)
    /\ Len(queue) <= Bound
    /\ got \in Items \cup {Blank}

Init ==
    /\ queue = <<>>
    /\ got = Blank

Put(v) ==
    /\ Len(queue) < Bound
    /\ queue' = Append(queue, v)
    /\ UNCHANGED got

Get ==
    /\ queue # <<>>
    /\ got' = Head(queue)
    /\ queue' = Tail(queue)

Next ==
    \/ \E v \in Items : Put(v)
    \/ Get

Spec == Init /\ [][Next]_vars

(***************************************************************************)
(* No starvation: unless the queue is empty again and again, pops keep     *)
(* succeeding.  Written without ENABLED, it is the fairness of Get.        *)
(***************************************************************************)
Served == []<>(queue = <<>>) \/ []<><<Get>>_vars

==============================================================================
