------------------------------- MODULE Logging --------------------------------
(***************************************************************************)
(* frame_work/src/logging.cpp and the log calls of the other threads.  A   *)
(* source is a thread with a queue of its own: it looks at the flag, does  *)
(* a round of its loop, in which it may push some lines, and looks again.  *)
(* The logger drains the queues one after the other, in the order in which *)
(* they were registered.                                                   *)
(*                                                                         *)
(* What a line says is left out: a queue is the number of lines in it.     *)
(* But the indices of a queue are acquire loads that may return old values *)
(* (SpscRing): a pop may find an empty queue that holds lines, a push a    *)
(* full one that has room.  How old a value a thread may still get is what *)
(* seen and freed count: the lines the logger is bound to see because      *)
(* their push happened before something it has read, and the pops whose    *)
(* store the source may not have read yet.                                 *)
(***************************************************************************)
EXTENDS Integers, Sequences

CONSTANTS
    NSources,    \* registered sources: 1..NSources, in order
    Slots,       \* lines a queue holds: CapacityPow2 - 1
    PerRound     \* lines a source may push in one round of its loop

Sources == 1..NSources

ASSUME LoggingAssumption ==
    /\ NSources \in Nat \ {0} /\ Slots \in Nat \ {0}
    /\ PerRound \in [Sources -> Nat \ {0}]

VARIABLES
    running,   \* the flag main clears
    srcPc,     \* place of each source
    left,      \* lines it may still push in this round
    queue,     \* lines in each log queue
    seen,      \* how many of them the logger is bound to see
    freed,     \* pops the source may not have seen
    logPc,     \* place of the logger
    at,        \* the source it drains
    owed       \* history: of the lines the logger was bound to see when it
               \* read that the flag is cleared, those not printed; 0 before

srcVars == <<srcPc, left>>
logVars == <<running, srcVars, queue, seen, freed, logPc, at, owed>>

------------------------------------------------------------------------------
LoggingInit ==
    /\ running = TRUE
    /\ srcPc = [s \in Sources |-> "check"] /\ left = [s \in Sources |-> 0]
    /\ queue = [s \in Sources |-> 0] /\ seen = [s \in Sources |-> 0]
    /\ freed = [s \in Sources |-> 0]
    /\ logPc = "check" /\ at = 1
    /\ owed = [s \in Sources |-> 0]

(* The head of a source's loop. *)
Check(s) ==
    /\ srcPc[s] = "check"
    /\ IF running
       THEN /\ srcPc' = [srcPc EXCEPT ![s] = "round"]
            /\ left' = [left EXCEPT ![s] = PerRound[s]]
       ELSE /\ srcPc' = [srcPc EXCEPT ![s] = "done"]
            /\ UNCHANGED left
    /\ UNCHANGED <<running, queue, seen, freed, logPc, at, owed>>

(* log: the load of tail_ misses f of the pops; a queue that looks full    *)
(* refuses the line, and nobody looks.                                     *)
Log(s) ==
    /\ srcPc[s] = "round" /\ left[s] > 0
    /\ left' = [left EXCEPT ![s] = @ - 1]
    /\ \E f \in 0..freed[s] :
         /\ freed' = [freed EXCEPT ![s] = f]
         /\ queue' = IF queue[s] + f < Slots
                     THEN [queue EXCEPT ![s] = @ + 1] ELSE queue
    /\ UNCHANGED <<running, srcPc, seen, logPc, at, owed>>

(* Whether a round has more to log is the source's business. *)
EndRound(s) ==
    /\ srcPc[s] = "round"
    /\ srcPc' = [srcPc EXCEPT ![s] = "check"]
    /\ left' = [left EXCEPT ![s] = 0]
    /\ UNCHANGED <<running, queue, seen, freed, logPc, at, owed>>

Source(s) == Check(s) \/ Log(s) \/ EndRound(s)

------------------------------------------------------------------------------
(* Logger::run: drain_once in every round, and once more after the loop.   *)

(* Fault: no drain after the loop. *)
LoggerCheckFault ==
    /\ logPc = "check"
    /\ IF running THEN logPc' = "drain" /\ UNCHANGED owed
                  ELSE logPc' = "done" /\ owed' = seen
    /\ UNCHANGED <<running, srcVars, queue, seen, freed, at>>

LoggerCheck ==
    /\ logPc = "check"
    /\ IF running THEN logPc' = "drain" /\ UNCHANGED owed
                  ELSE logPc' = "last" /\ owed' = seen
    /\ UNCHANGED <<running, srcVars, queue, seen, freed, at>>

Draining == logPc \in {"drain", "last"}

(* Fault: a line that is popped is not removed. *)
PrintLineFault ==
    /\ Draining
    /\ \E view \in [Sources -> 0..Slots] :
         /\ \A s \in Sources : seen[s] <= view[s] /\ view[s] <= queue[s]
         /\ view[at] > 0
         /\ seen' = view
    /\ owed' = [owed EXCEPT ![at] = IF @ > 0 THEN @ - 1 ELSE 0]
    /\ UNCHANGED <<running, srcVars, queue, freed, logPc, at>>

(* drain_once: pop's load of head_ shows a line.  With it the logger may   *)
(* come to know of pushes to any queue: of all that happened before the    *)
(* pushes it reads, through the other threads and their queues too.        *)
PrintLine ==
    /\ Draining
    /\ \E view \in [Sources -> 0..Slots] :
         /\ \A s \in Sources : seen[s] <= view[s] /\ view[s] <= queue[s]
         /\ view[at] > 0
         /\ seen' = [view EXCEPT ![at] = @ - 1]
    /\ queue' = [queue EXCEPT ![at] = @ - 1]
    /\ freed' = [freed EXCEPT ![at] = @ + 1]
    /\ owed' = [owed EXCEPT ![at] = IF @ > 0 THEN @ - 1 ELSE 0]
    /\ UNCHANGED <<running, srcVars, logPc, at>>

(* Fault: at most one line of each source per drain. *)
NextSourceFault ==
    /\ Draining
    /\ IF at < NSources
       THEN at' = at + 1 /\ UNCHANGED logPc
       ELSE at' = 1 /\ logPc' = IF logPc = "last" THEN "done" ELSE "check"
    /\ UNCHANGED <<running, srcVars, queue, seen, freed, owed>>

(* drain_once: pop finds nothing, which it may as long as the logger is    *)
(* not bound to see a line; on to the next source.                         *)
NextSource ==
    /\ Draining /\ seen[at] = 0
    /\ IF at < NSources
       THEN at' = at + 1 /\ UNCHANGED logPc
       ELSE at' = 1 /\ logPc' = IF logPc = "last" THEN "done" ELSE "check"
    /\ UNCHANGED <<running, srcVars, queue, seen, freed, owed>>

Logger == LoggerCheck \/ PrintLine \/ NextSource

------------------------------------------------------------------------------
(* main clears the flag.  No push and no pop is ordered with this store;   *)
(* a thread that still reads TRUE is one that looked before it.            *)
Stop ==
    /\ running
    /\ running' = FALSE
    /\ UNCHANGED <<srcVars, queue, seen, freed, logPc, at, owed>>

AllDone == logPc = "done" /\ \A s \in Sources : srcPc[s] = "done"

Exit == AllDone /\ UNCHANGED logVars

LoggingNext == (\E s \in Sources : Source(s)) \/ Logger \/ Stop \/ Exit

LoggingSpec == LoggingInit /\ [][LoggingNext]_logVars

(* The operating system runs every thread, and the round of a source ends. *)
LoggingFairness ==
    /\ WF_logVars(Logger) /\ WF_logVars(Stop)
    /\ \A s \in Sources : WF_logVars(Source(s)) /\ WF_logVars(EndRound(s))

LoggingFairSpec == LoggingSpec /\ LoggingFairness

------------------------------------------------------------------------------
(***************************************************************************)
(* Types, and the capacity of the queues: it covers the lines in a queue   *)
(* and the slots its source does not know to be free again.                *)
(***************************************************************************)
LoggingTypeOK ==
    /\ running \in BOOLEAN
    /\ srcPc \in [Sources -> {"check", "round", "done"}]
    /\ left \in [Sources -> Nat] /\ \A s \in Sources : left[s] <= PerRound[s]
    /\ queue \in [Sources -> 0..Slots] /\ freed \in [Sources -> 0..Slots]
    /\ \A s \in Sources : queue[s] + freed[s] <= Slots
    /\ seen \in [Sources -> 0..Slots] /\ owed \in [Sources -> 0..Slots]
    /\ logPc \in {"check", "drain", "last", "done"}
    /\ at \in Sources

(***************************************************************************)
(* What the extra drain_once after the loop ("why extra?" in the code)     *)
(* achieves: when the logger is done, every line that it was bound to see  *)
(* when it read that the flag is cleared has been printed.  Such are the   *)
(* lines logged before one it had printed by then, by whatever thread: the *)
(* output does not end with an effect whose cause is missing.  It does not *)
(* achieve more: a line pushed before main's store may stay behind, since  *)
(* nothing orders the two.                                                 *)
(***************************************************************************)
KnownLinesArePrinted ==
    logPc = "done" => \A s \in Sources : owed[s] = 0

(***************************************************************************)
(* Why: the sources behind the logger in its last drain owe nothing, and   *)
(* what a source owes is in its queue, in front, where the logger is bound *)
(* to see it.                                                              *)
(***************************************************************************)
LoggingInv ==
    /\ LoggingTypeOK
    /\ \A s \in Sources : owed[s] <= seen[s] /\ seen[s] <= queue[s]
    /\ logPc \in {"check", "drain"} => \A s \in Sources : owed[s] = 0
    /\ logPc \in {"last", "done"} => ~running
    /\ logPc = "last" => \A s \in 1..at - 1 : owed[s] = 0
    /\ logPc \in {"check", "done"} => at = 1
    /\ KnownLinesArePrinted

(***************************************************************************)
(* While the flag is set a source may log as fast as the logger prints and *)
(* keep it from the sources behind; once the flag is cleared the logger    *)
(* gets through all the same and every thread ends.                        *)
(***************************************************************************)
LoggingTerminates == <>AllDone

==============================================================================
