----------------------------- MODULE MCPrograms ------------------------------
(***************************************************************************)
(* The parts of the repository that are programs of their own, each a      *)
(* module: one is chosen at the start and runs alone, the others stay in   *)
(* one initial state.                                                      *)
(***************************************************************************)
EXTENDS Treap, Vectors, Callables, Numbers, CycleStats, Frames, DepthBook,
        SharedRegion, StoreLoad, Churn

CONSTANTS Programs    \* the programs to choose from

VARIABLE program

MCEntries == {<<1, 1>>, <<2, 1>>, <<2, 2>>, <<3, 1>>, <<4, 1>>}
\* Each key has two addresses of its own: which node is where tells no more.
MCMalloc(free, k) == IF k \in free THEN k ELSE IF k + 4 \in free THEN k + 4
                     ELSE CHOOSE a \in free : TRUE
MCDeltas == {-1, 0, 5, 9}
MCRequested == [allocs : {0, 1, 4}, live : 0..2, batch : 0..2]

All == <<program, treapVars, vecVars, callVars, numVars, cycVars, frameVars,
         bookVars, regionVars, litmusVars, churnVars>>

Waits(p) == program # p
ProgramsInit ==
  /\ program \in Programs
  /\ TreapInit /\ CallablesInit /\ FramesInit
  /\ VectorsInit /\ (Waits("vectors") => impl = "basic" /\ kind = "plain")
  /\ NumbersInit /\ (Waits("numbers") => parser = "atoi")
  /\ CycleInit /\ (Waits("cycles") => bench = "user")
  /\ BookInit /\ (Waits("book") => feeder = "synthetic")
  /\ RegionInit /\ (Waits("region") => ~leftover)
  /\ LitmusInit /\ (Waits("litmus") => mode = "SEQ_CST")
  /\ ChurnInit /\ (Waits("churn") => opt = [allocs |-> 0, live |-> DefaultLive, batch |-> DefaultBatch])

ProgramsNext ==
  \/ program = "treap" /\ TreapNext /\ UNCHANGED <<program, vecVars, callVars, numVars, cycVars, frameVars, bookVars, regionVars, litmusVars, churnVars>>
  \/ program = "vectors" /\ VectorsNext /\ UNCHANGED <<program, treapVars, callVars, numVars, cycVars, frameVars, bookVars, regionVars, litmusVars, churnVars>>
  \/ program = "callables" /\ CallablesNext /\ UNCHANGED <<program, treapVars, vecVars, numVars, cycVars, frameVars, bookVars, regionVars, litmusVars, churnVars>>
  \/ program = "numbers" /\ NumbersNext /\ UNCHANGED <<program, treapVars, vecVars, callVars, cycVars, frameVars, bookVars, regionVars, litmusVars, churnVars>>
  \/ program = "cycles" /\ CycleNext /\ UNCHANGED <<program, treapVars, vecVars, callVars, numVars, frameVars, bookVars, regionVars, litmusVars, churnVars>>
  \/ program = "frames" /\ FramesNext /\ UNCHANGED <<program, treapVars, vecVars, callVars, numVars, cycVars, bookVars, regionVars, litmusVars, churnVars>>
  \/ program = "book" /\ BookNext /\ UNCHANGED <<program, treapVars, vecVars, callVars, numVars, cycVars, frameVars, regionVars, litmusVars, churnVars>>
  \/ program = "region" /\ RegionNext /\ UNCHANGED <<program, treapVars, vecVars, callVars, numVars, cycVars, frameVars, bookVars, litmusVars, churnVars>>
  \/ program = "litmus" /\ LitmusNext /\ UNCHANGED <<program, treapVars, vecVars, callVars, numVars, cycVars, frameVars, bookVars, regionVars, churnVars>>
  \/ program = "churn" /\ ChurnNext /\ UNCHANGED <<program, treapVars, vecVars, callVars, numVars, cycVars, frameVars, bookVars, regionVars, litmusVars>>

ProgramsSpec == ProgramsInit /\ [][ProgramsNext]_All
=============================================================================
