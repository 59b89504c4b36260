------------------------------- MODULE MCRings --------------------------------
(***************************************************************************)
(* The ring, and the log queues built of it: one of the two is chosen at   *)
(* the start and runs, the other stays in its initial state.               *)
(*                                                                         *)
(* SpscRing has four slots (three items) and two values: the ring fills,   *)
(* empties and wraps around any number of times, and each thread's view of *)
(* the other index can be up to a lap old.                                 *)
(*                                                                         *)
(* Logging has two sources; the first one, like the feed with its          *)
(* symbols, may push two lines in a round, as many as fit.                 *)
(***************************************************************************)
EXTENDS SpscRing, Logging

VARIABLE program

MCPerRound == <<2, 1>>

RingsInit == program \in {"ring", "logging"} /\ Init /\ LoggingInit

RingsNext ==
  \/ program = "ring" /\ Next /\ UNCHANGED <<program, logVars>>
  \/ program = "logging" /\ LoggingNext /\ UNCHANGED <<program, vars>>

RingRuns(act) == program = "ring" /\ act /\ UNCHANGED <<program, logVars>>
LoggingRuns(act) == program = "logging" /\ act /\ UNCHANGED <<program, vars>>

all == <<program, vars, logVars>>

(* FairSpec of the one or LoggingFairSpec of the other. *)
RingsSpec ==
  /\ RingsInit /\ [][RingsNext]_all
  /\ SF_all(RingRuns(PopItem)) /\ WF_all(RingRuns(PopRead)) /\ WF_all(RingRuns(PopPublish))
  /\ WF_all(LoggingRuns(Logger)) /\ WF_all(LoggingRuns(Stop))
  /\ \A s \in Sources : WF_all(LoggingRuns(Source(s))) /\ WF_all(LoggingRuns(EndRound(s)))

(***************************************************************************)
(* Every thread of Logging ends (LoggingTerminates), when it runs.         *)
(***************************************************************************)
EveryLogThreadEnds == program = "logging" => LoggingTerminates

==============================================================================
