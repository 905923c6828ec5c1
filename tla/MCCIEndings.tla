----------------------------- MODULE MCCIEndings ------------------------------
(* Two instances of CIRuns, of which a behaviour runs one. "main" has the    *)
(* constants of the configuration. "side": two runs of a concurrency group,  *)
(* of one job each, where a new run cancels the one in progress.             *)
EXTENDS CIRuns, TLC

CONSTANTS Shapes, t1, t2, w1, w2

VARIABLE shape

(* Two jobs, of which the second needs the first, or neither the other. *)
Pair     == <<"a", "b">>
PairDeps == [n \in {"a", "b"} |-> IF n = "b" THEN {"a"} ELSE {}]
NoDeps   == [n \in {"a", "b"} |-> {}]

SideOrder == <<"a">>
SideNeeds == [n \in {"a"} |-> {}]

Side == INSTANCE CIRuns WITH
    JobOrder <- SideOrder, Needs <- SideNeeds, Concurrency <- "cancel", MaxSilences <- 0

(* "main" triggers one run only. *)
OneRun == Cardinality(Created) + Cardinality({t \in All : thread[t].pc \in CreatePCs}) <= 1

(* In "side" one runner at most is busy while the reaper is at work. *)
OneAtATime == \/ thread[Reaper].pc = "idle"
              \/ Cardinality({w \in Runners : runner[w] # Resting}) <= 1

EndingsInit ==
    /\ shape \in Shapes
    /\ \/ shape = "main" /\ Init
       \/ shape = "side" /\ Side!Init

EndingsNext ==
    \/ shape = "main" /\ Next /\ OneRun' /\ UNCHANGED shape
    \/ shape = "side" /\ Side!Next /\ OneAtATime' /\ UNCHANGED shape

EndingsSpec == EndingsInit /\ [][EndingsNext]_<<vars, shape>>

Symmetry == Permutations({t1, t2}) \cup Permutations({w1, w2})
=============================================================================
