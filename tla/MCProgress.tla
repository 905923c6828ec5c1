------------------------------ MODULE MCProgress ------------------------------
(* Do pushes and jobs end?  Small instances of RefStore, with every kind of  *)
(* request at a server that requires signatures, and of CIRuns, with one job *)
(* of one run, a loss, a restart and a cancellation. They share no variable: *)
(* a behaviour moves one of them.                                            *)
EXTENDS CIRuns

CONSTANTS Pushes, NoTarget, NoPush, Latest, Main, Other, t1, t2

VARIABLES refs, log, committed, holder, writes, pc, req, item, mainToo, cur, par,
          okItems, triggered, notified, answer
VARIABLES part

refVars == <<refs, log, committed, holder, writes, pc, req, item, mainToo, cur, par,
             okItems, triggered, notified, answer>>

FF(r, o, n)    == [name |-> r, old |-> o, new |-> n, force |-> FALSE]
Force(r, n)    == [name |-> r, old |-> NoTarget, new |-> n, force |-> TRUE]
Single(u)      == [kind |-> "single", updates |-> <<u>>]
Batch(us)      == [kind |-> "batch", updates |-> us]

(* Creates, fast-forwards and forced updates of the three refs, batches    *)
(* that lock rows in opposite orders, an item with no target, an unsigned  *)
(* one (t2), a batch with an item that can fail, and empty requests.       *)
MixedRequests ==
    { Single(FF(Other, NoTarget, t1)),
      Single(FF(Other, t1, t2)),
      Single(Force(Main, t2)),
      Single(FF(Other, NoTarget, NoTarget)),
      Batch(<<FF(Latest, NoTarget, t1), FF(Other, NoTarget, t1)>>),
      Batch(<<Force(Other, t2), Force(Main, t2)>>),
      Batch(<<Force(Main, t1), FF(Other, t1, t2)>>),
      Batch(<<FF(Main, NoTarget, NoTarget), Force(Latest, t2)>>),
      Batch(<<>>) }

Ref == INSTANCE RefStore WITH
    Refs <- {Latest, Main, Other}, Targets <- {t1, t2},
    CIRefs <- {Latest, Main}, Unsigned <- {t2}, RequireSigned <- TRUE, MaxConns <- 3,
    Requests <- MixedRequests

Alone     == <<"a">>
AloneDeps == [n \in {"a"} |-> {}]

RefStep(step) == part = "refs" /\ step /\ UNCHANGED <<part, vars>>
CIStep(step)  == part = "ci" /\ step /\ UNCHANGED <<part, refVars>>

(* The requests are part of RefStore's initial state; while the CI engine    *)
(* moves they are the empty one.                                             *)
ProgressInit ==
    /\ Ref!Init /\ Init
    /\ part \in {"refs", "ci"}
    /\ part = "ci" => req = [p \in Pushes |-> Batch(<<>>)]
ProgressNext ==
    \/ part = "refs" /\ Ref!Next /\ UNCHANGED <<part, vars>>
    \/ part = "ci" /\ Next /\ UNCHANGED <<part, refVars>>
allVars == <<part, refVars, vars>>

(* The fairness of the two modules' FairSpec. *)
ProgressSpec ==
    /\ ProgressInit /\ [][ProgressNext]_allVars
    /\ \A p \in Pushes : WF_allVars(RefStep(Ref!HandlerStep(p))) /\ WF_allVars(RefStep(Ref!DeadlockVictim(p)))
    /\ \A t \in Threads : WF_allVars(CIStep(HandlerStep(t)))
    /\ WF_allVars(CIStep(ReaperStep))
    /\ \A w \in Runners : SF_allVars(CIStep(\E t \in Threads : RunnerStep(w, t)))
    /\ \A j \in Jobs : WF_allVars(CIStep(~ Attended(j) /\ Age(j)))

(* RefStore's EveryPushEnds, where a push can move. *)
EveryPushEnds     == \A p \in Pushes : part = "refs" ~> (pc[p] = "done")
=============================================================================
