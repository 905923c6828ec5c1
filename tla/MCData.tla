-------------------------------- MODULE MCData --------------------------------
(* Small instances of Objects, Reviews and GitPush, the handlers of the data *)
(* plane. They share no variable, so a behaviour moves one of them and       *)
(* leaves the others in their initial states.                                *)
EXTENDS Objects, Reviews, GitPush

(* A snapshot of each of the three forms, a File node and its content. *)
MCNode ==
    [d \in {"new", "mid", "old", "file", "text"} |->
      CASE d = "new"  -> [kind |-> "Snapshot", fileDigests |-> {},
                          files |-> {[path |-> "a", digest |-> "file", content |-> "text"]}]
        [] d = "mid"  -> [kind |-> "Snapshot", fileDigests |-> {},
                          files |-> {[path |-> "a", digest |-> "file", content |-> ""]}]
        [] d = "old"  -> [kind |-> "Snapshot", fileDigests |-> {"file"}, files |-> {}]
        [] d = "file" -> [kind |-> "File", path |-> "a", content |-> "text"]
        [] d = "text" -> [kind |-> "Blob"]]

(* One review; bob is known by his id and by his address. *)
MCNameLists == {<<"bob", "bob@x">>}
MCAccount   == [n \in {"ann", "bob", "bob@x"} |-> IF n = "ann" THEN "ann@x" ELSE "bob@x"]
MCHeadOf    == [r \in {"r1"} |-> "snap"]

(* Two branches and two commits, the second a child of the first. *)
MCParent == [c \in {"c1", "c2"} |-> IF c = "c2" THEN "c1" ELSE "none"]

(* Bound: no review request begins that MaxVersions or MaxComments would keep *)
(* from its commit.                                                          *)
BegunCanCommit ==
    \A p \in Requests : req[p] = Idle =>
        /\ req'[p].op \in {"state", "update"} => Len(versions) < MaxVersions
        /\ req'[p].op = "comment" => Cardinality(comments) < MaxComments

(* Bound: no git session begins when MaxPushes leaves it no changeset beside  *)
(* those of the sessions that are still to store theirs.                      *)
ToStore == {p \in Sessions : sess[p].pc \in {"base", "store"}}
SessionsHaveRoom == Len(css') + Cardinality(ToStore') <= MaxPushes

DataInit == Init /\ ReviewsInit /\ GitInit
DataNext ==
    \/ ReviewsInit /\ GitInit /\ Next /\ UNCHANGED <<reviewVars, gitVars>>
    \/ Init /\ GitInit /\ ReviewsNext /\ BegunCanCommit /\ UNCHANGED <<vars, gitVars>>
    \/ Init /\ ReviewsInit /\ GitNext /\ SessionsHaveRoom /\ UNCHANGED <<vars, reviewVars>>
dataVars == <<vars, reviewVars, gitVars>>
DataSpec ==
    /\ DataInit /\ [][DataNext]_dataVars
    /\ \A p \in Procs : WF_vars(Handler(p))
=============================================================================
