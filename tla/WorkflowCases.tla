--------------------------- MODULE WorkflowCases ---------------------------
(***************************************************************************)
(* The algorithms on workflow files, one question at a time: a behaviour   *)
(* draws a job graph, a caller and its reusable workflow, a matrix, or a   *)
(* name and a glob, and computes what the code answers.                    *)
(***************************************************************************)
EXTENDS WorkflowLang

CONSTANTS Keys,        \* job keys of a file
          Dimensions,  \* keys of a matrix
          Chars,       \* characters of names
          GlobChars,   \* characters of patterns
          MaxName,     \* longest name and pattern
          MaxIncludes  \* how many include entries a matrix has

VARIABLES subject,     \* which algorithm
          question,
          answer,
          done         \* whether the answer has been computed

vars == <<subject, question, answer, done>>

SeqsUpTo(S, n) == UNION {[1 .. m -> S] : m \in 0 .. n}

Job(needs, uses) == [needs |-> needs, uses |-> uses, matrix |-> NoMatrix, named |-> FALSE, runsOn |-> <<"linux">>,
                     steps |-> IF uses = "" THEN << {"run"} >> ELSE <<>>]

\* Job graphs; <<"ghost">> is a job that is not there.
Graphs == {[k \in Keys |-> Job(needs[k], "")] :
             needs \in [Keys -> SeqsUpTo(Keys \cup {<<"ghost">>}, 2)]}

\* The iteration orders of the map of jobs.
Orders == {o \in [1 .. Cardinality(Keys) -> Keys] : \A i, j \in DOMAIN o : o[i] = o[j] => i = j}

\* Callers with one need per job at most, and the workflow they call.
Callers == {[k \in Keys |-> Job(needs[k], uses[k])] :
              needs \in [Keys -> SeqsUpTo(Keys, 1)], uses \in [Keys -> {"", "lib"}]}
Called == {[k \in {<<"p">>, <<"q">>} |-> Job(needs[k], "")] :
             needs \in [{<<"p">>, <<"q">>} -> SeqsUpTo({<<"p">>, <<"q">>}, 1)]}

Triggers(call) == [t \in {"push", "pull_request", "review", "workflow_dispatch", "workflow_call", "schedule"} |->
                     IF t = "workflow_call" THEN call ELSE <<>>]
File(jobs, call) == [name |-> "file", on |-> Triggers(call), jobs |-> jobs]

\* Matrices: one or two values per dimension; entries of include and exclude
\* may also have the key "extra".
Entries == UNION {[D -> 1 .. 2] : D \in (SUBSET (Dimensions \cup {"extra"})) \ {{}}}
Grids == UNION {[D -> {<<1>>, <<1, 2>>}] : D \in SUBSET Dimensions}
Matrices == [values : Grids, include : SeqsUpTo(Entries, MaxIncludes), exclude : {<<>>}]
              \cup [values : Grids, include : SeqsUpTo(Entries, 1), exclude : SeqsUpTo(Entries, 1)]

Init ==
  /\ answer = <<>>
  /\ done = FALSE
  /\ \/ subject = "graph" /\ question \in Graphs
     \/ subject = "reuse" /\ question \in [jobs : {j \in Callers : Accepts(File(j, <<>>))},
                                           lib : {j \in Called : Accepts(File(j, <<>>))},
                                           call : {<<>>, <<TRUE>>}]
     \/ subject = "matrix" /\ question \in Matrices
     \/ subject = "glob" /\ question \in [name : SeqsUpTo(Chars, MaxName), pattern : SeqsUpTo(GlobChars, MaxName)]

Judge ==
  /\ subject = "graph"
  /\ answer' = [accepted |-> {validateDependencies(question, o) : o \in Orders}, order |-> GetJobOrder(question)]

Inline ==
  /\ subject = "reuse"
  /\ LET jobs == resolveReusableWorkflows(question.jobs,
                   [p \in {"lib"} |-> File(question.lib, question.call)])
     IN answer' = [jobs |-> jobs, order |-> GetJobOrder(jobs)]

Expand ==
  /\ subject = "matrix"
  /\ answer' = ExpandMatrix(question)

Match ==
  /\ subject = "glob"
  /\ answer' = [branch |-> matchPattern(question.name, question.pattern),
                path |-> matchPathPattern(question.name, question.pattern)]

Next ==
  /\ ~ done
  /\ done' = TRUE
  /\ Judge \/ Inline \/ Expand \/ Match
  /\ UNCHANGED <<subject, question>>

(***************************************************************************)
(* Properties.                                                             *)
(***************************************************************************)

Answered(s) == subject = s /\ done

NeedsOf(jobs, k) == Range(jobs[k].needs)

\* Every job once, and after the jobs it needs.
IsJobOrder(order, jobs) ==
  /\ Range(order) = DOMAIN jobs
  /\ Len(order) = Cardinality(DOMAIN jobs)
  /\ \A i \in DOMAIN order : NeedsOf(jobs, order[i]) \subseteq {order[j] : j \in 1 .. i - 1}

\* Whatever the order in which Go ranges over the map, Validate accepts a job
\* graph exactly when its needs are its own jobs and no jobs wait for each
\* other in a circle; and of an accepted graph GetJobOrder makes an order in
\* which every job comes once, after its needs, instead of the error it has
\* for cycles.
JobGraphsAreJudged ==
  Answered("graph") =>
    LET closed == \A k \in DOMAIN question : NeedsOf(question, k) \subseteq DOMAIN question
        knots  == {S \in (SUBSET DOMAIN question) \ {{}} : \A k \in S : NeedsOf(question, k) \cap S # {}}
    IN /\ answer.accepted = {closed /\ knots = {}}
       /\ closed /\ knots = {} => IsJobOrder(answer.order, question)

\* Inlining keeps the order of the caller: in a workflow in which nothing
\* needs a calling job, every inlined job comes after everything its caller
\* needs, and every other job after its own needs.
InlinedJobsComeAfterTheCallersNeeds ==
  Answered("reuse") =>
    LET calls == {k \in DOMAIN question.jobs : question.jobs[k].uses # "" /\ question.call # <<>>}
        place(k) == CHOOSE i \in DOMAIN answer.order : answer.order[i] = k
    IN (\A k \in DOMAIN question.jobs : NeedsOf(question.jobs, k) \cap calls = {}) =>
         /\ IsJobOrder(answer.order, answer.jobs)
         /\ \A k \in calls, c \in DOMAIN question.lib : \A n \in NeedsOf(question.jobs, k) :
              place(n) < place(<<k[1], c[1]>>)

\* A matrix runs what it asks for: every combination of the values that no
\* exclude entry agrees with has its instance, with its own values untouched
\* by the includes; without excludes the values of every include entry are
\* found together in some instance; and no instance is an excluded one.
MatricesRunWhatTheyAskFor ==
  Answered("matrix") =>
    LET dims  == DOMAIN question.values
        cells == {c \in [dims -> 1 .. 2] : \A d \in dims : c[d] \in Range(question.values[d])}
        differs(c, e) == \E k \in dims \cap DOMAIN e : c[k] # e[k]
        has(i, f) == \A k \in DOMAIN f : k \in DOMAIN answer[i] /\ answer[i][k] = f[k]
    IN /\ \A c \in cells : (\A i \in DOMAIN question.exclude : differs(c, question.exclude[i]))
                             => dims = {} \/ \E i \in DOMAIN answer : has(i, c)
       /\ question.exclude = <<>> => \A n \in DOMAIN question.include :
                                        \E i \in DOMAIN answer : has(i, question.include[n])
       /\ \A i \in DOMAIN answer, n \in DOMAIN question.exclude : ~ has(i, question.exclude[n])

\* No push is missed because of a ** pattern: a name that a pattern with only
\* plain characters around its ** stands for is matched, as a branch or tag
\* (matchPattern) and as a path (matchPathPattern), where **/*.x is also
\* meant.
DoubleStarsMissNothing ==
  Answered("glob") =>
    LET plain(p) == Range(p) \cap {"*", "?"} = {}
    IN Glob(question.name, question.pattern) =>
         /\ plain(question.pattern) => answer.branch
         /\ \/ plain(question.pattern)
            \/ Len(question.pattern) > 3 /\ SubSeq(question.pattern, 1, 4) = <<"**", "/", "*", ".">>
                 /\ plain(SubSeq(question.pattern, 4, Len(question.pattern)))
            => answer.path

\* Every job has its place after what it needs, whether it stands in the file
\* or is inlined from another one; what cannot be ordered is refused.
JobsAreOrdered == JobGraphsAreJudged /\ InlinedJobsComeAfterTheCallersNeeds
=============================================================================
