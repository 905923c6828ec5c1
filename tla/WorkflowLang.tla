---------------------------- MODULE WorkflowLang ----------------------------
(***************************************************************************)
(* Workflow files as the control plane reads them: validation of the job   *)
(* graph (parser.go), matrix expansion and job order (matrix.go), reusable *)
(* workflows (ci.go), trigger rules and globs (trigger.go) and cron lines  *)
(* (cron.go).  Pure operators; only TLC's runs use this module.            *)
(*                                                                         *)
(* A workflow is [name, on, jobs]; a job is [needs, uses, matrix, named,   *)
(* runsOn, steps] with needs a sequence of job keys, uses a workflow path  *)
(* or "", named whether its name mentions the keys of its matrix, and      *)
(* steps a sequence of the sets of {"uses", "run"} a step has.             *)
(* A job key is a sequence: <<k>> in a file, <<k, c>> once inlined.        *)
(* Branch names, paths and patterns are sequences of characters, a pattern *)
(* with "*", "?" and "**" as characters of their own.                      *)
(***************************************************************************)
EXTENDS Naturals, Sequences, SequencesExt, FiniteSetsExt, Functions

(***************************************************************************)
(* Validation.                                                             *)
(***************************************************************************)

IsReusableWorkflowCall(job) == job.uses # ""

\* Step.Validate: exactly one of uses and run.
ValidStep(step) == Cardinality(step) = 1

\* Job.Validate.
ValidJob(job) ==
  IF IsReusableWorkflowCall(job) THEN job.steps = <<>>
  ELSE /\ job.runsOn # <<>>
       /\ job.steps # <<>>
       /\ \A i \in DOMAIN job.steps : ValidStep(job.steps[i])

RECURSIVE hasCycle(_, _, _), hasCycleAmong(_, _, _)

\* Mutant: recStack[node] is not cleared when node's dependencies are done.
hasCycleKept(jobs, node, seen) ==
  hasCycleAmong(jobs, jobs[node].needs,
                [found |-> FALSE, visited |-> seen.visited \cup {node}, recStack |-> seen.recStack \cup {node}])

\* The depth-first search of validateDependencies.  seen is its state: the
\* visited nodes, the nodes on the recursion stack, and whether a cycle was
\* found.
hasCycle(jobs, node, seen) ==
  LET below == hasCycleAmong(jobs, jobs[node].needs,
                             [found |-> FALSE, visited |-> seen.visited \cup {node},
                              recStack |-> seen.recStack \cup {node}])
  IN IF below.found THEN below ELSE [below EXCEPT !.recStack = @ \ {node}]

hasCycleAmong(jobs, needs, seen) ==
  IF needs = <<>> \/ seen.found THEN seen
  ELSE LET dep == Head(needs)
       IN hasCycleAmong(jobs, Tail(needs),
            IF dep \notin seen.visited THEN hasCycle(jobs, dep, seen)
            ELSE [seen EXCEPT !.found = dep \in seen.recStack])

\* order is the order in which Go happens to range over the map of jobs.
validateDependencies(jobs, order) ==
  /\ \A k \in DOMAIN jobs : \A i \in DOMAIN jobs[k].needs : jobs[k].needs[i] \in DOMAIN jobs
  /\ ~ FoldLeft(LAMBDA seen, k : IF seen.found \/ k \in seen.visited THEN seen ELSE hasCycle(jobs, k, seen),
                [found |-> FALSE, visited |-> {}, recStack |-> {}], order).found

\* Parse: a file that is no YAML has no name in the model.
Accepts(wf) ==
  /\ wf.name # ""
  /\ DOMAIN wf.jobs # {}
  /\ \A k \in DOMAIN wf.jobs : ValidJob(wf.jobs[k])
  /\ validateDependencies(wf.jobs, SetToSeq(DOMAIN wf.jobs))

\* FromJSON(ToJSON(w)): a nil runs-on is written as null and read back as
\* one empty label.
Stored(wf) ==
  [wf EXCEPT !.jobs = [k \in DOMAIN @ |->
     [@[k] EXCEPT !.runsOn = IF @ = <<>> THEN <<"">> ELSE @]]]

GetTriggerTypes(wf) ==
  {t \in {"push", "pull_request", "review", "workflow_dispatch", "workflow_call", "schedule"} :
     wf.on[t] # <<>>}

(***************************************************************************)
(* Job order: Kahn's algorithm; names are sorted to make the order         *)
(* deterministic, which SetToSeq stands for.                               *)
(***************************************************************************)

RECURSIVE Kahn(_, _, _, _)

Kahn(jobs, inDegree, queue, result) ==
  IF queue = <<>> THEN result
  ELSE LET name == Head(queue)
           edges(k) == Cardinality({i \in DOMAIN jobs[k].needs : jobs[k].needs[i] = name})
           left == [k \in DOMAIN jobs |-> inDegree[k] - edges(k)]
           ready == {k \in DOMAIN jobs : edges(k) > 0 /\ left[k] = 0}
       IN Kahn(jobs, left, Tail(queue) \o SetToSeq(ready), Append(result, name))

\* The keys in dependency order, or <<>> for the error "circular dependency
\* detected", which any need of a job that is not there causes as well.
GetJobOrder(jobs) ==
  LET inDegree == [k \in DOMAIN jobs |-> Len(jobs[k].needs)]
      order == Kahn(jobs, inDegree, SetToSeq({k \in DOMAIN jobs : inDegree[k] = 0}), <<>>)
  IN IF Len(order) = Cardinality(DOMAIN jobs) THEN order ELSE <<>>

(***************************************************************************)
(* Reusable workflows: a job that calls one is replaced by its jobs.       *)
(* table is the rows of the workflows table of the repository, by path;    *)
(* a call of a path without a row, or of a workflow without workflow_call, *)
(* stays as it is.                                                         *)
(***************************************************************************)

InlinedNeeds(caller, key, needs) ==
  IF needs = <<>> THEN caller.needs ELSE [i \in DOMAIN needs |-> <<key[1], needs[i][1]>>]

resolveReusableWorkflows(jobs, table) ==
  LET calls == {k \in DOMAIN jobs : /\ IsReusableWorkflowCall(jobs[k])
                                    /\ jobs[k].uses \in DOMAIN table
                                    /\ table[jobs[k].uses].on["workflow_call"] # <<>>}
      called(k) == table[jobs[k].uses].jobs
      inlined == {<<k, c>> : k \in calls, c \in UNION {DOMAIN called(k) : k \in calls}}
      present == {kc \in inlined : kc[2] \in DOMAIN called(kc[1])}
      keyOf(kc) == <<kc[1][1], kc[2][1]>>
      jobOf(kc) == [called(kc[1])[kc[2]] EXCEPT !.needs = InlinedNeeds(jobs[kc[1]], kc[1], @)]
  IN [key \in (DOMAIN jobs \ calls) \cup {keyOf(kc) : kc \in present} |->
        IF key \in DOMAIN jobs \ calls THEN jobs[key]
        ELSE jobOf(CHOOSE kc \in present : keyOf(kc) = key)]

(***************************************************************************)
(* Matrices: [values, include, exclude]; a combination is a function from  *)
(* keys to values.                                                         *)
(***************************************************************************)

NoMatrix == [values |-> << >>, include |-> <<>>, exclude |-> <<>>]

\* One dimension after the other, in the order of the sorted keys.
generateCombinations(values) ==
  FoldLeft(LAMBDA result, key :
             FlattenSeq([i \in DOMAIN result |->
               [j \in DOMAIN values[key] |->
                 [k \in DOMAIN result[i] \cup {key} |-> IF k = key THEN values[key][j] ELSE result[i][k]]]]),
           << [k \in {} |-> 0] >>, SetToSeq(DOMAIN values))

\* Mutant: an include is merged wherever it shares a key.
partialMatchAnyKey(combo, include) == DOMAIN combo \cap DOMAIN include # {}

\* The keys they share have the same values.
partialMatch(combo, include) == \A k \in DOMAIN include \cap DOMAIN combo : combo[k] = include[k]

fullMatch(combo, exclude) ==
  \A k \in DOMAIN exclude : k \in DOMAIN combo /\ combo[k] = exclude[k]

Merge(combo, include) ==
  [k \in DOMAIN combo \cup DOMAIN include |-> IF k \in DOMAIN include THEN include[k] ELSE combo[k]]

ApplyInclude(combinations, include) ==
  IF \E i \in DOMAIN combinations : partialMatch(combinations[i], include)
  THEN [i \in DOMAIN combinations |->
          IF partialMatch(combinations[i], include) THEN Merge(combinations[i], include) ELSE combinations[i]]
  ELSE Append(combinations, include)

ExpandMatrix(matrix) ==
  IF DOMAIN matrix.values = {} /\ matrix.include = <<>> THEN << [k \in {} |-> 0] >>
  ELSE LET base == IF DOMAIN matrix.values = {} THEN <<>> ELSE generateCombinations(matrix.values)
           all  == FoldLeft(ApplyInclude, base, matrix.include)
       IN SelectSeq(all, LAMBDA combo :
            \A i \in DOMAIN matrix.exclude : ~ fullMatch(combo, matrix.exclude[i]))

(***************************************************************************)
(* Globs.                                                                  *)
(***************************************************************************)

HasPrefix(s, prefix) == Len(prefix) <= Len(s) /\ SubSeq(s, 1, Len(prefix)) = prefix
HasSuffix(s, suffix) == Len(suffix) <= Len(s) /\ SubSeq(s, Len(s) - Len(suffix) + 1, Len(s)) = suffix
TrimPrefix(s, prefix) == IF HasPrefix(s, prefix) THEN SubSeq(s, Len(prefix) + 1, Len(s)) ELSE s
TrimSuffix(s, suffix) == IF HasSuffix(s, suffix) THEN SubSeq(s, 1, Len(s) - Len(suffix)) ELSE s

\* What a glob stands for: * and ? stop at a slash, ** does not.  For a
\* pattern without ** this is filepath.Match.
RECURSIVE Glob(_, _)
Glob(name, pattern) ==
  IF pattern = <<>> THEN name = <<>>
  ELSE CASE Head(pattern) \in {"*", "**"} ->
              \/ Glob(name, Tail(pattern))
              \/ name # <<>> /\ (Head(name) # "/" \/ Head(pattern) = "**") /\ Glob(Tail(name), pattern)
         [] Head(pattern) = "?" -> name # <<>> /\ Head(name) # "/" /\ Glob(Tail(name), Tail(pattern))
         [] OTHER -> name # <<>> /\ Head(name) = Head(pattern) /\ Glob(Tail(name), Tail(pattern))

\* strings.Split(pattern, "**"): its first and its last part.
FirstPart(pattern) == SubSeq(pattern, 1, (CHOOSE i \in 1 .. Len(pattern) :
                        pattern[i] = "**" /\ \A j \in 1 .. i - 1 : pattern[j] # "**") - 1)
LastPart(pattern) == SubSeq(pattern, (CHOOSE i \in 1 .. Len(pattern) :
                        pattern[i] = "**" /\ \A j \in i + 1 .. Len(pattern) : pattern[j] # "**") + 1, Len(pattern))

\* The text that is left of a name after the first part of the pattern.
AfterPrefix(name, prefix) == TrimPrefix(TrimPrefix(name, prefix), <<"/">>)

\* Mutant: the slash before ** is kept.
matchSlashKept(name, pattern) ==
  /\ HasPrefix(name, FirstPart(pattern))
  /\ HasSuffix(name, LastPart(pattern))
  /\ name # FirstPart(pattern)

matchDoubleStarPattern(name, pattern) ==
  LET prefix == TrimSuffix(FirstPart(pattern), <<"/">>)
      suffix == TrimPrefix(LastPart(pattern), <<"/">>)
      rest   == IF FirstPart(pattern) = <<>> THEN name ELSE AfterPrefix(name, prefix)
  IN HasPrefix(name, prefix) /\ HasSuffix(rest, suffix)

matchPattern(name, pattern) ==
  IF "**" \in Range(pattern) THEN matchDoubleStarPattern(name, pattern) ELSE Glob(name, pattern)

matchPatterns(name, patterns) == \E i \in DOMAIN patterns : matchPattern(name, patterns[i])

\* As matchDoubleStarPattern, but a last part *.x is a suffix .x.
matchDoubleStarPath(path, pattern) ==
  LET prefix == TrimSuffix(FirstPart(pattern), <<"/">>)
      suffix == TrimPrefix(LastPart(pattern), <<"/">>)
      rest   == IF FirstPart(pattern) = <<>> THEN path ELSE AfterPrefix(path, prefix)
  IN /\ HasPrefix(path, prefix)
     /\ HasSuffix(rest, IF HasPrefix(suffix, <<"*", ".">>) THEN Tail(suffix) ELSE suffix)

matchNormalized(path, pattern) ==
  IF "**" \in Range(pattern) THEN matchDoubleStarPath(path, pattern)
  ELSE \/ Glob(path, pattern)
       \/ HasSuffix(pattern, <<"/", "*">>)
            /\ HasPrefix(path, TrimSuffix(pattern, <<"*">>))

matchPathPattern(path, pattern) == matchNormalized(TrimPrefix(path, <<"/">>), TrimPrefix(pattern, <<"/">>))

matchAnyPath(files, patterns) == \E f \in files, i \in DOMAIN patterns : matchPathPattern(f, patterns[i])
matchAllPaths(files, patterns) == \A f \in files : \E i \in DOMAIN patterns : matchPathPattern(f, patterns[i])

(***************************************************************************)
(* Triggers.  A push trigger is [branches, branchesIgnore, tags,           *)
(* tagsIgnore, paths, pathsIgnore]; a pull_request trigger [types,         *)
(* branches, branchesIgnore, paths, pathsIgnore]; a review trigger         *)
(* [types]; each stands in a sequence of length one, the                   *)
(* empty sequence being a nil pointer.  An event is [type, kind, ref,      *)
(* target, files]: kind is branch, tag or other, ref the name under it,    *)
(* target the payload's target_branch or <<>>, and files a sequence        *)
(* holding the set of changed files when the payload has them as []string, *)
(* which a decoded request never does.                                     *)
(***************************************************************************)

FilterBy(name, only, ignore) ==
  (only = <<>> \/ matchPatterns(name, only)) /\ (ignore = <<>> \/ ~ matchPatterns(name, ignore))

PathFilter(files, t) ==
  files # <<>> => /\ t.paths = <<>> \/ matchAnyPath(files[1], t.paths)
                  /\ t.pathsIgnore = <<>> \/ ~ matchAllPaths(files[1], t.pathsIgnore)

matchPushTrigger(push, event) ==
  /\ event.kind = "tag" =>
       /\ FilterBy(event.ref, push.tags, push.tagsIgnore)
       /\ push.tags = <<>> /\ push.tagsIgnore = <<>> => push.branches = <<>> /\ push.branchesIgnore = <<>>
  /\ event.kind = "branch" => FilterBy(event.ref, push.branches, push.branchesIgnore)
  /\ PathFilter(event.files, push)

Action(type) == IF type = "review_created" THEN "opened" ELSE "synchronize"

matchReviewTrigger(review, event) == review.types = <<>> \/ Action(event.type) \in Range(review.types)

matchPullRequestTrigger(pr, event) ==
  /\ pr.types = <<>> \/ Action(event.type) \in Range(pr.types)
  /\ event.target # <<>> => FilterBy(event.target, pr.branches, pr.branchesIgnore)
  /\ PathFilter(event.files, pr)

MatchTrigger(wf, event) ==
  LET on(t) == wf.on[t] # <<>>
  IN CASE event.type = "push" -> on("push") /\ matchPushTrigger(wf.on["push"][1], event)
       [] event.type \in {"review_created", "review_updated"} ->
            \/ on("review") /\ matchReviewTrigger(wf.on["review"][1], event)
            \/ on("pull_request") /\ matchPullRequestTrigger(wf.on["pull_request"][1], event)
       [] event.type \in {"workflow_dispatch", "schedule", "workflow_call"} -> on(event.type)
       [] OTHER -> FALSE

(***************************************************************************)
(* Cron.  A part is [star, lo, hi, step] (a single value has lo = hi); a   *)
(* field is a sequence of parts; a line is a sequence of fields, each      *)
(* parsed against the bounds <<min, max>> of its place.                    *)
(***************************************************************************)

\* No field of a cron line has this value.
Error == {999}

\* A step after a single value is checked and then not used.
parsePart(part, min, max) ==
  CASE part.step = 0 -> Error
    [] part.step # 0 /\ part.star -> {i \in min .. max : (i - min) % part.step = 0}
    [] OTHER ->
         IF part.lo < min \/ part.hi > max \/ part.lo > part.hi THEN Error
         ELSE {i \in part.lo .. part.hi : (i - part.lo) % part.step = 0}

parseField(field, min, max) ==
  LET parts == {parsePart(field[i], min, max) : i \in DOMAIN field}
  IN IF Error \in parts THEN Error ELSE UNION parts

\* Parse: the bits of every field, or <<>> for an error.
CronParse(line, bounds) ==
  LET bits == [i \in DOMAIN bounds |-> parseField(line[i], bounds[i][1], bounds[i][2])]
  IN IF Len(line) # Len(bounds) THEN <<>>
     ELSE IF Error \in Range(bits) THEN <<>> ELSE bits

CronMatch(bits, time) == \A i \in DOMAIN bits : time[i] \in bits[i]

=============================================================================
