----------------------------- MODULE SourceDiff -----------------------------
(***************************************************************************)
(* What has changed between two versions: documents by their keys          *)
(* (kai-core/detect json.go and yaml.go), source and schema files by their *)
(* symbols, tables and columns (kai-core/diff), snapshots by their files   *)
(* and texts by their lines (kailab/api), and functions by their bodies    *)
(* (kai-core/detect rename.go).                                            *)
(*                                                                         *)
(* The operators are pure.  A behaviour draws a question for one of them   *)
(* and computes what the code answers.  A set of changes stands for the    *)
(* list, whose order is that of Go's maps.                                 *)
(***************************************************************************)
EXTENDS Integers, Sequences, FiniteSets, SequencesExt, FiniteSetsExt

CONSTANTS Documents,     \* parsed values of json and of yaml files, and Malformed
          Malformed,     \* a text that does not parse
          Absent,        \* a version in which the file is not there
          SymbolLists,   \* what the parser may find in a source file
          Schemas,       \* SQL schemas: sequences of tables
          Listings,      \* the files of a snapshot: path -> content digest
          Scripts,       \* sequences of [tag, old, new]: how many lines differ or agree
          Context,       \* lines of context around a change; 3 in the code
          Functions,     \* function name -> body
          Words          \* bodies whose distances are asked for

VARIABLES subject, question, answer, done

vars == <<subject, question, answer, done>>

(***************************************************************************)
(* Documents.  A value is [type, items]: items maps keys to values, the    *)
(* positions of a list to its elements, or <<"value">> to what a scalar    *)
(* is.  A text, of a key or of a path, is the sequence of the pieces that  *)
(* its dots separate, so that the empty text is one empty piece.           *)
(***************************************************************************)

NoText == <<"">>

\* The path of a key in the value at a path.
Joined(path, k) == IF path = NoText THEN k ELSE path \o k

Change(path, category) == [path |-> path, category |-> category]

RECURSIVE compareJSON(_, _, _)
compareJSON(path, b, a) ==
  CASE b.type # a.type -> {Change(path, "JSON_VALUE_CHANGED")}
    [] b.type = a.type /\ b.type = "map" ->
         {Change(Joined(path, k), "JSON_FIELD_REMOVED") : k \in DOMAIN b.items \ DOMAIN a.items}
           \cup {Change(Joined(path, k), "JSON_FIELD_ADDED") : k \in DOMAIN a.items \ DOMAIN b.items}
           \cup UNION {compareJSON(Joined(path, k), b.items[k], a.items[k]) : k \in DOMAIN a.items \cap DOMAIN b.items}
    [] b.type = a.type /\ b.type = "list" -> IF b = a THEN {} ELSE {Change(path, "JSON_ARRAY_CHANGED")}
    [] b.type = a.type /\ b.type \in {"string", "number", "bool"} -> IF b = a THEN {} ELSE {Change(path, "JSON_VALUE_CHANGED")}
    [] OTHER -> {}

Root(path) == IF path = NoText THEN <<"(root)">> ELSE path

\* A value of any other Go type, such as a timestamp or a map with a key that
\* is no string, is never compared.
RECURSIVE compareYAML(_, _, _)
compareYAML(path, b, a) ==
  CASE b.type = "null" /\ a.type = "null" -> {}
    [] b.type = "null" /\ a.type # "null" -> {Change(path, "YAML_KEY_ADDED")}
    [] b.type # "null" /\ a.type = "null" -> {Change(path, "YAML_KEY_REMOVED")}
    [] OTHER ->
  CASE b.type # a.type -> {Change(path, "YAML_VALUE_CHANGED")}
    [] b.type = a.type /\ b.type = "map" ->
         {Change(Joined(path, k), "YAML_KEY_REMOVED") : k \in DOMAIN b.items \ DOMAIN a.items}
           \cup {Change(Joined(path, k), "YAML_KEY_ADDED") : k \in DOMAIN a.items \ DOMAIN b.items}
           \cup UNION {compareYAML(Joined(path, k), b.items[k], a.items[k]) : k \in DOMAIN a.items \cap DOMAIN b.items}
    [] b.type = a.type /\ b.type = "list" -> IF b = a THEN {} ELSE {Change(Root(path), "YAML_VALUE_CHANGED")}
    [] b.type = a.type /\ b.type \in {"string", "number", "bool"} -> IF b = a THEN {} ELSE {Change(path, "YAML_VALUE_CHANGED")}
    [] OTHER -> {}

ActionOf(category) ==
  CASE category \in {"JSON_FIELD_ADDED", "YAML_KEY_ADDED"} -> "added"
    [] category \in {"JSON_FIELD_REMOVED", "YAML_KEY_REMOVED"} -> "removed"
    [] OTHER -> "modified"

ByAction(changes) == {[path |-> c.path, action |-> ActionOf(c.category)] : c \in changes}

\* Neither a created nor a deleted document has units, and DiffFile drops the
\* error of one that does not parse.
diffJSON(b, a) == IF {b, a} \cap {Absent, Malformed} # {} THEN {} ELSE ByAction(compareJSON(NoText, b, a))
diffYAML(b, a) == IF {b, a} \cap {Absent, Malformed} # {} THEN {} ELSE ByAction(compareYAML(NoText, b, a))

(***************************************************************************)
(* Source files.  The parser's symbols are [name, signature]; of symbols   *)
(* with one name the map keeps the last.                                   *)
(***************************************************************************)

UnitDiff(path, action, sig) == [path |-> path, action |-> action, sig |-> sig]

symbolsToMap(symbols) ==
  [n \in {symbols[i].name : i \in DOMAIN symbols} |->
     LET mine == {i \in DOMAIN symbols : symbols[i].name = n} IN symbols[Max(mine)].signature]

\* The comparison of two maps, as diffCode and computeSnapshotDiff make it.
CompareMaps(b, a) ==
  {UnitDiff(<<n>>, "added", a[n]) : n \in DOMAIN a \ DOMAIN b}
    \cup {UnitDiff(<<n>>, "modified", a[n]) : n \in {n \in DOMAIN a \cap DOMAIN b : a[n] # b[n]}}
    \cup {UnitDiff(<<n>>, "removed", b[n]) : n \in DOMAIN b \ DOMAIN a}

SymbolsOf(file) == symbolsToMap(IF file = Absent THEN <<>> ELSE file)

\* Mutant: of a symbol declared twice the first signature is compared.
diffFirst(b, a) ==
  LET first(s) == IF s = Absent THEN <<>> ELSE [n \in {s[i].name : i \in DOMAIN s} |->
                    s[Min({i \in DOMAIN s : s[i].name = n})].signature]
  IN CompareMaps(first(b), first(a))

diffCode(b, a) == CompareMaps(SymbolsOf(b), SymbolsOf(a))

computeSnapshotDiff(b, a) == CompareMaps(b, a)

FileAction(b, a) ==
  CASE b = Absent /\ a # Absent -> "added"
    [] b # Absent /\ a = Absent -> "removed"
    [] b # Absent /\ a # Absent -> "modified"
    [] OTHER -> ""

\* DiffFile of a file in a code language and of one in no known language.
DiffFile(code, b, a) == [action |-> FileAction(b, a), units |-> IF code THEN diffCode(b, a) ELSE {}]

ComputeSummary(files) ==
  LET actions == {"added", "modified", "removed"}
  IN [files |-> [x \in actions |-> Cardinality({p \in DOMAIN files : files[p].action = x})],
      units |-> [x \in actions |->
                   MapThenSumSet(LAMBDA p : Cardinality({u \in files[p].units : u.action = x}), DOMAIN files)]]

DiffFiles(files) ==
  LET diffs == [p \in DOMAIN files |-> DiffFile(p = "code", files[p].before, files[p].after)]
  IN [files |-> diffs, summary |-> ComputeSummary(diffs)]

(***************************************************************************)
(* SQL schemas.  A text is a sequence of words, parentheses and commas;    *)
(* <<"create", t>> stands for the words CREATE TABLE t and the parenthesis *)
(* that opens the columns.  A word is a sequence of pieces: "quoted" first *)
(* when it stands in quotes, then the keyword it begins with, if it does.  *)
(* A parenthesis follows the word before it without a space.               *)
(***************************************************************************)

Deeper(depth, tok) ==
  depth + (IF tok = <<"(">> \/ tok[1] = "create" THEN 1 ELSE IF tok = <<")">> THEN -1 ELSE 0)

\* The depths after each token of a text that begins at a depth.
Depths(text, from) == [i \in 1 .. Len(text) |-> FoldLeft(Deeper, from, SubSeq(text, 1, i))]

\* The parts between the commas outside parentheses.
splitColumns(text) ==
  LET depths == Depths(text, 0)
      cuts   == {i \in DOMAIN text : text[i] = <<",">> /\ depths[i] = 0}
      ends   == SetToSortSeq(cuts \cup {Len(text) + 1}, <)
  IN [n \in DOMAIN ends |-> SubSeq(text, IF n = 1 THEN 1 ELSE ends[n - 1] + 1, ends[n] - 1)]

\* A part is taken for a constraint by how its text begins.
ReadAsConstraint(part) ==
  \/ part[1][1] \in {"UNIQUE", "CHECK", "CONSTRAINT", "INDEX"}
  \/ part[1] \in {<<"PRIMARY">>, <<"FOREIGN">>} /\ Len(part) > 1 /\ part[2][1] = "KEY"
  \/ part[1] = <<"KEY">> /\ Len(part) > 1 /\ part[2] # <<"(">>

Keywords == {"PRIMARY", "FOREIGN", "UNIQUE", "CHECK", "CONSTRAINT", "INDEX", "KEY"}

Unquoted(word) == IF word[1] = "quoted" THEN Tail(word) ELSE word

\* A definition needs a name that is no keyword and a type: two words outside
\* parentheses.
parseColumnDef(part) ==
  LET depths == Depths(part, 0)
      words  == {i \in DOMAIN part : depths[i] = 0 /\ part[i] # <<")">>}
  IN Cardinality(words) >= 2 /\ Unquoted(part[1]) \notin {<<k>> : k \in Keywords}

\* Column name -> definition; of two columns with one name the last stays.
ByColumn(parts) ==
  [n \in {Unquoted(p[1]) : p \in Range(parts)} |-> Last(SelectSeq(parts, LAMBDA p : Unquoted(p[1]) = n))]

parseTableColumns(text) ==
  ByColumn(SelectSeq(splitColumns(text), LAMBDA p : p # <<>> /\ ~ ReadAsConstraint(p) /\ parseColumnDef(p)))

\* A table whose parenthesis is not closed, or has nothing in it, is skipped.
parseSQL(text) ==
  LET opens == {i \in DOMAIN text : text[i][1] = "create"}
      rest(i) == SubSeq(text, i + 1, Len(text))
      close(i) == LET d == Depths(rest(i), 1) IN Min({Len(d) + 1} \cup {j \in DOMAIN d : d[j] = 0})
      read == {i \in opens : close(i) \in 2 .. Len(rest(i))}
      last(n) == Max({i \in read : text[i][2] = n})
  IN [n \in {text[i][2] : i \in read} |-> parseTableColumns(SubSeq(rest(last(n)), 1, close(last(n)) - 1))]

\* An added table is reported with its columns, a removed one without.
diffSQL(b, a) ==
  {UnitDiff(<<t>>, "added", <<>>) : t \in DOMAIN a \ DOMAIN b}
    \cup {UnitDiff(<<t>>, "removed", <<>>) : t \in DOMAIN b \ DOMAIN a}
    \cup UNION {{[u EXCEPT !.path = <<t>> \o @] : u \in CompareMaps(IF t \in DOMAIN b THEN b[t] ELSE <<>>, a[t])} :
                  t \in DOMAIN a}

\* The same by kind of change; tables that are new or gone have no columns.
ComputeSQLDiff(b, a) ==
  LET both == DOMAIN b \cap DOMAIN a
      columns(action) == UNION {{<<t, u.path[1]>> : u \in {u \in CompareMaps(b[t], a[t]) : u.action = action}} : t \in both}
  IN [tablesAdded |-> DOMAIN a \ DOMAIN b, tablesRemoved |-> DOMAIN b \ DOMAIN a,
      columnsAdded |-> columns("added"), columnsRemoved |-> columns("removed"), columnsChanged |-> columns("modified")]

(***************************************************************************)
(* Texts.  An opcode is [tag, i1, i2, j1, j2], lines i1+1 .. i2 of the old *)
(* text and j1+1 .. j2 of the new.                                         *)
(***************************************************************************)

\* The opcodes of a script: difflib's, external.
OpCodes(script) ==
  LET upto(n, f) == FoldLeft(LAMBDA s, x : s + x[f], 0, SubSeq(script, 1, n))
  IN [n \in DOMAIN script |-> [tag |-> script[n].tag, i1 |-> upto(n - 1, "old"), i2 |-> upto(n, "old"),
                               j1 |-> upto(n - 1, "new"), j2 |-> upto(n, "new")]]

Smaller(x, y) == IF x < y THEN x ELSE y
Larger(x, y)  == IF x < y THEN y ELSE x

FrontOf(op) == [op EXCEPT !.i2 = Smaller(@, op.i1 + Context), !.j2 = Smaller(@, op.j1 + Context)]
BackOf(op)  == [op EXCEPT !.i1 = Larger(@, op.i2 - Context), !.j1 = Larger(@, op.j2 - Context)]

\* difflib's GetGroupedOpCodes, external: the ends are cut to the context,
\* and a long agreement ends one group and begins the next.
GetGroupedOpCodes(codes) ==
  LET head == [codes EXCEPT ![1] = IF @.tag = "e" THEN BackOf(@) ELSE @]
      ends == [head EXCEPT ![Len(head)] = IF @.tag = "e" THEN FrontOf(@) ELSE @]
      put(acc, op) == IF op.tag = "e" /\ op.i2 - op.i1 > 2 * Context
                      THEN [groups |-> Append(acc.groups, Append(acc.open, FrontOf(op))), open |-> <<BackOf(op)>>]
                      ELSE [acc EXCEPT !.open = Append(@, op)]
      all == FoldLeft(put, [groups |-> <<>>, open |-> <<>>], ends)
  IN IF Len(all.open) = 1 /\ all.open[1].tag = "e" THEN all.groups ELSE Append(all.groups, all.open)

Line(type, content, oldLine, newLine) == [type |-> type, content |-> content, oldLine |-> oldLine, newLine |-> newLine]

LinesOf(op, old, new) ==
  LET deleted == [n \in 1 .. op.i2 - op.i1 |-> Line("delete", old[op.i1 + n], op.i1 + n, 0)]
      added   == [n \in 1 .. op.j2 - op.j1 |-> Line("add", new[op.j1 + n], 0, op.j1 + n)]
  IN IF op.tag = "e" THEN [n \in 1 .. op.i2 - op.i1 |-> Line("context", old[op.i1 + n], op.i1 + n, op.j1 + n)]
     ELSE deleted \o added

Hunk(group, old, new) ==
  LET lines == FoldLeft(LAMBDA s, op : s \o LinesOf(op, old, new), <<>>, group)
  IN [oldStart |-> Larger(1, group[1].i1 + 1), newStart |-> Larger(1, group[1].j1 + 1), lines |-> lines,
      oldLines |-> Len(SelectSeq(lines, LAMBDA l : l.type # "add")),
      newLines |-> Len(SelectSeq(lines, LAMBDA l : l.type # "delete"))]

computeUnifiedDiff(script, old, new) ==
  LET groups == GetGroupedOpCodes(OpCodes(script))
      hunks  == [g \in DOMAIN groups |-> Hunk(groups[g], old, new)]
  IN SelectSeq(hunks, LAMBDA h : h.lines # <<>>)

\* The texts of a script: lines that agree are the same, the others are not.
OldText(script) == [i \in 1 .. FoldLeft(LAMBDA s, x : s + x.old, 0, script) |-> <<"old", i>>]
NewText(script) ==
  FoldLeft(LAMBDA s, op : s \o [n \in 1 .. op.j2 - op.j1 |->
                                 IF op.tag = "e" THEN <<"old", op.i1 + n>> ELSE <<"new", op.j1 + n>>],
           <<>>, OpCodes(script))

(***************************************************************************)
(* Renamed functions.                                                      *)
(***************************************************************************)

levenshteinDistance(x, y) ==
  LET d[i \in 0 .. Len(x), j \in 0 .. Len(y)] ==
        IF i = 0 THEN j ELSE IF j = 0 THEN i
        ELSE Min({d[i - 1, j] + 1, d[i, j - 1] + 1, d[i - 1, j - 1] + (IF x[i] = y[j] THEN 0 ELSE 1)})
  IN d[Len(x), Len(y)]

\* How far two bodies of at least one character are apart, as a fraction.
Unlike(x, y) == [part |-> levenshteinDistance(x, y), whole |-> Larger(Len(x), Len(y))]
Closer(u, v) == u.part * v.whole < v.part * u.whole

\* computeSimilarity at the threshold of 0.7.
Similar(x, y) == LET u == Unlike(x, y) IN 10 * u.part <= 3 * u.whole

\* Mutant: an added function may be the new name of several.
BestForgetting(b, a, o, added, used) ==
  LET fits == {n \in 1 .. Len(added) : a[added[n]] # <<>> /\ Similar(b[o], a[added[n]])}
  IN IF fits = {} THEN <<>> ELSE <<added[Min({n \in fits : \A m \in fits : ~ Closer(Unlike(b[o], a[added[m]]), Unlike(b[o], a[added[n]]))})]>>

\* The most similar of the added functions not yet taken, the first of equals.
BestMatch(b, a, o, added, used) ==
  LET fits == {n \in 1 .. Len(added) : added[n] \notin used /\ a[added[n]] # <<>> /\ Similar(b[o], a[added[n]])}
  IN IF fits = {} THEN <<>> ELSE <<added[Min({n \in fits : \A m \in fits : ~ Closer(Unlike(b[o], a[added[m]]), Unlike(b[o], a[added[n]]))})]>>

\* Go ranges over the two maps in any order.
DetectRenames(b, a, removed, added) ==
  LET take(pairs, o) ==
        LET best == IF b[o] = <<>> THEN <<>> ELSE BestMatch(b, a, o, added, {p[2] : p \in pairs})
        IN IF best = <<>> THEN pairs ELSE pairs \cup {<<o, best[1]>>}
  IN FoldLeft(take, {}, removed)

(***************************************************************************)
(* Questions and answers.                                                  *)
(***************************************************************************)

Init ==
  /\ answer = <<>>
  /\ done = FALSE
  /\ \/ subject \in {"json", "yaml"} /\ question \in [before : Documents[subject], after : Documents[subject]]
     \/ subject = "files" /\ question \in [code : [before : SymbolLists, after : SymbolLists],
                                           text : [before : {Absent, <<>>}, after : {Absent, <<>>}]]
     \/ subject = "snapshots" /\ question \in [before : Listings, after : Listings]
     \/ subject = "schemas" /\ question \in [before : Schemas, after : Schemas]
     \/ subject = "texts" /\ question \in Scripts
     \/ subject = "renames" /\ question \in [before : Functions, after : Functions]
     \/ subject = "words" /\ question \in Words \X Words

CompareDocuments ==
  \/ subject = "json" /\ answer' = diffJSON(question.before, question.after)
  \/ subject = "yaml" /\ answer' = diffYAML(question.before, question.after)

CompareFiles == subject = "files" /\ answer' = DiffFiles(question)

CompareSnapshots == subject = "snapshots" /\ answer' = computeSnapshotDiff(question.before, question.after)

\* The text of a schema: its tables' parts, with the commas between them.
Written(schema) ==
  LET body(parts) == FoldLeft(LAMBDA s, p : IF s = <<>> THEN p ELSE s \o << <<",">> >> \o p, <<>>, parts)
      table(t) == << <<"create", t.name>> >> \o body(t.parts) \o (IF t.closed THEN << <<")">> >> ELSE <<>>)
  IN FoldLeft(LAMBDA s, t : s \o table(t), <<>>, schema)

TablesOf(schema) == IF schema = Absent THEN <<>> ELSE parseSQL(Written(schema))

CompareSchemas ==
  /\ subject = "schemas"
  /\ LET b == TablesOf(question.before)
         a == TablesOf(question.after)
     IN answer' = [before |-> b, after |-> a, units |-> diffSQL(b, a), report |-> ComputeSQLDiff(b, a)]

CompareTexts ==
  /\ subject = "texts"
  /\ answer' = computeUnifiedDiff(question, OldText(question), NewText(question))

CompareFunctions ==
  /\ subject = "renames"
  /\ \E removed \in SetToSeqs(DOMAIN question.before \ DOMAIN question.after),
        added \in SetToSeqs(DOMAIN question.after \ DOMAIN question.before) :
       answer' = DetectRenames(question.before, question.after, removed, added)

CompareWords == subject = "words" /\ answer' = levenshteinDistance(question[1], question[2])

Next ==
  /\ ~ done
  /\ done' = TRUE
  /\ \/ CompareDocuments \/ CompareFiles \/ CompareSnapshots \/ CompareSchemas
     \/ CompareTexts \/ CompareFunctions \/ CompareWords
  /\ UNCHANGED <<subject, question>>

(***************************************************************************)
(* Properties.                                                             *)
(***************************************************************************)

Answered(s) == subject = s /\ done

Said(units, path, actions) == \E u \in units : u.path = path /\ u.action \in actions

\* The old document with the values of the new one at the paths reported.
RECURSIVE Patched(_, _, _, _)
Patched(path, b, a, units) ==
  CASE Said(units, path, {"added", "modified"}) \/ (path = NoText /\ Said(units, Root(path), {"modified"})) -> a
    [] Said(units, path, {"removed"}) -> [type |-> "null", items |-> <<"value">> :> 0]
    [] OTHER ->
         IF b.type = "map" /\ a.type = "map"
         THEN [type |-> "map",
               items |-> [k \in {k \in DOMAIN b.items : k \in DOMAIN a.items \/ ~ Said(units, Joined(path, k), {"removed"})}
                                  \cup {k \in DOMAIN a.items : Said(units, Joined(path, k), {"added"})} |->
                            IF k \notin DOMAIN a.items THEN b.items[k]
                            ELSE IF k \notin DOMAIN b.items THEN a.items[k]
                            ELSE Patched(Joined(path, k), b.items[k], a.items[k], units)]]
         ELSE b

\* A YAML document without its null entries, and timestamps without their time.
RECURSIVE Shown(_)
Shown(v) ==
  CASE v.type = "map"  -> [v EXCEPT !.items = [k \in {k \in DOMAIN @ : @[k].type # "null"} |-> Shown(@[k])]]
    [] v.type = "time" -> [v EXCEPT !.items = <<"value">> :> 0]
    [] OTHER -> v

\* The values inside a value, each with the keys that lead to it and its path.
RECURSIVE Places(_, _, _)
Places(v, keys, path) ==
  {<<keys, path>>} \cup (IF v.type # "map" THEN {}
                          ELSE UNION {Places(v.items[k], Append(keys, k), Joined(path, k)) : k \in DOMAIN v.items})

\* Keys that hold a dot or nothing may give two places one path.
Unambiguous(b, a) ==
  LET places == Places(b, <<>>, NoText) \cup Places(a, <<>>, NoText)
  IN \A x, y \in places : x[2] # <<"(root)">> /\ (x[2] = y[2] => x[1] = y[1])

\* The units of a document tell every change (compareJSON, compareYAML).  Two
\* versions that differ have a unit, also when paths collide, and two that do
\* not have none.  Where a path names one place, the old document becomes the
\* new one with the new values at the reported paths.  Two YAML versions that
\* differ only in keys without a value or in what is never compared count as
\* one.
DocumentDiffsRebuild ==
  done /\ subject \in {"json", "yaml"} /\ {question.before, question.after} \cap {Absent, Malformed} = {} =>
    LET b == question.before
        a == question.after
        same(x, y) == IF subject = "json" THEN x = y ELSE Shown(x) = Shown(y)
    IN /\ b = a => answer = {}
       /\ ~ same(b, a) => answer # {}
       /\ Unambiguous(b, a) => same(Patched(NoText, b, a, answer), a)

\* A map with the changes that compare it to another applied.
Rebuilt(b, units) ==
  LET of(actions) == {u.path[1] : u \in {u \in units : u.action \in actions}}
  IN [n \in (DOMAIN b \ of({"removed"})) \cup of({"added"}) |->
        IF n \in of({"added", "modified"}) THEN (CHOOSE u \in units : u.path = <<n>>).sig ELSE b[n]]

\* A diff of symbols, files or tables leads from the old version to the new:
\* applied to what the old file declares it gives what the new file declares,
\* the last declaration of a name counting (diffCode, computeSnapshotDiff,
\* diffSQL with the columns of its tables), and the summary's numbers are
\* those of the names that came, went and changed.
DiffsRebuildTheNewVersion ==
  /\ Answered("files") =>
       LET b == SymbolsOf(question.code.before)
           a == SymbolsOf(question.code.after)
           both == DOMAIN a \cap DOMAIN b
       IN /\ Rebuilt(b, answer.files.code.units) = a
          /\ answer.summary.units = [added |-> Cardinality(DOMAIN a \ DOMAIN b),
                                     modified |-> Cardinality({n \in both : a[n] # b[n]}),
                                     removed |-> Cardinality(DOMAIN b \ DOMAIN a)]
          /\ answer.summary.files.added + answer.summary.files.modified + answer.summary.files.removed
               = Cardinality({p \in {"code", "text"} : {question[p].before, question[p].after} # {Absent}})
  /\ Answered("snapshots") => Rebuilt(question.before, answer) = question.after
  /\ Answered("schemas") =>
       LET tables == {u \in answer.units : Len(u.path) = 1}
           within(t) == {[u EXCEPT !.path = <<@[2]>>] : u \in {u \in answer.units : Len(u.path) = 2 /\ u.path[1] = t}}
           old(t) == IF t \in DOMAIN answer.before THEN answer.before[t] ELSE <<>>
           names == DOMAIN Rebuilt([t \in DOMAIN answer.before |-> <<>>], tables)
       IN [t \in names |-> Rebuilt(old(t), within(t))] = answer.after

\* A column that the reader of schemas passes over: its name begins with the
\* word of a constraint, or is a keyword in quotes.
PassedOver(part) ==
  \/ Len(part[1]) > 1 /\ part[1][1] \in {"UNIQUE", "CHECK", "CONSTRAINT", "INDEX"}
  \/ part[1] \in {<<"quoted", k>> : k \in Keywords}

\* A schema is read as it is written, but for the columns passed over
\* (parseSQL, splitColumns, parseTableColumns): the tables are those that are
\* closed and have parts, and their columns the parts with a name and a type
\* that are no constraints, whatever parentheses and commas they have; the
\* last of a name counts.  The two reports on a schema agree.  A change of a
\* column passed over, such as unique_id or checksum, is in no report.
SchemasAreRead ==
  Answered("schemas") =>
    LET constraint(p) == p[1] \in {<<k>> : k \in Keywords}
        columns(t) == SelectSeq(t.parts, LAMBDA p : Len(p) > 1 /\ ~ constraint(p) /\ ~ PassedOver(p))
        kept(s) == SelectSeq(s, LAMBDA t : t.closed /\ t.parts # <<>>)
        told(s) == IF s = Absent THEN {} ELSE {Last(SelectSeq(kept(s), LAMBDA t : t.name = n)) : n \in {t.name : t \in Range(kept(s))}}
        asRead(s, tables) ==
          /\ DOMAIN tables = {t.name : t \in told(s)}
          /\ \A t \in told(s) : tables[t.name] = ByColumn(columns(t))
        of(action, n) == {u.path : u \in {u \in answer.units : u.action = action /\ Len(u.path) = n}}
    IN /\ asRead(question.before, answer.before)
       /\ asRead(question.after, answer.after)
       /\ of("added", 1) = {<<t>> : t \in answer.report.tablesAdded}
       /\ of("modified", 2) = answer.report.columnsChanged
       /\ {p \in of("added", 2) : p[1] \notin answer.report.tablesAdded} = answer.report.columnsAdded

\* The lines of a text that no hunk covers, in order.
Uncovered(text, from, length, hunks) ==
  LET covered == UNION {hunks[h][from] .. hunks[h][from] + hunks[h][length] - 1 : h \in DOMAIN hunks}
  IN SelectSeq(text, LAMBDA l : \E i \in DOMAIN text : text[i] = l /\ i \notin covered)

\* The hunks of a unified diff apply (computeUnifiedDiff): the lines of a hunk
\* that are not added are the old lines its header names, those not deleted
\* the new ones, each line has the number it has in the texts, and outside
\* the hunks the texts agree.
HunksApply ==
  Answered("texts") =>
    LET old == OldText(question)
        new == NewText(question)
        side(h, type) == SelectSeq(answer[h].lines, LAMBDA l : l.type # type)
    IN /\ \A h \in DOMAIN answer :
            LET o == side(h, "add")
                n == side(h, "delete")
            IN /\ answer[h].oldStart + Len(o) - 1 <= Len(old)
               /\ answer[h].newStart + Len(n) - 1 <= Len(new)
               /\ \A i \in DOMAIN o : o[i].oldLine = answer[h].oldStart + i - 1 /\ o[i].content = old[o[i].oldLine]
               /\ \A i \in DOMAIN n : n[i].newLine = answer[h].newStart + i - 1 /\ n[i].content = new[n[i].newLine]
       /\ Uncovered(old, "oldStart", "oldLines", answer) = Uncovered(new, "newStart", "newLines", answer)

\* Whatever the order of the maps, a function is renamed to one function and
\* from one only, both with a body and alike enough; no two functions left
\* over are alike, and no function left over is more like the old one than
\* the name it was given (DetectRenames).
RenamesAreMatched ==
  Answered("renames") =>
    LET b == question.before
        a == question.after
        gone == {o \in DOMAIN b \ DOMAIN a : b[o] # <<>>}
        new  == {n \in DOMAIN a \ DOMAIN b : a[n] # <<>>}
        free == new \ {p[2] : p \in answer}
    IN /\ \A p \in answer : p[1] \in gone /\ p[2] \in new /\ Similar(b[p[1]], a[p[2]])
       /\ \A p, q \in answer : (p[1] = q[1]) = (p[2] = q[2])
       /\ \A o \in gone \ {p[1] : p \in answer} : \A n \in free : ~ Similar(b[o], a[n])
       /\ \A p \in answer : \A n \in free : ~ Closer(Unlike(b[p[1]], a[n]), Unlike(b[p[1]], a[p[2]]))

\* The words one edit away: a character taken out, put in or replaced.
EditsOf(w) ==
  LET chars == UNION {Range(x) : x \in Words}
  IN {RemoveAt(w, i) : i \in DOMAIN w}
       \cup {InsertAt(w, i, c) : i \in 1 .. Len(w) + 1, c \in chars}
       \cup {ReplaceAt(w, i, c) : i \in DOMAIN w, c \in chars}

RECURSIVE Within(_, _)
Within(w, n) == IF n = 0 THEN {w} ELSE LET near == Within(w, n - 1) IN near \cup UNION {EditsOf(x) \cap Words : x \in near}

\* The distance of two bodies is the smallest number of edits that lead from
\* one to the other (levenshteinDistance).
DistancesCountEdits ==
  Answered("words") =>
    /\ question[2] \in Within(question[1], answer)
    /\ answer > 0 => question[2] \notin Within(question[1], answer - 1)

\* What a diff tells leads from the old version to the new, for documents,
\* source files, snapshots, schemas and texts, as far as the readers of
\* documents and schemas look.
ChangesAreTold ==
    /\ DocumentDiffsRebuild
    /\ DiffsRebuildTheNewVersion
    /\ SchemasAreRead
    /\ HunksApply

\* Renames are found among the most alike, by the number of edits.
RenamesAreFound == RenamesAreMatched /\ DistancesCountEdits
=============================================================================
