---------------------------- MODULE SemanticMerge ----------------------------
(***************************************************************************)
(* The three-way merge of source files by their units (kai-core/merge):    *)
(* ExtractUnits cuts each version of a file into functions, classes,       *)
(* methods, constants and imports, mergeUnit decides unit by unit, and     *)
(* reconstructFile writes the units that are left.                         *)
(*                                                                         *)
(* A file is a sequence of the declarations the parser finds at its top    *)
(* level.  A declaration is [type, prefix, name, params, body, members]:   *)
(* the node type of its grammar, the words before it that are not part of  *)
(* the unit (const, export, a decorator), its name, parameters and text,   *)
(* and the declarations in its block, which have no members themselves.    *)
(* A hash of a text stands for the text.                                   *)
(***************************************************************************)
EXTENDS Integers, Sequences, FiniteSets

CONSTANTS Paths,     \* file names
          Langs,     \* languages of the files, out of js, py, rb, rs
          Versions,  \* Versions[lang]: the contents a file may have
          Absent     \* a file that is not there

VARIABLES lang, base, left, right,   \* the arguments of MergeFiles
          answer                     \* what MergeFiles returned

vars == <<lang, base, left, right, answer>>

(***************************************************************************)
(* Units.  The key of a unit is its symbol path, without its kind.         *)
(***************************************************************************)

NoUnit == [kind |-> "none"]
Content(node) == [node EXCEPT !.prefix = ""]

Unit(kind, signature, node, at) ==
  [kind |-> kind, signature |-> signature, content |-> Content(node), start |-> at]

\* An import is known by its whole text.
ImportKey(node) == <<"import", Content(node)>>

Entry(key, unit) == [key |-> key, unit |-> unit]

extractJSFunction(node, at, parent) ==
  << Entry(Append(parent, node.name), Unit("function", <<"function", node.name, node.params>>, node, at)) >>

\* A declarator: an arrow function has parameters, any other value none.  The
\* unit begins after the word const or let.
extractJSVariableDeclarator(node, at, parent) ==
  LET arrow == node.params # <<>>
      kind  == IF arrow THEN "function" ELSE IF node.prefix = "const" THEN "const" ELSE "variable"
      sig   == IF arrow THEN <<"arrow", node.name, node.params>> ELSE <<node.prefix, node.name>>
  IN << Entry(Append(parent, node.name), Unit(kind, sig, node, at)) >>

extractJSMethod(node, at, parent) ==
  << Entry(Append(parent, node.name), Unit("method", <<node.name, node.params>>, node, at)) >>

\* The places of the members of the declaration at a place.
Inside(at, j) == at + j

\* The class itself is written to the map after its methods.
extractJSClass(node, at) ==
  [j \in 1 .. Len(node.members) |->
     extractJSMethod(node.members[j], Inside(at, j), <<node.name>>)[1]]
    \o << Entry(<<node.name>>, Unit("class", <<"class", node.name>>, node, at)) >>

extractImport(node, at) == << Entry(ImportKey(node), Unit("import", <<>>, node, at)) >>

\* Any other statement is no unit.  An export is looked through.
walkJSNode(node, at) ==
  CASE node.type = "function_declaration" -> extractJSFunction(node, at, <<>>)
    [] node.type = "lexical_declaration"  -> extractJSVariableDeclarator(node, at, <<>>)
    [] node.type = "class_declaration"    -> extractJSClass(node, at)
    [] node.type = "import_statement"     -> extractImport(node, at)
    [] OTHER -> <<>>

extractPyFunction(node, at, parent, kind) ==
  << Entry(Append(parent, node.name), Unit(kind, <<"def", node.name, node.params>>, node, at)) >>

extractPyClass(node, at) ==
  [j \in 1 .. Len(node.members) |->
     extractPyFunction(node.members[j], Inside(at, j), <<node.name>>, "method")[1]]
    \o << Entry(<<node.name>>, Unit("class", <<"class", node.name>>, node, at)) >>

\* A decorated definition is a node of another type, which is not walked.
walkPyNode(node, at) ==
  CASE node.prefix # "" -> <<>>
    [] node.prefix = "" /\ node.type = "function_definition" -> extractPyFunction(node, at, <<>>, "function")
    [] node.prefix = "" /\ node.type = "class_definition" -> extractPyClass(node, at)
    [] node.prefix = "" /\ node.type = "import_statement" -> extractImport(node, at)
    [] OTHER -> <<>>

extractRbMethod(node, at, parent, kind) ==
  << Entry(Append(parent, node.name), Unit(kind, <<"def", node.name, node.params>>, node, at)) >>

\* def self.name has the key of def name.
extractRbSingletonMethod(node, at, parent, kind) ==
  << Entry(Append(parent, node.name), Unit(kind, <<"def self", node.name, node.params>>, node, at)) >>

extractRbMember(node, at, parent) ==
  IF node.type = "singleton_method" THEN extractRbSingletonMethod(node, at, parent, "method")
  ELSE extractRbMethod(node, at, parent, "method")

extractRbClass(node, at) ==
  [j \in 1 .. Len(node.members) |-> extractRbMember(node.members[j], Inside(at, j), <<node.name>>)[1]]
    \o << Entry(<<node.name>>, Unit("class", <<"class", node.name>>, node, at)) >>

extractRbModule(node, at) ==
  [j \in 1 .. Len(node.members) |-> extractRbMember(node.members[j], Inside(at, j), <<node.name>>)[1]]
    \o << Entry(<<node.name>>, Unit("module", <<"module", node.name>>, node, at)) >>

\* A call is a unit when it is require, require_relative or load.
extractRbRequire(node, at) == IF node.name = "require" THEN extractImport(node, at) ELSE <<>>

walkRbNode(node, at) ==
  CASE node.type = "method"           -> extractRbMethod(node, at, <<>>, "function")
    [] node.type = "singleton_method" -> extractRbSingletonMethod(node, at, <<>>, "function")
    [] node.type = "class"            -> extractRbClass(node, at)
    [] node.type = "module"           -> extractRbModule(node, at)
    [] node.type = "call"             -> extractRbRequire(node, at)
    [] OTHER -> <<>>

extractRsFunction(node, at, parent) ==
  << Entry(Append(parent, node.name), Unit("function", <<"fn", node.name, node.params>>, node, at)) >>

extractRsStruct(node, at) == << Entry(<<node.name>>, Unit("class", <<"struct", node.name>>, node, at)) >>
extractRsEnum(node, at)   == << Entry(<<node.name>>, Unit("class", <<"enum", node.name>>, node, at)) >>

extractRsMethods(node, at) ==
  [j \in 1 .. Len(node.members) |-> extractRsFunction(node.members[j], Inside(at, j), <<node.name>>)[1]]

\* Of an impl block only the methods are units, under the name of the type.
extractRsImpl(node, at) == extractRsMethods(node, at)

extractRsTrait(node, at) ==
  extractRsMethods(node, at) \o << Entry(<<node.name>>, Unit("class", <<"trait", node.name>>, node, at)) >>

\* The members of an inline module are walked like the file; the model's
\* modules hold functions.
extractRsMod(node, at) ==
  extractRsMethods(node, at) \o << Entry(<<node.name>>, Unit("module", <<"mod", node.name>>, node, at)) >>

walkRsNode(node, at) ==
  CASE node.type = "function_item"   -> extractRsFunction(node, at, <<>>)
    [] node.type = "struct_item"     -> extractRsStruct(node, at)
    [] node.type = "enum_item"       -> extractRsEnum(node, at)
    [] node.type = "trait_item"      -> extractRsTrait(node, at)
    [] node.type = "impl_item"       -> extractRsImpl(node, at)
    [] node.type = "mod_item"        -> extractRsMod(node, at)
    [] node.type = "use_declaration" -> extractImport(node, at)
    [] OTHER -> <<>>

walkNode(l, node, at) ==
  CASE l = "py" -> walkPyNode(node, at)
    [] l = "rb" -> walkRbNode(node, at)
    [] l = "rs" -> walkRsNode(node, at)
    [] OTHER    -> walkJSNode(node, at)

\* No declaration has more members than this.
MaxMembers == 9
PlaceOf(i) == i * (MaxMembers + 1)

\* The writes to the map of units that the entries of each declaration of a
\* file make, each with its place in their order.
Writes(entries) ==
  UNION {{[at |-> PlaceOf(i) + n, entry |-> entries[i][n]] : n \in 1 .. Len(entries[i])} : i \in 1 .. Len(entries)}

\* The last write of a key stays.
LastWrites(writes) ==
  LET last(k) == CHOOSE w \in writes : w.entry.key = k /\ \A v \in writes : v.entry.key = k => v.at <= w.at
  IN [k \in {w.entry.key : w \in writes} |-> last(k).entry.unit]

ExtractUnits(l, file) ==
  LastWrites(Writes([i \in 1 .. Len(file) |-> walkNode(l, file[i], PlaceOf(i))]))

(***************************************************************************)
(* The merge of one unit: [unit, conflict], of which at most one is there. *)
(***************************************************************************)

Took(u) == [unit |-> u, conflict |-> "none"]
Conflict(kind) == [unit |-> NoUnit, conflict |-> kind]

EquivalentUnits(u, v) ==
  \/ u = NoUnit /\ v = NoUnit
  \/ u # NoUnit /\ v # NoUnit /\ u.content = v.content
Changed(u, b) == ~ EquivalentUnits(u, b)

mergeCreatedUnit(l, r) ==
  CASE r = NoUnit -> Took(l)
    [] r # NoUnit /\ l = NoUnit -> Took(r)
    [] r # NoUnit /\ l # NoUnit ->
         IF EquivalentUnits(l, r) THEN Took(l) ELSE Conflict("CONCURRENT_CREATE")

\* Only one side changed the signature: that side is taken, with its body.
mergeFunctionUnit(b, l, r) ==
  LET leftChanged  == l.signature # b.signature
      rightChanged == r.signature # b.signature
  IN CASE leftChanged /\ rightChanged /\ l.signature # r.signature -> Conflict("API_SIGNATURE_DIVERGED")
       [] leftChanged /\ ~ rightChanged -> Took(l)
       [] rightChanged /\ ~ leftChanged -> Took(r)
       [] OTHER -> IF l.content = r.content THEN Took(l) ELSE Conflict("BODY_DIVERGED")

mergeClassUnit(l, r)  == IF l.content = r.content THEN Took(l) ELSE Conflict("BODY_DIVERGED")
mergeConstUnit(l, r)  == IF l.content = r.content THEN Took(l) ELSE Conflict("CONST_VALUE_CONFLICT")
mergeImportUnit(l, r) == IF l.content = r.content THEN Took(l) ELSE Conflict("IMPORT_ALIAS_CONFLICT")

mergeChangedUnit(b, l, r) ==
  CASE b.kind \in {"function", "method"} -> mergeFunctionUnit(b, l, r)
    [] b.kind = "class"                  -> mergeClassUnit(l, r)
    [] b.kind \in {"const", "variable"}  -> mergeConstUnit(l, r)
    [] b.kind = "import"                 -> mergeImportUnit(l, r)
    [] OTHER -> IF EquivalentUnits(l, r) THEN Took(l) ELSE Conflict("BODY_DIVERGED")

\* Mutant: of a unit that one side changed, the other side's text is taken.
mergeKeepsOther(b, l, r) ==
  IF b # NoUnit /\ l # NoUnit /\ r # NoUnit /\ (EquivalentUnits(b, l) \/ EquivalentUnits(b, r)) THEN Took(b)
  ELSE IF b = NoUnit THEN mergeCreatedUnit(l, r)
  ELSE IF l # NoUnit /\ r # NoUnit THEN mergeChangedUnit(b, l, r) ELSE Took(NoUnit)

mergeUnit(b, l, r) ==
  CASE EquivalentUnits(b, l) /\ EquivalentUnits(b, r) -> Took(b)
    [] OTHER ->
  CASE b = NoUnit -> mergeCreatedUnit(l, r)
    [] b # NoUnit /\ l = NoUnit /\ r # NoUnit ->
         IF EquivalentUnits(r, b) THEN Took(NoUnit) ELSE Conflict("DELETE_vs_MODIFY")
    [] b # NoUnit /\ r = NoUnit /\ l # NoUnit ->
         IF EquivalentUnits(l, b) THEN Took(NoUnit) ELSE Conflict("MODIFY_vs_DELETE")
    [] b # NoUnit /\ l = NoUnit /\ r = NoUnit -> Took(NoUnit)
    [] OTHER -> CASE EquivalentUnits(b, r) /\ Changed(l, b) -> Took(l)
                  [] EquivalentUnits(b, l) /\ Changed(r, b) -> Took(r)
                  [] OTHER -> mergeChangedUnit(b, l, r)

(***************************************************************************)
(* Files.  An answer is [file, conflicts]; a reconstructed file is the set *)
(* of its units' texts with the places that order them.                    *)
(***************************************************************************)

UnitAt(units, k) == IF k \in DOMAIN units THEN units[k] ELSE NoUnit

reconstructFile(merged) ==
  {[start |-> merged[k].unit.start, content |-> merged[k].unit.content] :
     k \in {k \in DOMAIN merged : merged[k].unit # NoUnit}}

Whole(file)    == [file |-> <<"as is", file>>, conflicts |-> {}]
Gone           == [file |-> Absent, conflicts |-> {}]
\* A conflict of the whole file has an empty symbol path.
FileConflict(kind) == [file |-> Absent, conflicts |-> {<<  <<>>, kind>>}]

mergedUnits(bu, fu, gu) ==
  [k \in DOMAIN bu \cup DOMAIN fu \cup DOMAIN gu |-> mergeUnit(UnitAt(bu, k), UnitAt(fu, k), UnitAt(gu, k))]

UnitConflicts(merged) ==
  {<<k, merged[k].conflict>> : k \in {k \in DOMAIN merged : merged[k].conflict # "none"}}

FileOf(merged) ==
  IF UnitConflicts(merged) # {} THEN [file |-> Absent, conflicts |-> UnitConflicts(merged)]
  ELSE [file |-> <<"units", reconstructFile(merged)>>, conflicts |-> {}]

mergeUnits(l, b, f, g) ==
  FileOf(mergedUnits(ExtractUnits(l, b), ExtractUnits(l, f), ExtractUnits(l, g)))

mergeCreated(f, g) ==
  CASE g = Absent -> IF f = Absent THEN Gone ELSE Whole(f)
    [] f = Absent /\ g # Absent -> Whole(g)
    [] f # Absent /\ g # Absent -> IF f = g THEN Whole(f) ELSE FileConflict("CONCURRENT_CREATE")

mergeFile(l, b, f, g) ==
  CASE b = Absent -> mergeCreated(f, g)
    [] b # Absent /\ f = Absent /\ g = Absent -> Gone
    [] b # Absent /\ f = Absent /\ g # Absent -> IF b = g THEN Gone ELSE FileConflict("DELETE_vs_MODIFY")
    [] b # Absent /\ f # Absent /\ g = Absent -> IF b = f THEN Gone ELSE FileConflict("MODIFY_vs_DELETE")
    [] OTHER -> CASE f = g -> Whole(f)
                  [] f # g /\ b = f -> Whole(g)
                  [] f # g /\ b # f /\ b = g -> Whole(f)
                  [] OTHER -> mergeUnits(l, b, f, g)

NotYet == <<>>

Init ==
  /\ lang \in Langs
  /\ base \in [Paths -> Versions[lang] \cup {Absent}]
  /\ left \in [Paths -> Versions[lang] \cup {Absent}]
  /\ right \in [Paths -> Versions[lang] \cup {Absent}]
  /\ answer = NotYet

\* The merge succeeds when no file has a conflict.
MergeFiles ==
  /\ answer = NotYet
  /\ answer' = [p \in Paths |-> mergeFile(lang, base[p], left[p], right[p])]
  /\ UNCHANGED <<lang, base, left, right>>

Next == MergeFiles

Spec == Init /\ [][Next]_vars

(***************************************************************************)
(* Properties.                                                             *)
(***************************************************************************)

\* What a version of a file says for a key: nothing, or the text of a unit.
Text(units, k) == IF k \in DOMAIN units THEN <<units[k].content>> ELSE <<>>

\* The texts of an answer made of units.
Texts(a) == {<<u.content>> : u \in a.file[2]}

KeepOneSidedEdits(texts, bu, lu, ru) ==
  LET keys == DOMAIN bu \cup DOMAIN lu \cup DOMAIN ru
  IN /\ \A k \in keys :
          /\ k \in DOMAIN lu /\ Text(ru, k) \in {Text(bu, k), Text(lu, k)} => Text(lu, k) \in texts
          /\ k \in DOMAIN ru /\ Text(lu, k) = Text(bu, k) => Text(ru, k) \in texts
     /\ \A t \in texts : \E k \in keys :
          /\ t \in {Text(lu, k), Text(ru, k)}
          /\ {Text(lu, k), Text(ru, k)} # {<<>>, Text(bu, k)} \/ Text(bu, k) = <<>>

\* A merge of two diverged files that reports no conflict keeps what one side
\* did to a unit, units being what ExtractUnits sees of the files: a unit that
\* one side changed or created, and the other left as it was, is in the result
\* as that side has it, and so is a unit both sides changed alike; and every
\* text in the result is that of a unit one of the sides has, of one the other
\* side did not delete while this one kept it as it was (mergeUnit).
\*
\* It does not say that a clean merge keeps everything.  Of a function whose
\* signature one side changed and whose body the other did, the first side's
\* text is taken and the other's is lost (mergeFunctionUnit).  What is no unit
\* is lost too (reconstructFile): statements, the words export and const, and
\* a Python definition with its decorator, so that one that gains a decorator
\* counts as deleted.
CleanMergesKeepOneSidedEdits ==
  answer # NotYet =>
    \A p \in Paths :
      answer[p].file # Absent /\ answer[p].file[1] = "units" =>
        KeepOneSidedEdits(Texts(answer[p]), ExtractUnits(lang, base[p]),
                       ExtractUnits(lang, left[p]), ExtractUnits(lang, right[p]))

AllDiffer(was, l, r) == l # was /\ r # was /\ l # r

\* A conflict is reported for a unit only when both sides changed it, and not
\* to the same text (mergeUnit); a merge in which every unit was changed by
\* one side at most goes through.
ConflictsNeedTwoEdits ==
  answer # NotYet =>
    \A p \in Paths : \A c \in answer[p].conflicts :
      c[1] # <<>> =>
        AllDiffer(Text(ExtractUnits(lang, base[p]), c[1]), Text(ExtractUnits(lang, left[p]), c[1]),
                  Text(ExtractUnits(lang, right[p]), c[1]))

Mirrored(kind) ==
  CASE kind = "DELETE_vs_MODIFY" -> "MODIFY_vs_DELETE"
    [] kind = "MODIFY_vs_DELETE" -> "DELETE_vs_MODIFY"
    [] OTHER -> kind

Mirrors(a, swapped) ==
  LET content(m) == IF m.file # Absent /\ m.file[1] = "units" THEN Texts(m) ELSE m.file
  IN /\ content(a) = content(swapped)
     /\ a.conflicts = {<<c[1], Mirrored(c[2])>> : c \in swapped.conflicts}

\* Merging theirs into ours is merging ours into theirs: with the sides
\* exchanged, the merge succeeds or not alike, with the same texts in the
\* file, or the same conflicts with deletion and modification exchanged.
SidesAreInterchangeable ==
  answer # NotYet =>
    \A p \in Paths : Mirrors(answer[p], mergeFile(lang, base[p], right[p], left[p]))

\* A merge of the units of three files keeps what only one side did to a unit,
\* reports no conflict that both sides did not make, and prefers no side.
MergesAreThreeWay == CleanMergesKeepOneSidedEdits /\ ConflictsNeedTwoEdits /\ SidesAreInterchangeable
=============================================================================
