--------------------------- MODULE MCAlgorithms ---------------------------
(***************************************************************************)
(* The pure algorithms for TLC: the evaluator of expressions, the          *)
(* algorithms on workflow files, the three-way merge and the diffs.  They  *)
(* share no variable that means something: a behaviour asks one of them    *)
(* one question.                                                           *)
(***************************************************************************)
EXTENDS Integers, Sequences, FiniteSets, TLC

CONSTANTS Operands,                      \* Expressions
          Keys, MaxName, MaxIncludes,    \* WorkflowCases
          Context,                       \* SourceDiff
          Parts,                         \* the models to run
          Absent, Malformed

VARIABLES part,
          tree, context, answer,               \* Expressions
          subject, question, reply, done,      \* WorkflowCases and SourceDiff
          lang, base, left, right, merged      \* SemanticMerge

xVars == <<tree, context, answer>>
cVars == <<subject, question, reply, done>>
mVars == <<lang, base, left, right, merged>>
vars == <<part, xVars, cVars, mVars>>

(* Expressions. *)
Text(t, s) == [type |-> t, text |-> s]
MCLiterals == {Text("string", ""), Text("string", "A"), Text("bool", "true"), Text("bool", "false"), Text("number", "1")}
MCContexts == { <<"env", "X">> :> Text("string", "a") @@ <<"github", "job_status">> :> Text("string", "failure"),
                <<"env", "X">> :> Text("string", "a") @@ <<"matrix", "os">> :> Text("string", "ab") }
MCTexts == { <<"contains", "ab", "a">>, <<"prefix", "ab", "a">> }

X == INSTANCE Expressions WITH Literals <- MCLiterals, Contexts <- MCContexts, Texts <- MCTexts

C == INSTANCE WorkflowCases WITH answer <- reply, Keys <- {<<k>> : k \in Keys}, Dimensions <- {"os", "ver"},
       Chars <- {"a", "/", "."}, GlobChars <- {"a", "/", ".", "*", "**"}

(* Files to merge: at most one declaration out of each of two groups. *)
Node(type, prefix, name, params, body, members) ==
  [type |-> type, prefix |-> prefix, name |-> name, params |-> params, body |-> body, members |-> members]
Files(first, second) == {x \o y : x \in {<<>>} \cup {<<d>> : d \in first}, y \in {<<>>} \cup {<<d>> : d \in second}}
Fun(type, prefix, params, body) == Node(type, prefix, "f", params, body, <<>>)
Block(type, name, member, body) == Node(type, "", name, <<>>, 0, << Node(member, "", "m", <<"a">>, body, <<>>) >>)
MCFiles ==
  [js |-> Files({Fun("function_declaration", "", <<"a">>, 1), Fun("function_declaration", "export", <<"a">>, 2),
                 Fun("function_declaration", "", <<"b">>, 1), Fun("lexical_declaration", "const", <<"a">>, 1)},
                {Block("class_declaration", "C", "method_definition", 1), Block("class_declaration", "C", "method_definition", 2),
                 Node("lexical_declaration", "const", "K", <<>>, 1, <<>>), Node("lexical_declaration", "let", "K", <<>>, 2, <<>>),
                 Node("import_statement", "", "x", <<>>, 1, <<>>)}),
   py |-> Files({Fun("function_definition", "", <<"a">>, 1), Fun("function_definition", "", <<"a">>, 2),
                 Fun("function_definition", "", <<"b">>, 1), Fun("function_definition", "decorator", <<"a">>, 1)},
                {Block("class_definition", "C", "function_definition", 1), Block("class_definition", "C", "function_definition", 2),
                 Node("import_statement", "", "x", <<>>, 1, <<>>)}),
   rb |-> Files({Fun("method", "", <<"a">>, 1), Fun("method", "", <<"a">>, 2), Fun("singleton_method", "", <<"a">>, 1)},
                {Block("class", "C", "method", 1), Block("class", "C", "singleton_method", 1),
                 Block("module", "C", "method", 1), Block("module", "C", "method", 2),
                 Node("call", "", "require", <<>>, 1, <<>>), Node("call", "", "puts", <<>>, 1, <<>>)}),
   rs |-> Files({Fun("function_item", "", <<"a">>, 1), Fun("function_item", "", <<"a">>, 2), Fun("function_item", "", <<"b">>, 1)},
                {Node("struct_item", "", "S", <<>>, 1, <<>>), Node("enum_item", "", "S", <<>>, 1, <<>>),
                 Block("trait_item", "S", "function_item", 1), Block("impl_item", "S", "function_item", 1),
                 Block("impl_item", "S", "function_item", 2), Block("mod_item", "S", "function_item", 1),
                 Node("use_declaration", "", "x", <<>>, 1, <<>>)})]

M == INSTANCE SemanticMerge WITH answer <- merged, Paths <- {"file"}, Langs <- {"js", "py", "rb", "rs"}, Versions <- MCFiles

(* Versions to compare. *)
Scalar(type, v) == [type |-> type, items |-> <<"value">> :> v]
Map(items) == [type |-> "map", items |-> items]
List(v) == [type |-> "list", items |-> <<"first">> :> v]
Times == {Scalar("time", 1), Scalar("time", 2), List(Scalar("time", 1)), List(Scalar("time", 2))}
PlainLeaves == {Scalar("string", 1), Scalar("string", 2), Scalar("number", 1), Scalar("null", 0), List(Scalar("string", 1)), List(Scalar("string", 2))}
K == <<"k">>
M1 == <<"m">>
In(key, v) == Map(key :> v)
(* Keys with a dot, empty keys, and both forms of a path in one document. *)
Colliding == UNION {{In(K \o M1, v), In(<<"">>, v), In(K, In(<<"">>, v)), In(<<"">>, In(K, v))} : v \in {Scalar("string", 1), Scalar("string", 2)}}
               \cup {Map(K \o M1 :> Scalar("string", x) @@ K :> In(M1, Scalar("string", y))) : x, y \in 1 .. 2}
Of(leaves) == leaves \cup {Map(f) : f \in UNION {[D -> leaves] : D \in {{K}, {K, <<"l">>}}}}
               \cup {In(K, In(M1, v)) : v \in leaves} \cup {In(K, Map(<<>>)), Map(<<>>), Malformed, Absent} \cup Colliding
MCDocuments == [json |-> Of(PlainLeaves), yaml |-> Of(PlainLeaves \cup Times)]
UpTo(S, n) == UNION {[1 .. m -> S] : m \in 0 .. n}
MCSymbolLists == {Absent} \cup UpTo([name : {"f", "g"}, signature : 1 .. 2], 2)
Word(w) == <<w>>
Amount == <<Word("a"), Word("num"), Word("("), Word("1"), Word(","), Word("2"), Word(")")>>
MCParts == {<<Word("a"), Word("int")>>, Amount, <<Word("b"), Word("int")>>, <<Word("b")>>,
            <<Word("PRIMARY"), Word("KEY"), Word("("), Word("a"), Word(","), Word("b"), Word(")")>>}
(* unique_id, "unique_id", "key" and "a" *)
OddParts == {<<w, Word("int")>> : w \in {<<"UNIQUE", "_id">>, <<"quoted", "UNIQUE", "_id">>, <<"quoted", "KEY">>, <<"quoted", "a">>}}
Table(n, parts, closed) == [name |-> n, parts |-> parts, closed |-> closed]
MCSchemas == {Absent, <<>>}
  \cup {<<Table("t", ps, c)>> : c \in BOOLEAN, ps \in UpTo(MCParts, 2)}
  \cup {<<Table("t", <<Amount, p>>, TRUE)>> : p \in OddParts} \cup {<<Table("t", <<p>>, TRUE)>> : p \in OddParts}
  \cup {<<Table("t", <<Amount>>, c), Table(n, <<q>>, d)>> : q \in MCParts, n \in {"t", "u"}, c \in BOOLEAN, d \in BOOLEAN}
MCListings == UNION {[D -> 1 .. 2] : D \in SUBSET {"p", "q", "r"}}
Op(tag, old, new) == [tag |-> tag, old |-> old, new |-> new]
Agree == {<<Op("e", n, n)>> : n \in 1 .. 4}
Differ == {<<Op("d", 1, 0)>>, <<Op("i", 0, 1)>>, <<Op("i", 0, 2)>>, <<Op("r", 1, 1)>>, <<Op("r", 2, 1)>>}
MCScripts == {a \o d \o b \o e \o c : a, c \in Agree \cup {<<>>}, d \in Differ, b \in Agree, e \in Differ}
               \cup {a \o d \o c : a, c \in Agree \cup {<<>>}, d \in Differ} \cup Agree
MCFunctions == UNION {[D -> {<<>>, <<1, 1, 1, 1>>, <<1, 1, 1, 2>>, <<1, 1, 2, 2>>}] : D \in SUBSET {"f", "g", "h"}}
MCWords == UpTo(1 .. 2, 4)

D == INSTANCE SourceDiff WITH answer <- reply, Documents <- MCDocuments, SymbolLists <- MCSymbolLists,
       Schemas <- MCSchemas, Listings <- MCListings, Scripts <- MCScripts, Functions <- MCFunctions, Words <- MCWords

(* A model that is not asked stands still in one state. *)
XIdle == tree = <<>> /\ context = <<>> /\ answer = <<>>
CIdle == subject = "none" /\ question = <<>> /\ reply = <<>> /\ done = TRUE
MIdle == lang = "" /\ base = <<>> /\ left = <<>> /\ right = <<>> /\ merged = <<>>

Init ==
  /\ part \in Parts
  /\ \/ part = "expressions" /\ X!Init /\ CIdle /\ MIdle
     \/ part = "cases" /\ XIdle /\ C!Init /\ MIdle
     \/ part = "diffs" /\ XIdle /\ D!Init /\ MIdle
     \/ part = "merges" /\ XIdle /\ CIdle /\ M!Init

Next ==
  \/ part = "expressions" /\ X!Next /\ UNCHANGED <<part, cVars, mVars>>
  \/ part = "cases" /\ C!Next /\ UNCHANGED <<part, xVars, mVars>>
  \/ part = "diffs" /\ D!Next /\ UNCHANGED <<part, xVars, mVars>>
  \/ part = "merges" /\ M!Next /\ UNCHANGED <<part, xVars, cVars>>

Spec == Init /\ [][Next]_vars

(* The properties of the models, each where its model is asked; the modules *)
(* explain them.                                                            *)
ExpressionsAreEvaluated == part = "expressions" => X!ExpressionsAreEvaluated
JobsAreOrdered == part = "cases" => C!JobsAreOrdered
MatricesRunWhatTheyAskFor == part = "cases" => C!MatricesRunWhatTheyAskFor
DoubleStarsMissNothing == part = "cases" => C!DoubleStarsMissNothing
MergesAreThreeWay == part = "merges" => M!MergesAreThreeWay
ChangesAreTold == part = "diffs" => D!ChangesAreTold
RenamesAreFound == part = "diffs" => D!RenamesAreFound
=============================================================================
