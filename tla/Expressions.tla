---------------------------- MODULE Expressions ----------------------------
(***************************************************************************)
(* The expression language of workflow files (workflow/expressions.go):    *)
(* the recursive descent evaluator behind `if:` conditions, ${{ }} in      *)
(* steps and concurrency groups.                                           *)
(*                                                                         *)
(* The evaluator parses and computes in one pass: every parseX takes a     *)
(* position and returns a value and the position it stopped at, which is   *)
(* what the operators below do.  The input is a sequence of tokens (the    *)
(* lexing of blanks, quotes and digits is left out); a value is its Go     *)
(* type and what exprToString makes of it.                                 *)
(*                                                                         *)
(* One behaviour draws an expression tree, writes it down with the         *)
(* parentheses its precedences ask for, and evaluates what was written.    *)
(***************************************************************************)
EXTENDS Naturals, Sequences, SequencesExt

CONSTANTS Literals,   \* the values that appear in expressions
          Contexts,   \* the evaluation contexts: dotted path -> value
          Operands,   \* how many operands a chain of || or && may have
          Texts       \* substring facts: <<relation, longer, shorter>>

VARIABLES tree,       \* the expression as its author means it
          context,    \* the ExprContext
          answer      \* what EvalExpr returned for its text

vars == <<tree, context, answer>>

Value(type, text) == [type |-> type, text |-> text]
Nil == Value("nil", "")
Bool(b) == Value("bool", IF b THEN "true" ELSE "false")
Str(s) == Value("string", s)

(***************************************************************************)
(* Coercions.                                                              *)
(***************************************************************************)

toBool(v) ==
  CASE v.type = "nil"    -> FALSE
    [] v.type = "bool"   -> v.text = "true"
    [] v.type = "string" -> v.text # ""
    [] v.type = "number" -> v.text # "0"
    [] OTHER             -> TRUE

\* strings.ToLower on the texts that occur.
ToLower(s) == CASE s = "True" -> "true" [] s = "A" -> "a" [] OTHER -> s

exprEquals(a, b) == ToLower(a.text) = ToLower(b.text)

\* fmt.Sscanf leaves 0 when the text does not start with a number.
toFloat(v) ==
  CASE v.type \in {"number", "string"} /\ v.text = "1" -> 1
    [] v.type \in {"number", "string"} /\ v.text = "2" -> 2
    [] OTHER -> 0

exprCompare(a, b) ==
  CASE toFloat(a) < toFloat(b) -> "less"
    [] toFloat(a) > toFloat(b) -> "greater"
    [] OTHER -> "same"

\* strings.Contains, HasPrefix and HasSuffix.
Holds(relation, s, t) == t = "" \/ s = t \/ <<relation, s, t>> \in Texts

exprContains(haystack, needle) ==
  Holds("contains", ToLower(haystack.text), ToLower(needle.text))

\* The only placeholder the model's templates have is {0}.
exprFormat(args) ==
  IF args[1].text = "{0}" /\ Len(args) > 1 THEN Str(args[2].text) ELSE Str(args[1].text)

\* No value of the model is a list, so join renders its argument.
exprJoin(v) == Str(v.text)

(***************************************************************************)
(* Contexts.  env, secrets, vars, inputs and runner are Go maps of strings *)
(* and answer the empty string for an unknown key; the others answer nil.  *)
(***************************************************************************)

lookupContext(ctx, path) ==
  IF path \in DOMAIN ctx THEN ctx[path]
  ELSE IF path[1] \in {"env", "secrets", "vars", "inputs", "runner"} /\ Len(path) > 1
       THEN Str("") ELSE Nil

JobStatus == <<"github", "job_status">>

statusCheck(ctx, check) ==
  IF JobStatus \in DOMAIN ctx THEN Bool(ctx[JobStatus].text = check)
  ELSE Bool(check = "success")

callFunction(ctx, name, args) ==
  CASE name = "contains" /\ Len(args) >= 2   -> Bool(exprContains(args[1], args[2]))
    [] name = "startswith" /\ Len(args) >= 2 -> Bool(Holds("prefix", ToLower(args[1].text), ToLower(args[2].text)))
    [] name = "endswith" /\ Len(args) >= 2   -> Bool(Holds("suffix", ToLower(args[1].text), ToLower(args[2].text)))
    [] name = "format" /\ Len(args) >= 1     -> exprFormat(args)
    [] name = "join" /\ Len(args) >= 1       -> exprJoin(args[1])
    [] name \in {"success", "failure", "cancelled"} -> statusCheck(ctx, name)
    [] name = "always" -> Bool(TRUE)
    [] OTHER -> Nil

(***************************************************************************)
(* The parser.  ts is the input, p a position; each operator returns       *)
(* [val, pos].  A position of 0 stands for a call that never returns.      *)
(***************************************************************************)

Op(o) == [kind |-> "op", val |-> o]
At(ts, p, o) == p \in 1 .. Len(ts) /\ ts[p] = Op(o)
Stuck == [val |-> Nil, pos |-> 0]
Comparisons == {"==", "!=", "<", "<=", ">", ">="}

Compare(o, a, b) ==
  CASE o = "==" -> exprEquals(a, b)
    [] o = "!=" -> ~ exprEquals(a, b)
    [] o = "<"  -> exprCompare(a, b) = "less"
    [] o = "<=" -> exprCompare(a, b) # "greater"
    [] o = ">"  -> exprCompare(a, b) = "greater"
    [] OTHER    -> exprCompare(a, b) # "less"

RECURSIVE parseOr(_, _, _), parseAnd(_, _, _), parseNot(_, _, _), parseArgs(_, _, _, _),
          OrLoop(_, _, _), AndLoop(_, _, _)

\* The argument loop of parseFunction: it asks parseOr for one more argument
\* until it sees a closing parenthesis or the end, and does not notice that
\* parseOr consumed nothing.
parseArgs(ctx, ts, p, args) ==
  IF p > Len(ts) \/ At(ts, p, ")") THEN [args |-> args, pos |-> p]
  ELSE LET from == IF args # <<>> /\ At(ts, p, ",") THEN p + 1 ELSE p
           arg  == parseOr(ctx, ts, from)
       IN IF arg.pos \in {0, p} THEN [args |-> args, pos |-> 0]
          ELSE parseArgs(ctx, ts, arg.pos, Append(args, arg.val))

parseFunction(ctx, ts, p, name) ==
  LET inner == parseArgs(ctx, ts, p, <<>>)
  IN IF inner.pos = 0 THEN Stuck
     ELSE [val |-> callFunction(ctx, name, inner.args),
           pos |-> IF At(ts, inner.pos, ")") THEN inner.pos + 1 ELSE inner.pos]

\* An unexpected character makes an empty identifier: nil, nothing consumed.
parseIdentifier(ctx, ts, p) ==
  CASE ts[p].kind = "path" -> [val |-> lookupContext(ctx, ts[p].path), pos |-> p + 1]
    [] ts[p].kind = "func" ->
         IF At(ts, p + 1, "(") THEN parseFunction(ctx, ts, p + 2, ts[p].val)
         ELSE [val |-> lookupContext(ctx, <<ts[p].val>>), pos |-> p + 1]
    [] OTHER -> [val |-> Nil, pos |-> p]

parsePrimary(ctx, ts, p) ==
  IF p > Len(ts) THEN [val |-> Nil, pos |-> p]
  ELSE CASE At(ts, p, "(") ->
              LET inner == parseOr(ctx, ts, p + 1)
              IN [inner EXCEPT !.pos = IF At(ts, @, ")") THEN @ + 1 ELSE @]
         [] ts[p].kind = "literal" -> [val |-> ts[p].lit, pos |-> p + 1]
         [] OTHER -> parseIdentifier(ctx, ts, p)

parseNot(ctx, ts, p) ==
  IF At(ts, p, "!")
  THEN LET inner == parseNot(ctx, ts, p + 1)
       IN [inner EXCEPT !.val = Bool(~ toBool(@))]
  ELSE parsePrimary(ctx, ts, p)

parseComparison(ctx, ts, p) ==
  LET left == parseNot(ctx, ts, p)
  IN IF left.pos # 0 /\ \E o \in Comparisons : At(ts, left.pos, o)
     THEN LET right == parseNot(ctx, ts, left.pos + 1)
          IN [right EXCEPT !.val = Bool(Compare(ts[left.pos].val, left.val, @))]
     ELSE left

\* Mutant: the false operand is dropped and the chain goes on.
AndLoopLast(ctx, ts, left) ==
  IF left.pos = 0 \/ ~ At(ts, left.pos, "&&") THEN left
  ELSE AndLoop(ctx, ts, parseComparison(ctx, ts, left.pos + 1))

\* The loop of parseAnd: the right operand is parsed, and then a false left
\* operand is returned at once, with the rest of the chain unread.
AndLoop(ctx, ts, left) ==
  IF left.pos = 0 \/ ~ At(ts, left.pos, "&&") THEN left
  ELSE LET right == parseComparison(ctx, ts, left.pos + 1)
       IN IF ~ toBool(left.val) THEN [left EXCEPT !.pos = right.pos]
          ELSE AndLoop(ctx, ts, right)

parseAnd(ctx, ts, p) == AndLoop(ctx, ts, parseComparison(ctx, ts, p))

OrLoop(ctx, ts, left) ==
  IF left.pos = 0 \/ ~ At(ts, left.pos, "||") THEN left
  ELSE LET right == parseAnd(ctx, ts, left.pos + 1)
       IN IF toBool(left.val) THEN [left EXCEPT !.pos = right.pos]
          ELSE OrLoop(ctx, ts, right)

parseOr(ctx, ts, p) == OrLoop(ctx, ts, parseAnd(ctx, ts, p))

EvalExpr(ctx, ts) == parseOr(ctx, ts, 1)

(***************************************************************************)
(* Interpolate: a text is a sequence of chunks, plain or ${{ }}; every     *)
(* expression chunk is replaced by the text of its value.                  *)
(***************************************************************************)

Interpolate(ctx, chunks) ==
  [i \in DOMAIN chunks |-> IF chunks[i].kind = "text" THEN chunks[i].val
                           ELSE EvalExpr(ctx, chunks[i].val).val.text]

\* An `if:` condition: implicit ${{ }}, coerced to a Boolean.
EvalExprBool(ctx, ts) == toBool(EvalExpr(ctx, ts).val)

(***************************************************************************)
(* What an expression means, over its tree: || and && yield the operand    *)
(* that decides, ! and the comparisons yield Booleans.                     *)
(***************************************************************************)

Leaf(token) == [op |-> "leaf", of |-> <<>>, token |-> token]
Node(op, of) == [op |-> op, of |-> of, token |-> Op("")]

Leaves == {Leaf([kind |-> "literal", lit |-> v]) : v \in Literals}
            \cup {Leaf([kind |-> "path", path |-> p]) : p \in UNION {DOMAIN c : c \in Contexts}}

Chains(E) == UNION {[1 .. n -> E] : n \in 2 .. Operands}

\* Function calls, with the arguments the function wants.
Calls == {Node(f, <<>>) : f \in {"success", "failure", "cancelled", "always"}}
Calls2(E) == {Node("contains", a) : a \in [1 .. 2 -> E]}
               \cup {Node("startswith", a) : a \in [1 .. 2 -> E]}

Depth1 == Leaves \cup Calls
Depth2 == Depth1 \cup {Node("!", <<e>>) : e \in Depth1} \cup Calls2(Leaves)
            \cup {Node(o, c) : o \in {"||", "&&"}, c \in Chains(Leaves)}
            \cup {Node(o, c) : o \in Comparisons, c \in [1 .. 2 -> Leaves]}
Boolean2 == {e \in Depth2 : e.op \in {"||", "&&", "!", "==", "leaf"}}
Trees == Depth2 \cup {Node(o, <<e, f>>) : o \in {"||", "&&", "=="}, e \in Boolean2, f \in Leaves}
                \cup {Node("!", <<e>>) : e \in Boolean2}

FunctionNames == {"success", "failure", "cancelled", "always", "contains", "startswith"}

RECURSIVE Meaning(_, _)
Meaning(ctx, e) ==
  LET val(i) == Meaning(ctx, e.of[i])
  IN CASE e.op = "leaf" -> IF e.token.kind = "literal" THEN e.token.lit
                           ELSE lookupContext(ctx, e.token.path)
       [] e.op = "!"    -> Bool(~ toBool(val(1)))
       [] e.op = "||"   -> LET true == {i \in DOMAIN e.of : toBool(val(i))}
                           IN IF true = {} THEN val(Len(e.of))
                              ELSE val(CHOOSE i \in true : \A j \in true : i <= j)
       [] e.op = "&&"   -> LET false == {i \in DOMAIN e.of : ~ toBool(val(i))}
                           IN IF false = {} THEN val(Len(e.of))
                              ELSE val(CHOOSE i \in false : \A j \in false : i <= j)
       [] e.op \in Comparisons -> Bool(Compare(e.op, val(1), val(2)))
       [] OTHER -> callFunction(ctx, e.op, [i \in DOMAIN e.of |-> val(i)])

\* How tightly an operator binds; an operand that binds no tighter than its
\* parent is written in parentheses.
Binds(e) == CASE e.op = "||" -> 1 [] e.op = "&&" -> 2 [] e.op \in Comparisons -> 3
              [] e.op = "!" -> 4 [] OTHER -> 5

RECURSIVE Written(_)
Written(e) ==
  LET operand(i) == IF Binds(e.of[i]) <= Binds(e)
                    THEN <<Op("(")>> \o Written(e.of[i]) \o <<Op(")")>> ELSE Written(e.of[i])
      joined(o) == FoldLeft(LAMBDA ts, i : IF i = 1 THEN operand(1) ELSE ts \o <<Op(o)>> \o operand(i),
                            <<>>, [i \in 1 .. Len(e.of) |-> i])
      listed == FoldLeft(LAMBDA ts, i : IF i = 1 THEN Written(e.of[1]) ELSE ts \o <<Op(",")>> \o Written(e.of[i]),
                         <<>>, [i \in 1 .. Len(e.of) |-> i])
  IN CASE e.op = "leaf" -> <<e.token>>
       [] e.op = "!" -> <<Op("!")>> \o operand(1)
       [] e.op \in FunctionNames -> <<[kind |-> "func", val |-> e.op], Op("(")>> \o listed \o <<Op(")")>>
       [] OTHER -> joined(e.op)

NotYet == Value("pending", "")

Init ==
  /\ tree \in Trees
  /\ context \in Contexts
  /\ answer = [val |-> NotYet, pos |-> 1]

EvaluateValue ==
  /\ answer.val = NotYet
  /\ answer' = EvalExpr(context, Written(tree))
  /\ UNCHANGED <<tree, context>>

\* The same expression as an `if:`, and inside a text.
EvaluateCondition ==
  /\ answer.val = NotYet
  /\ answer' = [EvalExpr(context, Written(tree)) EXCEPT !.val = Bool(EvalExprBool(context, Written(tree)))]
  /\ UNCHANGED <<tree, context>>

EvaluateText ==
  /\ answer.val = NotYet
  /\ LET chunks == <<[kind |-> "text", val |-> "ci-"], [kind |-> "expr", val |-> Written(tree)]>>
     IN answer' = [EvalExpr(context, Written(tree)) EXCEPT !.val = Value("text", Interpolate(context, chunks))]
  /\ UNCHANGED <<tree, context>>

Next == EvaluateValue \/ EvaluateCondition \/ EvaluateText

(***************************************************************************)
(* Properties.                                                             *)
(***************************************************************************)

\* parseOr and parseAnd return at the operand that decides the chain and
\* leave all but the next operand unread.  Where the chain is the whole text
\* that is harmless; as a part of something larger, what follows is lost
\* (with a false, a && b && c || d is a).
CutShort(e) == \E i \in DOMAIN e.of : e.of[i].op \in {"||", "&&"} /\ Len(e.of[i].of) > 2

\* The evaluator (EvalExpr, and through it EvalExprBool and Interpolate)
\* gives every expression the value its tree has: precedences, parentheses,
\* negation, comparisons with their coercions, the deciding operand of ||
\* and &&, and function calls.  The chains that CutShort describes are the
\* exception.
ExpressionsMeanWhatTheySay ==
  LET meant == Meaning(context, tree)
  IN \/ answer.val = NotYet \/ CutShort(tree)
     \/ answer.val = IF answer.val.type = "text" THEN Value("text", <<"ci-", meant.text>>) ELSE meant
     \/ answer.val = Bool(toBool(meant))

\* A call of the evaluator on a well-formed expression returns: the argument
\* loop of parseFunction, which has no other bound, always finds its
\* parenthesis.
EvaluationReturns == answer.pos # 0

\* The evaluator answers every well-formed expression, and with its value.
ExpressionsAreEvaluated == EvaluationReturns /\ ExpressionsMeanWhatTheySay
=============================================================================
