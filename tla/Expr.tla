-------------------------------- MODULE Expr --------------------------------
(***************************************************************************)
(* The conditions of a Kernelfile (internal/expr/expr.go): values, the     *)
(* comparison of two of them, the recursive descent of the evaluator, and  *)
(* the substitution of values in names and paths.  An expression is a      *)
(* sequence of lexemes, see below.                                         *)
(*                                                                         *)
(* Below, apart from the code, what an expression means by its grammar: an *)
(* expression tree, its value, and how it is written with the parentheses  *)
(* its operators' precedence needs and no others.                          *)
(***************************************************************************)
EXTENDS Integers, Sequences, TLC

CONSTANT Lexicon   \* the strings in play, in their lexicographic order

-----------------------------------------------------------------------------
(* Values.                                                                 *)

Bool(b) == [kind |-> "bool", v |-> b]
Str(s) == [kind |-> "str", v |-> s]
Num(n) == [kind |-> "num", v |-> n]
Null == [kind |-> "null", v |-> "null"]

String(v) ==
  CASE v.kind = "bool" -> IF v.v THEN "true" ELSE "false"
    [] v.kind = "str" -> v.v
    [] v.kind = "num" -> ToString(v.v)
    [] OTHER -> ""

truthy(v) ==
  \/ v.kind = "bool" /\ v.v
  \/ v.kind = "str" /\ v.v # ""
  \/ v.kind = "num" /\ v.v # 0

equals(l, r) == IF l.kind = r.kind THEN l.v = r.v ELSE truthy(l) = truthy(r)

Rank(s) == CHOOSE i \in DOMAIN Lexicon : Lexicon[i] = s

less(l, r) ==
  IF l.kind = "num" /\ r.kind = "num" THEN l.v < r.v
  ELSE Rank(String(l)) < Rank(String(r))

\* Mutant of compare: "<=" does not hold of equal values.
compareStrict(op, l, r) ==
  Bool(CASE op = "==" -> equals(l, r)
         [] op = "!=" -> ~equals(l, r)
         [] op \in {"<", "<="} -> less(l, r)
         [] op = ">" -> ~less(l, r) /\ ~equals(l, r)
         [] op = ">=" -> ~less(l, r))

compare(op, l, r) ==
  Bool(CASE op = "==" -> equals(l, r)
         [] op = "!=" -> ~equals(l, r)
         [] op = "<" -> less(l, r)
         [] op = "<=" -> less(l, r) \/ equals(l, r)
         [] op = ">" -> ~less(l, r) /\ ~equals(l, r)
         [] op = ">=" -> ~less(l, r))

-----------------------------------------------------------------------------
(* Tokens, of text in which each name, number, string and parenthesis, with *)
(* kind "bad" a string without an end or anything else that has no place,   *)
(* is one lexeme, and each character of an operator is.                     *)

Token(kind, val) == [kind |-> kind, val |-> val]
Op(o) == Token("op", o)
Char(c) == Token("char", c)
EOF == Token("eof", "")
Comparisons == {"==", "!=", "<", "<=", ">", ">="}

RECURSIVE tokensFrom(_, _)
Malformed == <<>>

\* An operator has a second character if that is "=", or "&" or "|" again.
tokensFrom(lexemes, toks) ==
  LET c == Head(lexemes)
      two == /\ Len(lexemes) > 1 /\ lexemes[2].kind = "char"
             /\ lexemes[2].val = "=" \/ (lexemes[2].val = c.val /\ c.val \in {"&", "|"})
  IN  CASE lexemes = <<>> -> Append(toks, EOF)
        [] lexemes # <<>> /\ c.kind = "blank" -> tokensFrom(Tail(lexemes), toks)
        [] lexemes # <<>> /\ c.kind = "char" ->
             IF two THEN tokensFrom(Tail(Tail(lexemes)), Append(toks, Op(c.val \o lexemes[2].val)))
             ELSE IF c.val \in {"!", "<", ">"} THEN tokensFrom(Tail(lexemes), Append(toks, Op(c.val)))
             ELSE Malformed
        [] lexemes # <<>> /\ c.kind = "bad" -> Malformed
        [] OTHER -> tokensFrom(Tail(lexemes), Append(toks, c))

tokenize(lexemes) == tokensFrom(lexemes, <<>>)

-----------------------------------------------------------------------------
(* The parser.  Each function yields the place after what it has read and  *)
(* the value of that, or Failed; s is the scope.                           *)

Parsed(pos, val) == [ok |-> TRUE, pos |-> pos, val |-> val]
Failed == [ok |-> FALSE, pos |-> 0, val |-> Null]

RECURSIVE parseOr(_, _, _), moreOr(_, _, _), moreAnd(_, _, _), parseNot(_, _, _)

Parenthesized(toks, inner) ==
  IF inner.ok /\ toks[inner.pos].kind = ")" THEN Parsed(inner.pos + 1, inner.val) ELSE Failed

parsePrimary(toks, p, s) ==
  LET t == toks[p]
  IN  CASE t.kind = "(" -> Parenthesized(toks, parseOr(toks, p + 1, s))
        [] t.kind = "str" -> Parsed(p + 1, Str(t.val))
        [] t.kind = "num" -> Parsed(p + 1, Num(t.val))
        [] t.kind = "ident" /\ t.val \in {"true", "false"} -> Parsed(p + 1, Bool(t.val = "true"))
        [] t.kind = "ident" /\ t.val = "null" -> Parsed(p + 1, Null)
        [] t.kind = "ident" /\ t.val \in DOMAIN s -> Parsed(p + 1, Str(s[t.val]))
        [] OTHER -> Failed

Compared(op, left, right) ==
  IF right.ok THEN Parsed(right.pos, compare(op, left.val, right.val)) ELSE Failed

\* Whatever operator follows a primary is taken for a comparison.
moreCmp(toks, left, s) ==
  IF ~left.ok \/ toks[left.pos].kind # "op" THEN left
  ELSE IF toks[left.pos].val \notin Comparisons THEN Failed
  ELSE Compared(toks[left.pos].val, left, parsePrimary(toks, left.pos + 1, s))

parseCmp(toks, p, s) == moreCmp(toks, parsePrimary(toks, p, s), s)

Negated(inner) == IF inner.ok THEN Parsed(inner.pos, Bool(~truthy(inner.val))) ELSE Failed

parseNot(toks, p, s) ==
  IF toks[p] # Op("!") THEN parseCmp(toks, p, s)
  ELSE Negated(parseNot(toks, p + 1, s))

Both(left, right) ==
  IF right.ok THEN Parsed(right.pos, Bool(truthy(left.val) /\ truthy(right.val))) ELSE Failed

moreAnd(toks, left, s) ==
  IF ~left.ok \/ toks[left.pos] # Op("&&") THEN left
  ELSE moreAnd(toks, Both(left, parseNot(toks, left.pos + 1, s)), s)

parseAnd(toks, p, s) == moreAnd(toks, parseNot(toks, p, s), s)

Either(left, right) ==
  IF right.ok THEN Parsed(right.pos, Bool(truthy(left.val) \/ truthy(right.val))) ELSE Failed

moreOr(toks, left, s) ==
  IF ~left.ok \/ toks[left.pos] # Op("||") THEN left
  ELSE moreOr(toks, Either(left, parseAnd(toks, left.pos + 1, s)), s)

parseOr(toks, p, s) == moreOr(toks, parseAnd(toks, p, s), s)

\* All of the tokens have to be read.
Whole(toks, parsed) == IF parsed.ok /\ toks[parsed.pos] = EOF THEN parsed ELSE Failed
evalTokens(toks, s) == IF toks = Malformed THEN Failed ELSE Whole(toks, parseOr(toks, 1, s))
eval(lexemes, s) == evalTokens(tokenize(lexemes), s)

\* What a string may have beside the lexemes of an expression.
Dollar == Char("$")
OpenBraces == Token("{{", "{{")
CloseBraces == Token("}}", "}}")

\* A condition is an expression, or one in ${{ }}.
Unwrapped(in) ==
  IF Len(in) > 2 /\ SubSeq(in, 1, 2) = <<Dollar, OpenBraces>> /\ in[Len(in)] = CloseBraces
  THEN SubSeq(in, 3, Len(in) - 1) ELSE in

\* "true", "false" or "error".
Verdict(result) ==
  IF ~result.ok THEN "error" ELSE IF truthy(result.val) THEN "true" ELSE "false"

\* Nothing at all is true.
EvalBool(in, s) == IF in = <<>> THEN "true" ELSE Verdict(eval(Unwrapped(in), s))

-----------------------------------------------------------------------------
(* Substitution.                                                           *)

\* An expression that has no value is left out.
Inserted(result) == IF result.ok THEN String(result.val) ELSE ""
EvalString(in, s) == Inserted(eval(in, s))

\* How a lexeme is written.
Text(c) ==
  CASE c.kind = "num" -> ToString(c.val) [] c.kind = "str" -> "'" \o c.val \o "'" [] OTHER -> c.val

isIdentRune(c, first) == c.kind = "ident" \/ (c.kind = "num" /\ ~first)

\* The identifier that in begins with, and what follows it.
RECURSIVE Identifier(_, _)
Identifier(in, name) ==
  IF in # <<>> /\ isIdentRune(Head(in), name = "") THEN Identifier(Tail(in), name \o Text(Head(in)))
  ELSE [name |-> name, rest |-> in]

RECURSIVE Subst(_, _)
Subst(in, s) ==
  LET id == Identifier(Tail(in), "")
      closing == {k \in DOMAIN in : in[k] = CloseBraces}
      end == CHOOSE k \in closing : \A l \in closing : k <= l
      from(k) == Subst(SubSeq(in, k, Len(in)), s)
      followed(c) == Len(in) > 1 /\ in[2] = c
  IN  CASE in = <<>> -> ""
        [] in # <<>> /\ in[1] # Dollar -> Text(in[1]) \o from(2)
        [] in # <<>> /\ in[1] = Dollar /\ followed(Dollar) -> "$" \o from(3)
        [] in # <<>> /\ in[1] = Dollar /\ followed(OpenBraces) /\ closing # {} ->
             EvalString(SubSeq(in, 3, end - 1), s) \o from(end + 1)
        [] OTHER ->
             IF id.name = "" THEN "$" \o from(2)
             ELSE (IF id.name \in DOMAIN s THEN s[id.name] ELSE "$" \o id.name) \o Subst(id.rest, s)

-----------------------------------------------------------------------------
(* The grammar.                                                            *)

Leaf(tok) == [op |-> "leaf", tok |-> tok]
Not(t) == [op |-> "!", arg |-> t]
Binary(op, l, r) == [op |-> op, left |-> l, right |-> r]

\* How tightly an operator binds.
Level(t) ==
  CASE t.op = "||" -> 1 [] t.op = "&&" -> 2 [] t.op = "!" -> 3
    [] t.op \in Comparisons -> 4 [] OTHER -> 5

RECURSIVE Spelled(_), Meaning(_, _)

OpText(o) ==
  CASE o \in {"!", "<", ">"} -> <<Char(o)>>
    [] o \in {"&&", "||"} -> LET c == IF o = "&&" THEN "&" ELSE "|" IN <<Char(c), Char(c)>>
    [] OTHER -> LET c == CHOOSE c \in {"=", "!", "<", ">"} : c \o "=" = o IN <<Char(c), Char("=")>>

SpelledAt(t, level) ==
  IF Level(t) >= level THEN Spelled(t)
  ELSE <<Token("(", "(")>> \o Spelled(t) \o <<Token(")", ")")>>

\* The operand of "!" is written in parentheses when it has an operator, so that
\* how "!" and a comparison bind does not matter.
Spelled(t) ==
  CASE t.op = "leaf" -> <<t.tok>>
    [] t.op = "!" -> OpText("!") \o SpelledAt(t.arg, 5)
    [] t.op \in Comparisons -> SpelledAt(t.left, 5) \o OpText(t.op) \o SpelledAt(t.right, 5)
    [] OTHER -> SpelledAt(t.left, Level(t)) \o OpText(t.op) \o SpelledAt(t.right, Level(t) + 1)

Undefined == [kind |-> "undefined", v |-> "undefined"]
Open == [kind |-> "open", v |-> "open"]

LeafMeaning(tok, s) ==
  CASE tok.kind = "str" -> Str(tok.val)
    [] tok.kind = "num" -> Num(tok.val)
    [] tok.val \in {"true", "false"} -> Bool(tok.val = "true")
    [] tok.val = "null" -> Null
    [] tok.val \in DOMAIN s -> Str(s[tok.val])
    [] OTHER -> Undefined

BinaryMeaning(op, l, r) ==
  LET same == IF l.kind = r.kind THEN l = r ELSE truthy(l) = truthy(r)
      ordered == l.kind = r.kind /\ l.kind \in {"num", "str"}
      before == IF l.kind = "num" THEN l.v < r.v ELSE Rank(l.v) < Rank(r.v)
  IN  CASE op = "&&" -> Bool(truthy(l) /\ truthy(r))
        [] op = "||" -> Bool(truthy(l) \/ truthy(r))
        [] op = "==" -> Bool(same)
        [] op = "!=" -> Bool(~same)
        [] ~ordered -> Open
        [] op = "<" -> Bool(before)
        [] op = "<=" -> Bool(before \/ same)
        [] op = ">" -> Bool(~before /\ ~same)
        [] op = ">=" -> Bool(~before)

\* An unknown name has no value, and neither has what it is part of.  Values of
\* two kinds are equal when both or neither is true; their order is left open.
Meaning(t, s) ==
  IF t.op = "leaf" THEN LeafMeaning(t.tok, s)
  ELSE
    LET args == IF t.op = "!" THEN <<Meaning(t.arg, s)>>
                ELSE <<Meaning(t.left, s), Meaning(t.right, s)>>
        kinds == {args[i].kind : i \in DOMAIN args}
    IN  CASE "undefined" \in kinds -> Undefined
          [] "open" \in kinds -> Open
          [] t.op = "!" -> Bool(~truthy(args[1]))
          [] OTHER -> BinaryMeaning(t.op, args[1], args[2])

\* Comparisons of literals and names, joined by "&&" and "||" without parentheses.
RECURSIVE Flat(_)
Flat(t) ==
  \/ t.op \in Comparisons /\ t.left.op = "leaf" /\ t.right.op = "leaf"
  \/ /\ t.op \in {"&&", "||"}
     /\ Flat(t.left) /\ Flat(t.right)
     /\ Level(t.left) >= Level(t) /\ Level(t.right) > Level(t)

\* What the evaluator accepts has the value the grammar gives it, and it accepts
\* every flat condition of known names; a condition in ${{ }} is the same.
MeansWhatItSays(trees, s) ==
  \A t \in trees :
    LET e == eval(Spelled(t), s)
        m == Meaning(t, s)
    IN  /\ e.ok => m.kind = "open" \/ (m.kind = e.val.kind /\ m = e.val)
        /\ Flat(t) /\ m.kind # "undefined" => e.ok
        /\ EvalBool(<<Dollar, OpenBraces>> \o Spelled(t) \o <<CloseBraces>>, s) = EvalBool(Spelled(t), s)

-----------------------------------------------------------------------------
(* Templates: names and paths with references in them, as a sequence of    *)
(* parts.                                                                  *)

Literal(c) == [part |-> "literal", lexeme |-> c]
Escaped == [part |-> "escaped"]
Variable(n) == [part |-> "variable", name |-> n]
Embedded(t) == [part |-> "embedded", tree |-> t]

PartSpelled(p) ==
  CASE p.part = "literal" -> <<p.lexeme>>
    [] p.part = "escaped" -> <<Dollar, Dollar>>
    [] p.part = "variable" -> <<Dollar, Token("ident", p.name)>>
    [] p.part = "embedded" -> <<Dollar, OpenBraces>> \o Spelled(p.tree) \o <<CloseBraces>>

PartMeaning(p, s) ==
  CASE p.part = "literal" -> Text(p.lexeme)
    [] p.part = "escaped" -> "$"
    [] p.part = "variable" -> IF p.name \in DOMAIN s THEN s[p.name] ELSE "$" \o p.name
    [] p.part = "embedded" ->
         IF Meaning(p.tree, s).kind = "undefined" THEN "" ELSE String(Meaning(p.tree, s))

\* Two parts that are not read as one when they are next to each other.
Apart(p, q) ==
  LET next == PartSpelled(q)[1]
  IN  /\ p.part = "variable" => next.kind \notin {"ident", "num"}
      /\ p = Literal(Dollar) => next # Dollar /\ next.kind # "ident"

\* Every reference and expression in a name or a path is replaced by its value,
\* whatever it stands next to; "$$" is a dollar, and so is one that refers to
\* nothing; the rest stays as it is.
SubstitutedInPlace(template, s) ==
  (\A i \in 2..Len(template) : Apart(template[i - 1], template[i])) =>
    LET n == Len(template)
        spelled[i \in 0..n] == IF i = 0 THEN <<>> ELSE spelled[i - 1] \o PartSpelled(template[i])
        meaning[i \in 0..n] == IF i = 0 THEN "" ELSE meaning[i - 1] \o PartMeaning(template[i], s)
    IN  Subst(spelled[n], s) = meaning[n]
=============================================================================
