------------------------------ MODULE MCExpr ------------------------------
(* The conditions of a Kernelfile, one behaviour for each: it is evaluated   *)
(* for every architecture that is asked for (evalActions and evalAction of   *)
(* internal/build/builder.go).                                               *)
EXTENDS Expr, FiniteSets

CONSTANT Archs

MCLexicon == <<"", "0", "1", "amd64", "arm", "false", "true">>
Arch(a) == Binary("==", Leaf(Token("ident", "arch")), Leaf(Token("str", a)))
Atoms == {Arch(a) : a \in Archs}
Guards == Atoms \union {Not(t) : t \in Atoms}
Joined(trees) == {Binary(o, l, r) : o \in {"&&", "||"}, l \in trees, r \in trees}

VARIABLES
  condition,   \* the tree of an "if"
  results      \* architecture -> what it evaluated to

vars == <<condition, results>>

Init ==
  /\ condition \in Guards \union Joined(Guards)
  /\ results = [a \in Archs |-> "none"]

Evaluate(a) ==
  /\ results[a] = "none"
  /\ results' = [results EXCEPT ![a] = EvalBool(Spelled(condition), [arch |-> a])]
  /\ UNCHANGED condition

Next == \E a \in Archs : Evaluate(a)

Spec == Init /\ [][Next]_vars

\* "The expression grammar supports string/number/boolean literals, identifiers,
\* the comparison operators == != < <= > >= and the logical operators && || !
\* with the usual precedence and parentheses" (internal/expr/expr.go:15-17):
\* what has a value by this grammar evaluates to it.
GrammarSupported ==
  \A a \in Archs :
    LET meaning == Meaning(condition, [arch |-> a])
    IN  meaning.kind # "undefined" /\ results[a] # "none" =>
          results[a] = IF truthy(meaning) THEN "true" ELSE "false"
=============================================================================
