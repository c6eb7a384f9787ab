------------------------------- MODULE MCParts -------------------------------
(***************************************************************************)
(* The parts of the program that stand by themselves, one at a time: a     *)
(* behaviour is one of the local images and their commands, one of the     *)
(* reporters, one of git's output, one of the metadata proxy, one of the   *)
(* editor of a .config, one walk for an image, or an input of an           *)
(* algorithm.                                                              *)
(***************************************************************************)
EXTENDS LocalStore, GitOutput, MetadataProxy, ConfigFile, ImageWalk

CONSTANT Parts

VARIABLES part, input

vars == <<part, input, storeVars, reporterVars, gitVars, proxyVars, configVars, walkVars>>

-----------------------------------------------------------------------------
(* The commands of a user who builds an image for a and c, "t" and "u",    *)
(* beside the "u" of the registry, which has images for a and b.          *)

Cmd(op, refs, arch) == [op |-> op, refs |-> refs, arch |-> arch]

MCCommands ==
  {Cmd("build", <<"t", "u">>, ""),
   Cmd("tag", <<"t", "u">>, ""), Cmd("tag", <<"u", "t">>, ""),
   Cmd("rm", <<"t">>, ""), Cmd("rm", <<"u", "t">>, ""),
   Cmd("push", <<"u">>, ""), Cmd("get", <<"t">>, "a")}
  \union {Cmd(op, <<"u">>, a) : op \in {"pull", "get"}, a \in {"a", "b"}}

MCBuilt == Root(<<"a", "c">>)
MCPublished == [t |-> NoRoot, u |-> Root(<<"a", "b">>)]

-----------------------------------------------------------------------------
(* Output: an empty line, a line begun, one ended and another begun, and a  *)
(* blank one.                                                               *)

MCOutputs == {<<"\n">>, <<"x">>, <<"x", "\n", "y">>, <<" ", "\n">>}

-----------------------------------------------------------------------------
(* Conditions: an operator, or two of them, on names and strings, and on   *)
(* numbers.                                                                *)

MCLexicon == <<"", "0", "1", "2", "amd64", "arm", "false", "true">>
Condition == INSTANCE Expr WITH Lexicon <- MCLexicon

Names == {Condition!Leaf(Condition!Token("ident", n)) : n \in {"arch", "true", "foo"}}
           \union {Condition!Leaf(Condition!Token("str", "arm"))}
Numbers == {Condition!Leaf(Condition!Token("num", n)) : n \in {1, 2}}

Over(trees, others, ops) ==
  {Condition!Not(t) : t \in trees}
    \union {Condition!Binary(o, l, r) : o \in ops, l \in trees, r \in others}

Trees(leaves, ops) ==
  LET small == leaves \union Over(leaves, leaves, ops)
  IN  small \union Over(small, leaves, ops) \union Over(leaves, small, ops)

Joined(trees) == {Condition!Binary(o, l, r) : o \in {"&&", "||"}, l \in trees, r \in trees}

Conditions ==
  Trees(Names, {"==", "&&", "||"}) \union Trees(Numbers, {"<=", ">", "!=", "&&"})
    \union Joined(Over(Names, Names, {"==", "&&"}))

\* Names and paths of up to four parts.
Pieces ==
  {Condition!Literal(Condition!Token(k, v)) : k \in {"ident", "text"}, v \in {"x"}}
    \union {Condition!Literal(Condition!Token("num", 1)), Condition!Literal(Condition!Dollar)}
    \union {Condition!Escaped, Condition!Variable("arch"), Condition!Variable("foo")}
    \union {Condition!Embedded(Condition!Binary("==", Condition!Leaf(Condition!Token("ident", n)),
                                                Condition!Leaf(Condition!Token("str", "arm")))) :
             n \in {"arch", "foo"}}
Templates == UNION {[1..n -> Pieces] : n \in 0..4}

-----------------------------------------------------------------------------
(* Configurations of up to three lines.                                    *)

MCLines ==
  {Comment} \union {IsNotSet(n) : n \in Options}
    \union {Assign(n, v) : n \in Options, v \in {"y", "m"}}
MCConfigFiles == UNION {[1..n -> MCLines] : n \in 0..3}

-----------------------------------------------------------------------------
(* git prints up to five atoms, at most three at once.                     *)

MCGitChunks ==
  UNION {[1..n -> {Scan!NL, Scan!Noise, "x"}] : n \in 1..3}
    \union UNION {[1..n -> {Scan!NL, Scan!Blank, "x"}] : n \in 1..2}

-----------------------------------------------------------------------------
(* Roots of up to two entries, an index among them, of images that are     *)
(* there, missing, broken or of another kind.                              *)

A == Linux("a")
A8 == [A EXCEPT !.variant = "v8"]
B == Linux("b")
MCPlatforms == {A, A8, B, Unspecified, NoPlatform}
MCWants == {A, A8}

UpTo2(S) == {<<>>} \union {<<x>> : x \in S} \union {<<x, y>> : x \in S, y \in S}
Here == {ImageDesc("ok", A, TRUE), ImageDesc("ok", A8, TRUE), ImageDesc("missing", A, TRUE)}
Entries ==
  Here \union {ImageDesc("ok", B, TRUE), ImageDesc("ok", A, FALSE), ImageDesc("broken", A, TRUE),
                ImageDesc("ok", Unspecified, TRUE), OtherDesc}
Nested ==
  {IndexDesc("ok", p, list) : p \in {NoPlatform, A, B}, list \in UpTo2(Here) \union UpTo2({OtherDesc})}
    \union {IndexDesc(status, NoPlatform, <<ImageDesc("ok", A, TRUE)>>) : status \in {"missing", "broken"}}
MCWalkRoots ==
  {IndexDesc("ok", NoPlatform, list) : list \in UpTo2(Entries)}
    \union {IndexDesc("ok", NoPlatform, <<e, n>>) : e \in Here, n \in Nested}
    \union {IndexDesc("ok", NoPlatform, <<n, e>>) : e \in Here, n \in Nested}
    \union Entries \union Nested
MCDescs == MCWalkRoots

-----------------------------------------------------------------------------
NoInput == [of |-> "none"]

\* The inputs of an algorithm.
Inputs(algorithm) ==
  CASE algorithm = "condition" -> [of : {"condition"}, tree : Conditions]
    [] algorithm = "template" -> [of : {"template"}, parts : Templates]
    [] OTHER -> {NoInput}

Init ==
  /\ StoreInit /\ ReporterInit /\ GitInit /\ ProxyInit
  /\ part \in Parts
  /\ \/ part = "walk"
     \/ part # "walk" /\ root = OtherDesc /\ listing = TRUE
  /\ WalkInit
  /\ input \in Inputs(part)
  /\ \/ part = "config"
     \/ part # "config" /\ data = <<>>
  /\ ConfigInit

Next ==
  \/ part = "store" /\ StoreNext /\ UNCHANGED <<part, input, reporterVars, gitVars, proxyVars, configVars, walkVars>>
  \/ part = "reporter" /\ ReporterNext /\ UNCHANGED <<part, input, storeVars, gitVars, proxyVars, configVars, walkVars>>
  \/ part = "git" /\ GitNext /\ UNCHANGED <<part, input, storeVars, reporterVars, proxyVars, configVars, walkVars>>
  \/ part = "proxy" /\ ProxyNext /\ UNCHANGED <<part, input, storeVars, reporterVars, gitVars, configVars, walkVars>>
  \/ part = "config" /\ ConfigNext /\ UNCHANGED <<part, input, storeVars, reporterVars, gitVars, proxyVars, walkVars>>
  \/ part = "walk" /\ WalkNext /\ UNCHANGED <<part, input, storeVars, reporterVars, gitVars, proxyVars, configVars>>

Spec == Init /\ [][Next]_vars /\ ReporterFairness

-----------------------------------------------------------------------------
(* Properties of the algorithms.                                           *)

\* A condition that the evaluator accepts has the value that its grammar gives
\* it, for each architecture, and flat ones are all accepted (expr.EvalBool); the
\* references in a name or a path are replaced by their values (expr.Subst).
ExpressionsMeanWhatTheySay ==
  \A arch \in {"amd64", "arm"} :
    /\ input.of = "condition" => Condition!MeansWhatItSays({input.tree}, [arch |-> arch])
    /\ input.of = "template" => Condition!SubstitutedInPlace(input.parts, [arch |-> arch])
=============================================================================
