SPECIFICATION Spec
CONSTANTS
  Archs = {"amd64", "arm"}
  Lexicon <- MCLexicon
CHECK_DEADLOCK FALSE
INVARIANT GrammarSupported
