\* Every set of labels over the alphabet.
SPECIFICATION PolicySpec
CONSTANT Alphabet <- MCAlphabet
INVARIANTS
  GuardIsStricter
  PoliciesAgree
  SensitiveKeptOut
