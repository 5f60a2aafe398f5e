SPECIFICATION Spec
CONSTANTS
  t1 = t1
  t2 = t2
  a = a
  b = b
  in = in
  out = out
  other = other
  Tabs = {t1}
  Calls = {a, out}
  Tab <- MCTab
  Kind <- MCKind
  StartPage <- InApp
  MaxTokens = 2
INVARIANTS
  TokensCleared
