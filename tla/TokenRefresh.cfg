SPECIFICATION FairSpec
CONSTANTS
  t1 = t1
  t2 = t2
  a = a
  b = b
  in = in
  out = out
  other = other
  Tabs = {t1}
  Calls = {a, b, in, out}
  Tab <- MCTab
  Kind <- MCKind
  StartPage <- InApp
  MaxTokens = 3
INVARIANTS
  QueueIsServed
  TokensBelongTogether
PROPERTIES
  RetriesUseNewToken
  CallsAreAnswered
