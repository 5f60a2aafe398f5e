SPECIFICATION FairSpec
CONSTANTS
  t1 = t1
  t2 = t2
  a = a
  b = b
  in = in
  out = out
  other = other
  Tabs = {t1, t2}
  Calls = {a, b, other}
  Tab <- MCTab
  Kind <- MCKind
  StartPage <- InApp
  MaxTokens = 3
INVARIANTS
  TypeOK
  QueueIsServed
PROPERTIES
  RetriesUseNewToken
  CallsAreAnswered
