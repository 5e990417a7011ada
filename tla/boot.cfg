SPECIFICATION FairSpec
CONSTANTS
  a = a
  b = b
  c1 = c1
  c2 = c2
  l1 = l1
  Servers = {a, b}
  Writers = {c1, c2, l1}
  Configured <- MCBothConfigured
  OAuth = {a, b}
  Sessions = {a}
  Callers = {c1, c2}
  Target <- MCTarget
  Logins = {l1}
  LoginTarget <- MCLoginTarget
  MaxTokens = 3
  MaxActors = 2
PROPERTY
  StartEnds
