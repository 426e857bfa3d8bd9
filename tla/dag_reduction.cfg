SPECIFICATION Spec
CONSTANTS
  Root = root
  i = i
  o = o
  b = b
  c = c
  s = s
  q = q
  l = l
  Inputs = {i}
  Blocks = {1, 2, 3}
  Orphans = {o, q}
  Lookalikes = {q}
  Backends = {b}
  Configs = {c}
  Strays = {s, l}
  Loops = {l}
  Looped = {2}
  Mentions <- SmallPackages
  MaxDepth = 6
INVARIANT DependenciesKept
CHECK_DEADLOCK FALSE
