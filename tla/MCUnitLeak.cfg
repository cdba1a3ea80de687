SPECIFICATION Spec
CONSTANTS
  Workers = {w1, w2}
  t1 = t1
  t2 = t2
  pkg = pkg
  gomod = gomod
  broken = broken
  c1 = c1
  c2 = c2
  bad = bad
  nofilter = nofilter
  sticky = sticky
  other = other
  Tools = {t1, t2}
  Sources = {pkg, gomod, broken}
  Broken = {broken}
  Modules = {gomod}
  Configs = {c1, c2, bad, nofilter}
  Invalid = {bad}
  Unfilterable = {nofilter}
  Sticky = {sticky}
  Setups <- LeakSetups
  None = none
  Torn = torn
INVARIANT ReproducesColdRun
CHECK_DEADLOCK FALSE
