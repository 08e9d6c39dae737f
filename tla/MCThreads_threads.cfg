SPECIFICATION SumSpec
CONSTANTS
  main = main
  a = a
  b = b
  f = f
  u = u
  v = v
  fin = fin
  Main = main
  Lisp = {a, b}
  Foreign = {f}
  Nobody = Nobody
  Mems = {1, 2, 3}
  Scripts <- MCScripts
INVARIANTS ThreadsAreSound EachInOnePlace
PROPERTIES InTheEnd
CHECK_DEADLOCK FALSE
