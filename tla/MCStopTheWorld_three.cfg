SPECIFICATION ThreeSpec
CONSTANTS
  Threads = {t1, t2, t3}
  Busy = {}
  NoThread = NoThread
  Ops = 2
SYMMETRY Symmetry
INVARIANTS WorldIsStopped NeverLoses StopsDoNotOutlive
