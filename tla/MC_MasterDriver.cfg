\* Two shell commands, each opening its own TCP stream to the bus.
CONSTANTS
  t1 = t1
  t2 = t2
  Threads = {t1, t2}
  Regs <- RegsTried
  MaxSockets = 2
SPECIFICATION Spec
INVARIANT StreamClosed
