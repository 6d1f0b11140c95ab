\* Two addresses and two descriptors, reused in any combination, two foreign threads;
\* an event list of one entry, so that it runs full and doubles.
CONSTANTS
  Channels = {c1, c2}
  Fds = {f1, f2}
  Users = {u1, u2}
  None = None
  kInitEventListSize = 1
SYMMETRY Symmetry
SPECIFICATION Spec
INVARIANTS TypeOK KernelMatches NoCtlFailure NoDangling ClosedIsFinal
