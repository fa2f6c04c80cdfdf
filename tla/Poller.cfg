\* Two peers, all backends, one or two events at a time from epoll and kqueue;
\* the set of select has room for both connections or for one.
SPECIFICATION Spec
CONSTANTS
  Peers = {p1, p2}
  Backends = {"select", "epoll", "kqueue"}
  EventLimits = {1, 2}
  MaxInput = 2
  SetSizes = {3, 4}
  MaxFaults = 1
INVARIANTS
  WatchesWhatIsOpen
  NoStaleEvents
PROPERTIES
  SelectServes
  OldestAccepted
  StopEndsLoop
