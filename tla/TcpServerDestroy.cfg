\* One client in the loop of the only pool thread; main ends at any moment.
CONSTANTS
  MaxClients = 1
  Fds = {7}
  MaxThreads = 1
  Requests = 1
  MessageLength = 1
  Nobody = Nobody
SPECIFICATION Spec
INVARIANT HandlersMeetTheLiving
CHECK_DEADLOCK FALSE
