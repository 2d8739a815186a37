SPECIFICATION Spec
CONSTANTS
  TIMEOUT_DEFAULT = 1
  AnyAddr = AnyAddr
  MaxFd = 3
  MaxPort = 4
  GuestPorts = {2}
  SO_EXPIRE = 2
  Settings <- SomeSettings
  ServerLists <- SomeServers
  HeldPorts = {1}
INVARIANTS DescriptorsTrue EventsOwn ForwardsStand 
CHECK_DEADLOCK FALSE
