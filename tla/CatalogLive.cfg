SPECIFICATION Spec
CONSTANTS
  Disks = {starter}
  DefaultDisk = starter
  MaxLaunches = 1
  Attempts = 2
  Drives = {"C"}
  Brought = {"own"}
  Served = {1}
  UrlDrives = {}
PROPERTIES
  RequestsEnd
