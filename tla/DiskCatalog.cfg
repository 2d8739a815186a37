SPECIFICATION Spec
CONSTANTS
  Disks = {starter}
  DefaultDisk = starter
  MaxLaunches = 2
  Attempts = 1
  Drives = {"C"}
  Brought = {"blank"}
  Served = {0, 2}
  UrlDrives = {"C"}
INVARIANTS
  DownloadsAccounted
  
  CatalogTrue

  
