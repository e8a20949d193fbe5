SPECIFICATION Spec
CONSTANTS
  Hosts = {h1, h2}
  Commands <- TwoCommands
  MaxDatagrams = 3
  StorageSize = 5
INVARIANT OldPackageIsIgnored
