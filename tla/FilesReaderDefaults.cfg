\* AddDefaultFiles over every directory, which nobody changes meanwhile.
CONSTANTS
  FullCore = FullCore
  FullUncore = FullUncore
  ShortCore = ShortCore
  ShortUncore = ShortUncore
  ClientPaths = {FullCore, ShortCore}
  iNew = iNew
  iOld = iOld
  iBroken = iBroken
  Inodes = {iNew, iOld, iBroken}
  Format <- MCFormat
  MaxArgs = 2
  MaxPaths = 3
  MaxReplacements = 0
SPECIFICATION Spec
PROPERTIES
  DefaultsAdded
CHECK_DEADLOCK FALSE
