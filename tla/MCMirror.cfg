SPECIFICATION FairSpec
CONSTANTS
  Pods = {p}
  Nodes = {n}
  Storage = {s}
  MaxChanges = 3
  MaxLosses = 1
INVARIANTS TypeOK CopiesArePlaced KnownIsMirrored
PROPERTIES WhatStaysIsMirrored MirrorConverges
CHECK_DEADLOCK FALSE
