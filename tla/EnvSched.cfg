\* Three slots, two generations of ids per slot before the generation wraps.
CONSTANTS
  NENV = 3
  ENVGEN = 3
  IDLIM = 9
SPECIFICATION FairSchedSpec
INVARIANTS OneRunning EnvFreeListExact
PROPERTIES FreshId ChildrenOnly FairUnlessExits
