CONSTANTS
  Order = {o1}
  MaxMail = 2
  MaxFaults = 2
SPECIFICATION FairSpec
PROPERTIES EveryOrderDealt
