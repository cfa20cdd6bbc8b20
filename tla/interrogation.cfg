CONSTANTS
  Devices = {1, 2}
  Period = 3
SPECIFICATION FairSpec
PROPERTIES WholePeriod InterrogatedWhenAllStart
