SPECIFICATION FlpSpec
CONSTANTS
  FlpSizes <- Descriptions
  SearchSizes <- Explored
  SearchDepth = 4
PROPERTY FlpOutcome
\* a protocol stops once nothing is pending
CHECK_DEADLOCK FALSE
