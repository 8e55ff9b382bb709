SPECIFICATION Spec

CONSTANTS
  Task <- MCTask
  Oracle = "agent"
  MaxLogical = 2
  MaxWall = 4

PROPERTIES
  
  TopicForward
