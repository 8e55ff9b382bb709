SPECIFICATION Spec

CONSTANTS
  Agent <- MCAgent
  Process <- MCProcess
  Specs <- MCSpecs
  City <- MCCity
  Lang <- MCLang
  Absent = Absent
  Short = Short
  MaxKeys = 6
  MaxFaults = 2
  Word = 65536
  NonceLength = 2
  SchemaVersion <- MCSchemaVersion
  NormalPriority = 1
  Subscriber <- MCSubscriber
  Mode <- MCMode
  Hears <- MCHears
  Topic <- MCTopic
  Type <- MCType
  Options <- MCOptions
  Payload <- MCPayload
  InboxSize = 1
  MaxMessages = 2

INVARIANTS
  DropsExplained
  KeysAgree
  RefusalExplained

PROPERTY
  IdentityLasts
