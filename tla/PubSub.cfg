SPECIFICATION Spec
CONSTANTS
  ClientIds <- MCClients
  ListenerIds <- MCListeners
  Signals = {"pose"}
  MaxTopic = 4
INVARIANTS
  TypeOK
  RecipientsExact
  GoneFromAllTopics
