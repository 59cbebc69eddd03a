SPECIFICATION Spec
CONSTANTS
  ClientIds <- MCClients
  ListenerIds <- MCListener
  Signals = {"pose"}
  MaxTopic = 3
INVARIANTS
  NotToOurselves
