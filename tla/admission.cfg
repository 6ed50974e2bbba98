SPECIFICATION RequestSpec
CONSTANTS
  Threads = {t1, t2}
  OwnerThreads = {o1, o2}
  SameUid = {t2}
  ProviderModes = {"simulated", "manual_prepaid_card"}
  Capabilities = {c1}
  MAX_AGENT_ADMISSION_ENTRIES = 1
  MAX_AGENT_REQUESTS_PER_SECOND = 1
  MAX_AGENT_CHANNEL_REQUESTS_PER_SECOND = 2
  MAX_AGENT_CHANNEL_IN_FLIGHT = 2
  MAX_UNAUTHENTICATED_REQUESTS_PER_SECOND = 1
INVARIANTS
  GuardsMatchRequests
  RateIsHeld
  KnownIsCurrent
PROPERTIES
  RequestsEnd
  OnlyPassedAreServed
