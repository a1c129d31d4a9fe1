SPECIFICATION Spec
CONSTANTS
  None = None
  Models <- MCModels
  ProviderOf <- MCProviderOf
  LocalProviders = {"local"}
  BuiltinPrice <- MCPrice
  Entities = {"email", "card"}
  DefaultTokens = 2
  Calls <- MCCalls
  MaxFaults = 2
  PageRate = 1
  MaxPages = 2
INVARIANTS
  SpendBooked HoldsResolved CoveredBeforeRun RetryIsFree
  PaidIsAudited DataStaysApproved BothSidesScreened
CHECK_DEADLOCK FALSE
