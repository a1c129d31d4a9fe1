SPECIFICATION Spec
CONSTANTS
  None = None
  Models <- MCModels
  ProviderOf <- MCProviderOf
  LocalProviders = {"local"}
  BuiltinPrice <- MCPrice
  Entities = {"email", "card"}
  DefaultTokens = 2
  Calls <- MCCalls
  MaxFaults = 1
  PageRate = 1
  MaxPages = 2
INVARIANT ClassifierSeesNoRawPii
CHECK_DEADLOCK FALSE
