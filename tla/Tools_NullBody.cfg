SPECIFICATION FairToolSpec
CONSTANTS
  h1 = h1
  h2 = h2
  public = public
  other = other
  private = private
  Hosts = {h1, h2}
  Addresses = {public, other, private}
  Private = {private}
  MaxRecords = 2
  MaxRedirects = 1
  MaxBytes = 2
  MaxChunk = 2
  OutputLimit = 2
  MaxOutput = 3
  MaxLength = 20
  MaxTokens = 10
  MaxDepth = 5
  CalculatorInputs <- MCCalculatorInputs
  Calculated <- Calculate
  AddressTexts <- MCAddressTexts
  Cidrs <- MCCidrs
  HostTexts <- MCHostTexts
INVARIANT
  NothingUncaught
CHECK_DEADLOCK FALSE
