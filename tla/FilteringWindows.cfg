SPECIFICATION FilteringSpec
CONSTANTS
  core = core
  http = http
  crypto = crypto
  util = util
  common = common
  Blank = blank
  Windows = {w1, w2}
  SourceSets = {core, common}
  Pages <- SharedPages
  Buttons <- SharedButtons
  Dependencies <- SharedDependencies
INVARIANTS FilteringTypeOK MessageInPlace ReloadShowsSame
PROPERTY SharesChoice
