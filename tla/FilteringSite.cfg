SPECIFICATION FilteringSpec
CONSTANTS
  core = core
  http = http
  crypto = crypto
  util = util
  common = common
  Blank = blank
  Windows = {w1, w2}
  SourceSets = {core, http, crypto, util}
  Pages = {core, http, crypto, util}
  Buttons <- SiteButtons
  Dependencies <- SiteDependencies
INVARIANT MessageHelps
