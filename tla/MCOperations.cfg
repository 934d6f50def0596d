CONSTANTS
  Hosts <- MCHosts
  BlockedHosts <- MCBlockedHosts
  IPs <- MCIPs
  BlockedIPs <- MCBlockedIPs
  MaxRequests = 5
  FetchLimit = 3
  Sizes <- MCSizes
  MaxAddresses = 2
  Nowhere = Nowhere
  Documents <- MCDocuments
  Unset = Unset
  Nil = Nil
  Within <- MCWithin
  MaxFileSize = 2
  MaxJoinFileSize = 2
  MaxOverlaySize = 1
  MinSpecs = 2
  MaxSpecs = 3
  MaxIssues = 2
SPECIFICATION FairSpec
INVARIANTS
  OpTypeOK
  EngineGetsWhatWasSent
  ResultKeepsFormat
  VerdictIsHonest
  OnlyAllowedPeers
  FetchIsBounded
  CoverageOfAnswer
  UsagesOfAnswer
  SchemaPagesOfAnswer
  StatusesAreDeclared
PROPERTY RequestEnds
