CONSTANTS
  Hosts = {h1}
  NoHost = NoHost
  Clients = {c1, c2}
  Main = Main
  MaxRequests = 2
  Limits <- OneOrTwoUsers
SPECIFICATION FairSpec
CHECK_DEADLOCK FALSE
INVARIANT StopReachesAll
INVARIANT ConnectorFollowsSecrets
PROPERTY DoorsStayOpen
PROPERTY CertificateArrives
