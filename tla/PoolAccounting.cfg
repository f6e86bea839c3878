CONSTANTS
  auto = auto
  h2c = h2c
  p = p
  q = q
  m = m
  n = n
  s1 = s1
  s2 = s2
  s3 = s3
  host = host
  NoKey = NoKey
  NoConn = NoConn
  Keys <- MCKeys
  Conns = {p, m}
  Slots = {s1, s2, s3}
  Hosts = {host}
  Multiplexed = {m}
  H3Conns = {}
  H3Keys = {}
  ForcedKeys = {}
  RouteOf <- MCRouteOf
  AutoOf <- MCAutoOf
  SansOf <- MCSansOf
  AddrOf <- MCAddrOf
  MaxIdlePerHost = 2
  MaxActivePerHost = 2
  MaxActiveStreams = 1
  IdleTimeout = 1
  MaxLifetime <- Unlimited
  Tunnels = FALSE
SPECIFICATION FairSpec
INVARIANTS
  TypeOK
  SlotsBalanced
  ActiveWithinCap
  OneOwner
  SanIndexCovers
  NoBusyIdle
PROPERTIES
  ExpiredReaped
  DrainEnds
