CONSTANTS
  auto = auto
  h2c = h2c
  p = p
  q = q
  m = m
  n = n
  s1 = s1
  s2 = s2
  s3 = s3
  host = host
  NoKey = NoKey
  NoConn = NoConn
  Keys = {h2c}
  Conns = {p, m, n}
  Slots = {s1, s2}
  Hosts = {host}
  Multiplexed = {m, n}
  H3Conns = {n}
  H3Keys = {}
  ForcedKeys = {}
  RouteOf <- MCRouteOf
  AutoOf <- MCSelfOf
  SansOf <- MCSansOf
  AddrOf <- MCAddrOf
  MaxIdlePerHost = 2
  MaxActivePerHost = 3
  MaxActiveStreams = 1
  IdleTimeout = 1
  MaxLifetime = 2
  Tunnels = TRUE
SPECIFICATION Spec
SYMMETRY SlotSymmetry
VIEW View
INVARIANTS
  NoEarlyRelease
  StreamsExact
PROPERTY EvictionIsFinal
