CONSTANTS
  auto = auto
  h2c = h2c
  p = p
  q = q
  m = m
  n = n
  s1 = s1
  s2 = s2
  s3 = s3
  host = host
  NoKey = NoKey
  NoConn = NoConn
  Keys = {h2c}
  Conns = {m, n}
  Slots = {s1, s2, s3}
  Hosts = {host}
  Multiplexed = {m, n}
  H3Conns = {}
  H3Keys = {}
  ForcedKeys = {}
  RouteOf <- MCRouteOf
  AutoOf <- MCSelfOf
  SansOf <- MCSansOf
  AddrOf <- MCAddrOf
  MaxIdlePerHost = 1
  MaxActivePerHost = 3
  MaxActiveStreams = 2
  IdleTimeout = 1
  MaxLifetime <- Unlimited
  Tunnels = TRUE
SPECIFICATION Spec
SYMMETRY SlotSymmetry
VIEW View
INVARIANT NoLeakedSlot
