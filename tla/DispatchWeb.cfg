CONSTANTS
  auto = auto
  h2c = h2c
  web = web
  p = p
  q = q
  m = m
  n = n
  t1 = t1
  t2 = t2
  host = host
  NoKey = NoKey
  NoConn = NoConn
  Tasks = {t1, t2}
  Slots <- MCSlots
  Keys = {web}
  Conns = {m, n}
  Multiplexed = {m, n}
  Requests <- WebRequests
  Hosts = {host}
  H3Conns = {}
  H3Keys = {}
  ForcedKeys = {}
  RouteOf <- MCRouteOf
  AutoOf <- MCAutoOf
  SansOf <- MCSansOf
  AddrOf <- MCAddrOf
  MaxIdlePerHost = 1
  MaxActivePerHost = 2
  MaxActiveStreams <- Unlimited
  IdleTimeout = 1
  MaxLifetime <- Unlimited
  Tunnels = TRUE
  MaxPolls = 1
  ConnectTimeout = FALSE
  NoConnectionReuse = FALSE
SPECIFICATION DispatchSpec
SYMMETRY TaskSymmetry
VIEW DispatchView
INVARIANTS
  ProcessedOnce
  OneShotSentOnce
  OneReplay
  EndedHoldsNothing
