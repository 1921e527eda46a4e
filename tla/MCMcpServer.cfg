\* Three calls, two keys, a cache of one, a buffer of two records, two seconds.
SPECIFICATION McpSpec
CONSTANTS
  Calls = {a1, a2, a3}
  Keys = {k1, k2}
  Customers = {c1, c2}
  OrderIds = {1, 2, 3}
  MaxCache = 1
  None = None
  Sessions = {s1, s2}
  ApiKey = ApiKey
  Scenarios <- MCScenarios
  Limits = {0, 9}
  MaxRecent = 2
  Lengths = {0, 9}
  Capacity = 2
  Families = {f1, f2}
  Labels = {l1, l2}
  Blank = Blank
  Queries <- MCQueries
  f1 = f1  f2 = f2  l1 = l1  l2 = l2
  Ttl = 2
  MaxSnapshots = 1
  Stocks = {0, 1, 9}
  Products = {p1, p2}
  Histories <- MCHistories
  Now <- MCNow
  NotFound = NotFound
  ServiceUnavailable = ServiceUnavailable
  Day = 2
  Windows = {1, 2, 4}
  Mainstream = {main}
  Disposable = {throwaway}
  NoDomain = NoDomain
  viewer = viewer  admin = admin  main = main  throwaway = throwaway  p1 = p1  p2 = p2
SYMMETRY Symmetry
CONSTRAINT OneCustomer
INVARIANTS McpInductive OwnUser TailAnswers MetricsFresh AnsweredIsVisible FeaturesAgree CacheBounded RefsWereCommitted OneOrderPerKey SameKeySameRef
CHECK_DEADLOCK FALSE
