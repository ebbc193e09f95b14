SPECIFICATION MCSpec
CONSTANTS
  Reports = {"r1", "r2"}
  Dated = {"r1", "r2"}
  Calls = {1, 2}
  PaymentOf <- SamePayment
  Drift <- MCDrift
  MaxAge = 1
  Skew = 1
  Retention = 3
  CallLife = 1
  MaxRetries = 1
  MaxFaults = 1
  MaxClock = 4
  Nonces = {"n1", "n2"}
  Posts = {1, 2}
  LoginBefore = 1
  LoginTTL = 1
  SweepAge = 2
  LoginClock = 5
  CodeRequests = {"q1", "q2"}
  MaxSecrets = 2
  MaxAttempts = 1
  Orgs = {"o1", "o2"}
  Addresses = {"s1", "s2"}
  Groups = {"g1"}
  MaxCalls = 2
  MaxSignIns = 2
  UpkeepRequests = {1, 2}
  Tenant = {"m1", "m2"}
  MaxKills = 1
  Flows = {1, 2, 3}
  Vaults = {"v1", "v2"}
  DefaultVault = "v1"
  VaultOf = "v1"
  MaxPolls = 1
  Pages = {"p1", "p2"}
  MaxSent = 2
  MaxBreaks = 1
  Clients = {1, 2, 3}
  Wallets = {"A", "B"}
  MaxSends = 2
  ReadCalls = {1, 2}
  Paths = {"p"}
  CacheTTL = 2
  Timeout = 2
  MaxVersions = 1
  MaxClears = 1
  ReadClock = 5
  Payment = {1, 2, 3, 4}
  TsOf <- TsWithTie
  Sought = {1, 2, 3, 4}
  PageSize = 1
  MaxPages = 4
  HistoryChanges = 2
  Rules <- MCRules
  MaxRules = 2
  Quantities = {1, 2}
  Units = {0, 3}
  FullPercent = 100
  EuRates <- EuVat
  StateRates <- UsStates
  StateOf <- ZipCodes
  RegionRate = 20
  UsRate = 5
  GlobalRate = 8
  Places <- MCPlaces
  Subtotals = {0, 3, 8}
  TipPercents = {10, 20}
  TipAmounts = {0, 2}
  Coupons <- MCCoupons
  Rates <- MCRates
  Shares = {0, 33, 100}
  InitialShares = {50, 120}
  Balances = {0, 4, 30}
  Slippage = 10
  CheckoutChanges = 1
  Day = 2
  Week = 7
  Thursday = 3
  RangeDays = {0, 7, 30}
  WeeklyAbove = 45
  Assets = {"usd"}
  Routes = {"r"}
  Methods = {}
  Prices = {2}
  CardRate = 500
  CardFixed = 3
  NetworkFee = 1
  Months = {0, 188}
  Nows = {201, 203}
  Ages <- MCAges
  Most = 2
INVARIANTS OneSessionEach ProofsAreEarned ScopeIsOwn TenantsStayApart TakenOnce MarkedWasRefunded WalkIsExact ReportsAgree ChatsAreWhole ReadsAreRecent PricesAreRight
CHECK_DEADLOCK FALSE
