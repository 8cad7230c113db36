SPECIFICATION Spec
INVARIANTS
  SettledSession
  LogoutIsFinal
  RoleOnce
  OneSave
  LoadingEnds
  DataMatchesFiles
  PreviewPageExists
  AuthIsOffered
  SubmitSends
  DismissedStaysGone
  LinkVerdicts
PROPERTY SecretsSurvive
CHECK_DEADLOCK FALSE
CONSTANTS
  \* Applications: two or three, pages of one or two; a client that asks for all in
  \* one request asks for more than the server's largest page.
  MaxId = 3
  InitialItems = 2
  PageSizes = {1, 2}
  FirstSize = 1
  PagingAbove = 1
  MaxPageSize = 2
  DefaultPageSize = 2
  AllSize = 5
  Term = {1}
  MaxInFlight = 2
  MaxStarts = 2
  MaxFaults = 1
  RoleNames = {"auditor", "editor"}
  Role <- TwoRoles
  Visited = {"/", "/login", "/dashboard", "/roles", "/user-requests"}
  MaxLogins = 2
  Files = {"json", "xlsx", "txt"}
  MaxRows = 1
  MaxCalls = 2
  MaxRemovals = 1
  Types = {"MicrosoftSqlServer", "MongoDb", "AmazonS3", "GoogleCloudStorage",
           "RestApi", "CsvFile"}
  Typed = {"host", "password", "awsAccessKeyId"}
  MaxRequests = 2
  MaxFunctions = 2
  Jobs = {"j1", "j2"}
  Email <- SameAddress
  Passwords = {"p", "q"}
  MaxPages = 2
  MaxSubmits = 2
