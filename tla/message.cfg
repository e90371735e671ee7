SPECIFICATION Spec
CONSTANTS
  HdrNames = {"content-length", "content-encoding", "x", "connection", "keep-alive", "cache-control"}
  HdrBuckets = 2
  HdrHash <- MCHash
  NameLen = 3
  NoKey = NoKey
  RespFields <- MCFields
  BodySizes = {0, 5, 12}
  SizeDigits <- MCDigits
  MaxSend = 5
  MaxPuts = 3
  MaxBody = 2
  MaxVal = 3
  MaxLines = 3
  Junk = Junk
  Blank = Blank
  Unset = Unset
  Chunks <- MCChunks
  MaxText <- MCMaxText
  MaxVals = 3
  MaxAddrs = 4
  NWords = 4
  ByteBits = 2
  MaxFormParams = 2
  MaxQueryParams = 1
  MaxCookieName = 3
  TmplVars <- MCTmplVars
  MaxVarName = 4
CHECK_DEADLOCK FALSE
INVARIANTS ParserTypeOK HeadersWhole BodyAsAnnounced BufferExact AnnouncedIsSent
  ClientCannotChoose ListedInOrder AddrMeans MatchesPrefix
  ParamsRoundTrip FormIsUtf8 CookieComesBack TemplateMeans EscapedIsInert
