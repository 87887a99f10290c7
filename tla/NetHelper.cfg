SPECIFICATION EitherSpec
CONSTANTS
  Threads = {t1}
  NFds = 4
  NClis = 2
  BodyLen = 2
  MinLen = 6
  BufSize = 16
INVARIANTS SendsOwn NoLeak StatusExact ServerKeeps AstrayOnlyForgetting FewFramesLost
PROPERTIES ClientReconnects DisconnectHonoured ImplementsLink
