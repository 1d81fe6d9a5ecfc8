\* Every short path, with and without a body that names some values.
SPECIFICATION Spec
CONSTANTS
  NoJson = NoJson
  NotJson = NoJson
  Chars <- AllChars
  Digits = {"0", "1"}
  Prefix <- ControlPrefix
  TokenKey <- T
  Token <- JwtToken
  Npos = 63
  MaxDigits = 1
  Paths <- AnyPaths
  Payloads <- Bodies
CHECK_DEADLOCK FALSE
INVARIANTS TypeOK InBounds SplitsLosslessly ValuesAsWritten
