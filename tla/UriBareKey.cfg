\* A pair without '=' is filled with a value that stands nowhere in the uri.
SPECIFICATION Spec
CONSTANTS
  NoJson = NoJson
  NotJson = NoJson
  Chars <- AllChars
  Digits = {"0", "1"}
  Prefix <- ControlPrefix
  TokenKey <- T
  Token <- JwtToken
  Npos = 63
  MaxDigits = 1
  Paths <- SomePaths
  Payloads <- OneBody
CHECK_DEADLOCK FALSE
INVARIANTS ValuesComeFromUri
