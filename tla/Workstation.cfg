\* Two shells, three commands, one of which may be killed.
CONSTANTS
  Shells = {"left", "right"}
  AccountIds = {"binance-sandbox", "bybit", "kraken"}
  Supported = {"binance-sandbox", "bybit"}
  TemplateId = "binance-sandbox"
  Names = {"momentum"}
  Versions = {1, 2}
  ApiVersion = 2
  MaxCommands = 3
  MaxAdded = 1
  MaxKilled = 1
SPECIFICATION Spec
INVARIANTS
  AccountsKept
  SetupValidates
  FetchedIsUsable
CHECK_DEADLOCK FALSE
