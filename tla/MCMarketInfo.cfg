SPECIFICATION InfoSpec
CONSTANTS
  Markets = {"BTCUSDT", "ETHBTC", "ETHUSDT"}
  Hour = 2
  MaxTime = 5
  NoInfo = noinfo
INVARIANTS InfoTypeOK RunsOnFreshInfo
PROPERTIES TornIsForever
