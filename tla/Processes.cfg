SPECIFICATION ProcessSpec
CONSTANTS
  s1 = s1
  s2 = s2
  Local = Local
  Empty = Empty
  None = None
  Sources <- TwoSenders
  Layouts <- TwoLayouts
  Texts <- TwoTexts
  Callsign = "callsign"
  StartupLayout = "full"
  Selector = FALSE
  Failures <- AllFailures
  Bitrates <- Rates
  FirstBitrate = 1
  OnBoot = TRUE
  SenderFailures <- SendingFailures
  MaxClock = 2
  Units <- MCUnits
  Others <- MCOthers
  SenderAddrs <- MCSenderAddrs
  Host <- MCHost
  Relays <- MCRelays
  SafeName <- MCSafeName
  Static <- MCStatic
  Configs <- MCConfigs
  MaxByte = 3
  MaxFlags = 1
  MaxPayload = 15
  Reports <- MCReports
  MaxLatency = 2
  MaxSamples = 4
  MaxReports = 2
  A = A
  B = B
  P = P
  F = F
INVARIANTS UnitsKeepLinks MaximaExact ReportsExact
PROPERTIES PictureKept ImplementsCompositorSources SenderRecordingUnbroken UnitsGetLinks
CHECK_DEADLOCK FALSE
