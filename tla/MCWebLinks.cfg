\* One part per behaviour, with faults of the link or of the decoder.
CONSTANTS
  Parts = {"websocket", "stream", "player", "panel", "feeds", "warning", "terminal"}
  SocketIds = {1, 2, 3}  MaxStray = 1  WsClicks = 3  WsFaults = 2
  Window = 2  High = 2  Low = 1  Owed = 1  StreamFaults = 2
  RtcFaults = 3
  PanelClicks = 2  PanelFaults = 1
  Feeds = {"capture", "led", "h264"}  Updates = 2  FeedOutages = 2
  MaxChecks = 2  WarningEvents = 4
  Ports = {"", "/dev/ttyS1", "ttyS1"}  Rates = {0, 115200, 12345}
SPECIFICATION Spec
INVARIANT LinksTypeOK
INVARIANT ShownIsTrue
PROPERTY NothingHangs
PROPERTY PicturesGoOn
CHECK_DEADLOCK FALSE
