\* One part per behaviour; a user who clicks two to three times, and one lost answer.
CONSTANTS
  Parts = {"keyboard", "mouse", "pad", "region", "menu", "transfer",
           "overlay", "chat", "preference"}
  Keyboards <- MCKeyboards  MaxKeys = 1
  Width = 2  LastPosition = 32767  PadWidth = 3  Tap = 1  Drag = 2
  Small = 2  MaxDelta = 2
  Regions = {"a1", "a2", "b"}  RegionKey <- MCRegionKey  Resolutions = {"o1"}  RegionCalls = 2  RegionClicks = 2
  Dialogs <- MCDialogs  MenuClicks = 4
  TransferClicks = 5  TransferFaults = 1  MaxPolls = 1
  Frames <- MCFrames  Points <- MCPoints  Snap = 2  Minimum = 1  Gestures = 7
  Sessions = {1, 2}  Stored = {10}  Ids = {"m"}  ChatClicks = 4  ChatFrames = 2
  Pages = {1, 2}
  Preferred = {"style", "mouseMode", "interval", "direction", "scale", "video", "icons",
               "menuMode", "leds", "power", "system", "keyboard", "language", "update",
               "password", "resolution", "quality", "fps", "gop"}
  Speeds = {0, 50, 100}  Items = {"image", "wol"}  LastDay = 4  PreferenceEvents = 5
SPECIFICATION Spec
INVARIANT ControlsTypeOK
INVARIANT HeldIsKnown
INVARIANT KeptIsShown
PROPERTY ToldIsTrue
CHECK_DEADLOCK FALSE
