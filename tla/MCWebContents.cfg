\* One part per behaviour; pictures of up to 37 pixels, scaled to 20 by 16, two servers, texts of four characters.
CONSTANTS
  Parts = {"picture", "drawn", "shortcut", "dns", "paste"}
  Pictures <- MCPictures  NextPictures <- MCNextPictures  Windows <- MCWindows
  MaxSamples <- MCMaxSamples
  Selections <- MCSelections  LastPosition = 100  ViewChanges = 2
  Menus = {1, 2}  Admins = {1}  Recordable = {"KeyA", "KeyB", "KeyC"}  Uncoded = {}  Bits = {}
  RecordLimit = 2  ReportLimit = 2  ShortcutClicks = 3
  Texts = {"", "A", "bad"}  AddressOf <- MCAddressOf  Leases <- MCLeases  MaxServers = 2
  DnsEvents = 3
  PasteTexts <- MCPasteTexts  NotTypeable = {"x"}  MaxPaste = 3  PasteEvents = 6
SPECIFICATION Spec
INVARIANT ContentsTypeOK
INVARIANT ContentsAreTrue
CHECK_DEADLOCK FALSE
