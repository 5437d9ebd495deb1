CONSTANTS
  Programs = {p1, p2}
  Windowed = {p1}
  Driver = "libusb0"
  NoService = "none"
  Fits = 2
  Devices = {"d1", "d2"}
  Classes = {"usb"}
  Defaults = {"usb"}
  ClassOf <- MCClassOf
  Hwid <- MCHwid
  CommandLines <- MCCommandLines
  Firsts <- MCFirsts
  MaxCalls = 2
  FirstServices <- MCServices
SPECIFICATION Spec
INVARIANTS TypeOK SessionSafe AsAsked LeftRunning
PROPERTIES OthersKept CallsReturn
CHECK_DEADLOCK FALSE
