SPECIFICATION OptionsSpec
CONSTANTS
  Switches = {"http", "osc", "poly"}
  Defaults = {"http"}
  OscPorts = {p1, p2}
  DefaultPort = p1
  HttpPorts = {h1, h2}
  Levels = {highest, three}
  Highest = highest
  Three = three
  PrefLevel = highest
  Values = {v1, v2}
  Unset = Unset
INVARIANT OptionsInv
INVARIANT InterfacesFollowSettings
INVARIANT QRCodeHasInterface
PROPERTY AppliedIsShown
