SPECIFICATION FormSpec
CONSTANTS
  a = a
  NoName = NoName
  Names = {a}
  Hosts = {"h"}
  Logins = {"u"}
  Ports = {22}
  Passwords = {"it's"}
  Commands = {"ls"}
  Devices = {"ttyS0", "ttyACM0"}
  ListedDevices = {"ttyS0"}
  DefaultDevice = "ttyS0"
  Programs = {"bash"}
  DefaultProgram = "bash"
  QuotedTexts = {"it's"}
  AutoSaves = {TRUE, FALSE}
INVARIANTS
  SessionsFit
  FormIsSaved
PROPERTIES
  KeepsTheRest
