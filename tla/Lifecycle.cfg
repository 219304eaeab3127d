SPECIFICATION ProcessSpec
CONSTANTS
  p1 = p1
  p2 = p2
  i1 = i1
  i2 = i2
  NoServer = NoServer
  System = System
  Process = {p1, p2}
  Server = {i1, i2}
  Crashes = TRUE
  Finds = 2
  Polls = 2
  n1 = n1
  Network = {n1}
  NoNetwork = NoNetwork
  NoGame = NoGame
  MaxGames = 2
  Reports <- MCReports
  Mappings <- MCMappings
  Games <- MCGames
  Actions <- MCActions
  Keys <- MCKeys
  MouseButtons <- MCMouseButtons
  MouseAxes <- MCMouseAxes
  Usual <- MCUsual
  KeptFiles <- MCKeptFiles
  Plugged <- MCPlugged
  NewKeys = {"MOUSE2"}
  NewInputs = {"LT"}
  MaxEdits = 1
  MaxLaunches = 2
  Launches <- MCLaunches
  Others <- MCOthers
  Edited = {"map", "preferred_exe", "deathmatch", "g_gametype"}
  Texts = {"7"}
  Addresses = {"127.0.0.1", "10.0.0.2"}
  NetworkIds = {"", "n1"}
  Folders = {"c"}
  MapFiles <- MCMapFiles
  Present = {"Glquake.exe"}
  Registries <- MCRegistries
  MaxStarts = 2
  MaxChanges = 2
  MaxOpens = 1
INVARIANTS ServersAnswer ToldAsPreferred EnvironmentFits OwnIdentity KeysFollow PlayedAsChosen NothingStale
PROPERTIES ServersComeAndGo LaunchComesBack
CHECK_DEADLOCK FALSE
