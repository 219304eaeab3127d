SPECIFICATION StudioSpec
CONSTANTS
  game = game
  editor = editor
  demo = demo
  folder = folder
  drive = drive
  root = root
  Path = {game, editor, demo}
  Known = {game}
  Near <- MCNear
  Search = {folder, drive}
  Files <- MCFiles
  Root = {root}
  RootOf <- MCRootOf
  NoPath = NoPath
  Batch = 2
  MaxRounds = 2
  Channel = {"stable", "development"}
  OwnChannel = "development"
  Version <- MCVersion
  OwnVersion <- MCOwnVersion
  MaxAttempts = 2
  maps = maps
  dm = dm
  art = art
  readme = readme
  skin = skin
  level = level
  Stored <- MCStored
  Shown = {skin, level}
  disc1 = disc1
  disc2 = disc2
  disc3 = disc3
  Description <- MCDescription
  Given = {{game}, {demo}, {disc1}, {disc3}, {disc1, disc2}}
  Beside = {disc1, disc3}
  Copied = 3
INVARIANTS FlushUnderWay OneUpdate WindowStays InstalledIsLater
PROPERTIES DetectedListed UpdateEnds ArchiveListed DialogFollows
CHECK_DEADLOCK FALSE
