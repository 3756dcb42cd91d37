SPECIFICATION Spec
CONSTANTS
  Units = {"memory", "math", "sprites", "sound", "processor", "player", "cart"}
  MaxLfsr = 300
  PenBits = 2
  CountBits = 2
  Width = 4
  Height = 2
  RamSize = 16
  MaxSprites = 3
  Radix = 2
  Channel = {0}
  MaxCount = 1
  Writes <- MCWrites
  Us = {1, 6}
  Value = {0, 9, 16, 69, 127, 128, 153, 255}
  Flags <- MCFlags
  TheBit = 7
  SuzyBase = 10
  MikeyBase = 12
  BootromBase = 13
  SuzyReg <- MCSuzyReg
  Pictures <- MCPictures
  Poke <- MCPoke
  Button = {"A"}
  Key = {1}
  Pad = {9}
  Esc = 41
  DefaultBind <- MCDefaultBind
  Choice <- MCChoice
  Edit <- MCEdit
  Rebound <- MCRebound
  MaxClicks = 2
  Idle = Idle
  Empty = Empty
  Lost = Lost
  BlockBits = 3
  pagesize = 2
  cart_size = 11
  MaxReads = 3
CHECK_DEADLOCK FALSE
INVARIANT ConsoleTypeOK
INVARIANT SoundKeepsTime
INVARIANT SameProcessor
INVARIANT ArithmeticIsExact
PROPERTY MathIsExact
PROPERTY PensComeFromTheLine
PROPERTY PixelsLandOnScreen
PROPERTY WindowHidesMemory
PROPERTY BlitterStops
INVARIANT CartReadsBack
PROPERTY SettingsSurvive
PROPERTY InputFollowsThePlayer
