\* The program from its first frame, with the player's screens and one fault.
\* It may end, and then nothing moves.
CONSTANTS
  tile = tile
  select = select
  route = route
  city = city
  stack = stack
  turned = turned
  walk = walk
  face = face
  wolf = wolf
  Keys <- AllKeys
  Faults <- OneFault
  TerrainKeys <- Tiles
  SelectKeys <- Selects
  RouteKeys <- Routes
  InitialKeys <- Cities
  AnimationKeys <- Stacks
  MaskKeys <- Stacks
  InfoKeys <- Faces
  IdleKeys <- Idles
  WalkKeys <- Walks
  BattleKeys <- Wolves
  FaceKeys <- Faces
  MaxBegun = 3
SPECIFICATION FairSpec
INVARIANTS
  ScreensAreLoaded
  ImagesAreReclaimed
  OverlaysAreSound
PROPERTY LoadingEnds
CHECK_DEADLOCK FALSE
