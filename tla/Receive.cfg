CONSTANTS
  get = get
  word = word
  http = http
  NL = NL
  SP = SP
  Colon = Colon
  Words = {get, word, http}
  Methods = {get}
  Version = http
  MaxHeader = 4
  Pieces <- MCPieces
  Chunk = 4
  MaxRequest = 16
  Pipelined = 2
SPECIFICATION Spec
INVARIANTS TypeOK Verdict RoomToReceive
PROPERTIES Decided
