SPECIFICATION FairSpec
CONSTANTS
  Alphabet <- MCAlphabet
  Whitespace = {" "}
  TokenChars <- MCTokenChars
  Lower <- MCLower
  Marker <- MCMarker
  Labels <- MCLabels
  Bearer <- MCBearer
  Prefixes <- MCPrefixes
  MinTail = 1
  Environments <- MCEnvironments
  Inputs <- MCInputs
  MaxText = 4
INVARIANTS
  TypeOK
  ValuesAreBroken
  NothingLeft
PROPERTIES
  EditsMatchOnePass
  Terminates
CHECK_DEADLOCK FALSE
