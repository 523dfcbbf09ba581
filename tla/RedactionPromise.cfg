SPECIFICATION Spec
CONSTANTS
  Alphabet <- MCAlphabet
  Whitespace = {" "}
  TokenChars <- MCTokenChars
  Lower <- MCLower
  Marker <- MCMarker
  Labels <- MCLabels
  Bearer <- MCBearer
  Prefixes <- MCPrefixes
  MinTail = 1
  Environments <- MCEnvironments
  Inputs <- MCInputs
  MaxText = 4
INVARIANT
  NoValueIsLeft
CHECK_DEADLOCK FALSE
