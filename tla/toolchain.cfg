CONSTANTS
  Header <- MCHeader
  Globals <- MCGlobals
  Fuel = 6
  Ints <- MCInts
  Words <- MCWords
  Primitives <- MCPrims
  Types <- MCTypes
  Height <- MCHeight
  Classes <- MCClasses
  CppOf <- Transpiled
  HeadersOf <- PrimitiveHeaders
  Keywords <- MCKeywords
  Syntax <- MCSyntax
  Rank <- MCRank
  Programs <- MCTexts
  States <- MCStates
  Hoods <- MCHoods
SPECIFICATION ToolSpec
CHECK_DEADLOCK FALSE
INVARIANTS OnlyValidGenerated TypesCompile FollowsGrammar DslKeepsTree ScopedCompiles CompiledAgrees
