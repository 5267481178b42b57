CONSTANTS
  MaxLevels = 3
  NumTokens = 5
  Unprintable = {"control"}
  Chars <- MCChars
  Keys <- MCKeys
  Strings <- MCStrings
  Primitives <- MCPrimitives
  OtherTexts <- MCOtherTexts
  Patterns <- MCPatterns
  MaxItems = 6
SPECIFICATION TextSpec
INVARIANTS ExtrasAllowed
