\* Documents of up to six items, one more than there are tokens, nested deeper
\* than the levels allow; every cut, every lost byte, every text of four bytes; five
\* patterns for every document that was read.
CONSTANTS
  MaxLevels = 3
  NumTokens = 5
  Unprintable = {"control"}
  Chars <- MCChars
  Keys <- MCKeys
  Strings <- MCStrings
  Primitives <- MCPrimitives
  OtherTexts <- MCOtherTexts
  Patterns <- MCPatterns
  MaxItems = 6
SPECIFICATION TextSpec
INVARIANTS DocumentRead CutRefused TokensNest PatternFinds
