\* Two temperatures; edits, partial, nested, overlong and unparsable texts.
CONSTANTS
  Temperatures = {0, 1}
  MaxTokens = 13
  Messages <- MCMessages
  Spellings = {"C", "Python"}
SPECIFICATION Spec
INVARIANTS DumpLoads
PROPERTIES RoundSetsRelaysOnly PushSeparatesRelays
