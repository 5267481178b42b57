SPECIFICATION StrClientsSpec
CONSTANTS
  Texts <- MCTexts
  Indices <- MCIndices
  Blanks <- MCBlanks
  Needles <- MCNeedles
  Messages <- MCMessages
  Key <- MCKey
  Eol <- MCEol
  Urls <- MCUrls
  HttpPrefix <- MCHttpPrefix
  HttpsPrefix <- MCHttpsPrefix
  HostBytes <- MCHostBytes
  PortBits = 16
PROPERTIES OnlyBlanksTrimmed
CHECK_DEADLOCK FALSE
