\* Queue: five items; the last item leaves the queue by mu_queue_remove only.
\* Access manager: four tasks, a queue for two of them, resets, calls nested
\* three deep.  Strings: see MCStrClients.
CONSTANTS
  Items = {a, b, c, d, e}
  Null = Null
  First = First
  Loose = Loose
  TailDeletes = FALSE
  Clients = {a, b, c, d}
  NoTask = NoTask
  MaxPending = 2
  MaxNest = 3
  Resets = TRUE
  Texts <- MCTexts
  Indices <- MCIndices
  Blanks <- MCBlanks
  Needles <- MCNeedles
  Messages <- MCMessages
  Key <- MCKey
  Eol <- MCEol
  Urls <- MCUrls
  HttpPrefix <- MCHttpPrefix
  HttpsPrefix <- MCHttpsPrefix
  HostBytes <- MCHostBytes
  PortBits = 16
SPECIFICATION FairMulibSpec
INVARIANTS NoIdleWait SlicesInside SearchesAgree ConversionsAgree MessageRead UrlParsed
PROPERTIES ImplementsLine WaitersServed
