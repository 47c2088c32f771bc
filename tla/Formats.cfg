SPECIFICATION Spec
CONSTANTS
  Store <- MCStore
  Profiles <- MCProfiles
  InternalIds = {0, 65534}
  Accepts <- MCAccepts
  Uris <- MCUris
  Created <- MCCreated
  Letters <- MCLetters
  BlockSize = 64
INVARIANTS
  MessageArrives
  RequestReachesIt
  DataArrives
  AnswersAsAsked
