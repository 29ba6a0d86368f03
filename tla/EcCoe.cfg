SPECIFICATION EthernetSpec
CONSTANTS
  short = short
  long = long
  Nothing = Nothing
  Objects <- TwoObjects
  Size <- Sizes
  MaxSub = 1
  ListRoom = 2
  Values = {1, 2}
  Plans <- Calls
  Mailboxes <- Boxes
  MaxFrames = 2
  MaxCnt = 3
  MaxLost = 1
  MaxNotices = 1
INVARIANTS EthernetTypeOK ExecutedOnce UploadWhole DictionaryIsOwn VerifiedIsApplied ExchangeWhole
CHECK_DEADLOCK FALSE
