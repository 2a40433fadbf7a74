SPECIFICATION Spec
CONSTANTS
  codeWorkspace = ws1
  lineUser = lineUser
  otherLineUser = otherLineUser
  telegramChat = telegramChat
  lineRequest = lineRequest
  telegramUpdate = telegramUpdate
  codeMessage = codeMessage
  photoMessage = photoMessage
  textUpdate = textUpdate
  None = None
  Workspaces = {ws1, ws2}
  Chats = {lineUser, otherLineUser, telegramChat}
  LineRequests = {lineRequest}
  TelegramRequests = {telegramUpdate}
  Events = {codeMessage, photoMessage, textUpdate}
  EventsOf <- MCEventsOf
  ChatOf <- MCChatOf
  KindOf <- MCKindOf
  CodeFor <- MCCodeFor
  ChannelOf <- MCChannelOf
  MaxDeliveries <- MCMaxDeliveries
  Faults = {"throw", "crash"}
INVARIANTS FiledWhereLinked HelpOnlyIfUnlinked NoPhotoDropped
PROPERTY FollowsIntake
\* Once every request has been handled nothing need happen any more.
CHECK_DEADLOCK FALSE
