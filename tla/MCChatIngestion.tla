---------------------------- MODULE MCChatIngestion ----------------------------
(***************************************************************************)
(* Instances of ChatIngestion for TLC.  A LINE user's link code and photo  *)
(* arrive in one request, which may be sent twice; a Telegram chat writes  *)
(* something else; another LINE user may lose the workspace to the code.   *)
(***************************************************************************)
EXTENDS ChatIngestion, TLC

CONSTANTS lineUser, otherLineUser, telegramChat, lineRequest, telegramUpdate,
          codeMessage, photoMessage, textUpdate, codeWorkspace

MCEventsOf ==
  lineRequest :> {codeMessage, photoMessage} @@ telegramUpdate :> {textUpdate}
MCChatOf ==
  [e \in Events |-> IF e = textUpdate THEN telegramChat ELSE lineUser]
MCKindOf ==
  codeMessage :> "code" @@ photoMessage :> "image" @@ textUpdate :> "other"
MCCodeFor == [e \in Events |-> codeWorkspace]
MCChannelOf ==
  lineUser :> "LINE" @@ otherLineUser :> "LINE" @@ telegramChat :> "TELEGRAM"
MCMaxDeliveries == lineRequest :> 2 @@ telegramUpdate :> 1

=============================================================================
