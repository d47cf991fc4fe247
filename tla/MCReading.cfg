\* Responses of up to two chunks, every reader, two chats that draft.
CONSTANTS
  RawCapacity = 1
  OutCapacity = 1
  MaxResponse = 2
  Chats = {a, b}
  Chat = a
  Spacing = 1
  MaxPause = 1
  Delays = {0, 5}
  MaxTime = 1
  EditInterval = 1
  Kinds = {"telegram", "whole", "sse", "picks", "socket"}
SPECIFICATION FairReading
INVARIANTS NoPartialReply ToldTheTruth NothingLost DraftsPaced
PROPERTY PipelineEnds
