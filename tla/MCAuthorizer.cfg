\* Two requests of every kind: tool calls in two chats, with grants and
\* restarts, and messages and model stages, whose scans may have findings.
SPECIFICATION FairSpec
CONSTANTS
  p1 = p1  p2 = p2  write = write  chat1 = chat1  chat2 = chat2
  Request = {p1, p2}
  Ask <- AllAsks
  Tool = {write}
  Session = {chat1, chat2}
  NoTool = NoTool
  NoAsk = NoAsk
  NoCapacity = NoCapacity
  NoRequest = NoRequest
  Level <- ThreeLevels
INVARIANTS ReviewedByAPerson CommitmentIsReviewed
PROPERTY EveryRequestSettles
