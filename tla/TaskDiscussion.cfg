SPECIFICATION Spec
CONSTANTS
  Comment = {k1, k2}
  Attachment = {a1, a2}
  Body = {"a", "b", "c"}
  u1 = u1
  u2 = u2
  User = {u1, u2}
  Document = {d1}
  Mentions <- MCMentions
  Request = {r1, r2}
  MaxCalls = 4
SYMMETRY Symmetry
INVARIANTS
  CommentsKept
  AttachmentsFollow
CHECK_DEADLOCK FALSE
