SPECIFICATION FairSpec
CONSTANTS
  Teammate = {ana, bob}
  Lead = lead
  Message = {m1, m2}
  NoMessage = NoMessage
  BufferSize = 1
  Task = {t1, t2}
  Initial = {t1}
  Request = {q1}
  NoRequest = NoRequest
INVARIANTS MailCounted AnswersAgree
PROPERTIES TeamConcludes
CHECK_DEADLOCK FALSE
