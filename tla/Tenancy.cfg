SPECIFICATION FairSpec
CONSTANTS
  People = {p1, p2}
  Companies = {c1}
  Tickets = {t1}
  Workers = {w1, w2}
  Limit = 2
  Seeded = {1}
  MaxLost = 1
INVARIANT MembersBounded
INVARIANT NumbersApart
INVARIANT TicketOnce
PROPERTY Recovers
CHECK_DEADLOCK FALSE
