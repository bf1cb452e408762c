SPECIFICATION FairSpec
CONSTANTS
  People = {p1, p2}
  Companies = {c1}
  Tickets = {t1}
  Workers = {w1, w2}
  Limit = 2
  Seeded = {1}
  MaxLost = 1



PROPERTY OutageServed
CHECK_DEADLOCK FALSE
