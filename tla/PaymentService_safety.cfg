SPECIFICATION Spec
CONSTANTS
  Handler = {h1, h2, h3}
  Key = {k1, k2}
  Capacity = 2
  MaxRequests = 4
  None = None
  o1 = o1
  o2 = o2
  good = good
  bad = bad
  Order <- MCOrder
  Token <- MCToken
  DeclinedToken <- MCDeclined
  Body <- MCBody
SYMMETRY KeySymmetry
PROPERTY ImplementsIdempotentPayments
INVARIANTS
  TypeOK
  AtMostOneAuthorization
  AbandonMeansNothingCharged
  AnswersAgree
  AnswersAreTrue
