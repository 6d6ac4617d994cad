\* A basket of two orders under one reference, and a caller that calls again.
CONSTANTS
  Orders = {o1, o2}
  MaxCalls = 2
  MaxRestarts = 1
SPECIFICATION Spec
INVARIANTS BasketHonest OneBasketPerRef NoneForgotten
PROPERTY KeepsBasketPromise
CHECK_DEADLOCK FALSE
