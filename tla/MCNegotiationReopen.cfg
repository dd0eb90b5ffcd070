SPECIFICATION Spec
CONSTANTS
    a = a
    b = b
    c = c
    sa = sa
    sb = sb
    Agents = {a, b, c}
    Sessions = {sa, sb}
    Requester <- MCRequester
    Plans <- MCPlans
    MaxOffers <- MCMaxOffers
PROPERTIES EndedSessionsStayEnded
