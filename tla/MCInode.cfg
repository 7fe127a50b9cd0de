SPECIFICATION Spec
CONSTANTS
    ninodes = 3
    NINODE = 3
    p1 = p1
    p2 = p2
    Proc = {p1, p2}
    NoProc = NoProc
    Name = {"a", "b"}
    Calls <- MCCalls
INVARIANTS RefsExact LinksExact
