SPECIFICATION Spec
CONSTANTS
    d1 = d1  d2 = d2  d3 = d3
    t1 = t1  t2 = t2
    None = None
    Deployments = {d1, d2, d3}
    Tickets = {t1, t2}
    TicketOf <- Contenders
    Foreground = {d2, d3}
    MaxSlots = 1
INVARIANTS
    TypeOK CapacitySafe
PROPERTIES
    CapacityHeld
CHECK_DEADLOCK FALSE
