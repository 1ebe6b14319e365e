SPECIFICATION RSpec
CONSTANTS
    Requests = {r1, r2, r3}
    NoRequest = none
    Seeded = 5
    MaxYear = 2
    MaxCreations = 5
    Seeds <- SeededTickets
    Agents = {bob}
    MaxServed = 3
    Consignments <- AnyShipment
    NoShipment = noshipment
    AdminStatuses = {"pre_transit", "delivered", "exception"}
    Moments = {0, 100, 2100, 3200}
    MaxReadings = 3
    Emails = {e1, e2}
    Usernames = {u1, u2}
    Life = 1
    MaxDay = 2
    MaxCalls = 4
CHECK_DEADLOCK FALSE
INVARIANT RefusedIsInvalid
