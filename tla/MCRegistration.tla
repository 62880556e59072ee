--------------------------- MODULE MCRegistration ---------------------------
EXTENDS Registration

Register(target, rate) == [kind |-> "register", target |-> target, rate |-> rate, status |-> "active"]

Change(target, rate, status) == [kind |-> "change", target |-> target, rate |-> rate, status |-> status]

\* A domain, a work with a rate of its own, and a change of both a rate and a status.
MCRequests == {Register("domain", "low"), Register("work", "high"),
               Change("domain", "high", "suspended")}

MCRates == {"inherited", "low", "high"}

MCAttempts == 1..2

=============================================================================
