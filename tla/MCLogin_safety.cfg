SPECIFICATION FairSpec
CONSTANTS
    w1 = w1
    w2 = w2
    alice = alice
    bob = bob
    None = None
    Window = {w1, w2}
    Peer = {w2}
    Email = {alice, bob}
    AdminEmails <- Lists
    Attempt = {1, 2, 3, 4, 5, 6}
    SessionDuration = 1
    StateAge = 1
    MaxVisits = 4
    MaxTicks = 1
    MaxRestarts = 1
INVARIANTS
    TypeOK
    StateCheckExact
    VerifierFits
PROPERTIES
    NoRedirectLoop
    RedirectsEnd
CHECK_DEADLOCK FALSE
