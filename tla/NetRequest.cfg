\* Whether net_request, as documented, ever serves a request the capsule permits.
SPECIFICATION Spec
CONSTANTS
    Hosts = {"granted", "other"}
    Granted = {"granted"}
    Addresses = {"public1", "public2", "private"}
    Private = {"private"}
CHECK_DEADLOCK FALSE
INVARIANTS
    PermittedIsServed
