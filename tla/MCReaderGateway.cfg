SPECIFICATION FairSpec
CONSTANTS
    Proc = {p1, p2}
    Key = {user, other}
    UserKey = {user}
    NoReader = NoReader
    Ttl = 2
    MaxFaults = 2
INVARIANTS
    TypeOK
    InboxAndAuditAgree
    LastReaderAcknowledges
PROPERTIES
    AnsweredIsDelivered
