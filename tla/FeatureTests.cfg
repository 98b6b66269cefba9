SPECIFICATION Spec
CONSTANTS
    a = a
    t1 = t1
    t2 = t2
    Letters = {a}
    Colon = Colon
    MaxLength = 2
    Null = Null
    Urls = {"http://host"}
    MockMvc = "http://mockmvc"
    Empty = ""
    Accounts <- TwoAccounts
    Secret <- OneSecret
    Tokens <- OneToken
    Tenants = {t1, t2}
    None = None
    Anonymous = Anonymous
    Refused = Refused
    NoAnswer = NoAnswer
INVARIANTS
    TypeOK
    ConfigAsGiven
    AskedAsSent
    PeerAgrees
