SPECIFICATION PartsSpec
CONSTANTS
    CTRL_CAP = 1
    DATA_CAP = 1
    MAX_STREAMS = 1
    FRAMES = 2
    MAX_WIRE = 1
    MAX_SENT = 1
    Clients = {c1, c2}
    MaxRenameHops = 1
    MAX_ATTEMPT = 0
    NAME_TRIES = 2
    Procs = {p1, p2}
    Files = {f0, f1, f2}
    Original = f0
    NoFile = NoFile
    LOGIN_TRIES = 2
    MAX_TOKENS = 3
    MAX_INSTALLS = 2
    Users = {u1}
    Names = {n1, n2, n3}
    Nobody = Nobody
    NoName = NoName
    Blocked = Blocked
    MAX_NAMES = 2
    MAX_HOLDS = 2
    MAX_CALLS = 1
    Verifiers = {v1, v2}
    MAX_CODES = 2
    MAX_CODE_ATTEMPTS = 2
    RECENT = 1
    Objects = {o1}
    maxLongStreams = 2
    BUDGET = 2
    SECOND = 2
    MAX_FLUSHES = 2
    MAX_TICKS = 4
    network = network
    Reported = {n1, n2}
    Reporters = {network}
    Weight <- MCWeight
    THRESHOLD = 1
    Handlers = {h1, h2}
    MAX_MODERATION = 2
INVARIANTS PartsTypeOK EndsInOrder AlwaysRunnable GetsLatest RestartRunsInstalled NamesSettled OneLogin UsageCounted ModerationSettles
PROPERTIES NoFalseAlarm SessionEnds PoliteDials OneFailsAllStop
CHECK_DEADLOCK FALSE
