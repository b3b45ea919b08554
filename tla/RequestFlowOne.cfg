SPECIFICATION Spec
CONSTANTS
    s1 = s1
    Streams <- MCOneStream
    STREAM_WINDOW = 4
    CONN_WINDOW = 8
    MAX_BODY_CHUNK = 2
    Bodies = {0, 3, 9}
INVARIANTS TypeOK NeverOverrun ConnBounded
PROPERTY StreamsImplementLoop
