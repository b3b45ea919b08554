SPECIFICATION UncutSafe
CONSTANTS
    s1 = s1
    s2 = s2
    Streams <- MCTwoStreams
    STREAM_WINDOW = 4
    CONN_WINDOW = 8
    MAX_BODY_CHUNK = 2
    Bodies = {3}
SYMMETRY Symmetry
INVARIANT ConnFullAtRest
PROPERTY ConnImplementsLoop
