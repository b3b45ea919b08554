SPECIFICATION FairSpec
CONSTANTS
    s1 = s1
    s2 = s2
    Streams <- MCOneStream
    STREAM_WINDOW = 8
    CONN_WINDOW = 8
    MAX_BODY_CHUNK = 2
    Bodies = {0, 3, 9}
INVARIANTS TypeOK NeverFaulty CleanEnd
PROPERTIES StreamsImplementLoop DownloadCompletes VisitorEnds
