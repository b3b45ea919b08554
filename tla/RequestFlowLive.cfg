SPECIFICATION AwakeSpec
CONSTANTS
    s1 = s1
    Streams <- MCOneStream
    STREAM_WINDOW = 8
    CONN_WINDOW = 8
    MAX_BODY_CHUNK = 1
    Bodies = {0, 9}
PROPERTIES ConnImplementsLoop UploadCompletes CreditComesHome
CHECK_DEADLOCK FALSE
