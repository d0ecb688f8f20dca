SPECIFICATION FairSpec
CONSTANTS
    Callers = {c1}
    WriterCap = 1
    Nobody = Nobody
    Reader = Reader
    Writer = Writer
    Closer = Closer
    Monitor = Monitor
PROPERTIES
    Released
    TasksEnd
    CreditWakes
\* A closed transport has nothing to do.
CHECK_DEADLOCK FALSE
