\* The admin API answers, refuses or stays silent at will; SIGTERM at any time.
SPECIFICATION FairSpec
CONSTANT Interval = 3
\* After SIGTERM the goroutine ends.
CHECK_DEADLOCK FALSE
INVARIANTS TypeOK FreshGauge LogAgrees
PROPERTIES Reported KeepsProbing StopsOnCancel
