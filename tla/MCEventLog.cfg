\* Three sessions, one of which reuses a key and one of another project, and one storage fault.
SPECIFICATION LogFairSpec
CONSTANTS
  NoCause = "none"
  Malformed = {"untimed"}
  Session = {"s1", "s2", "s3"}
  Script <- MCScript
  MaxFaults = 1
INVARIANTS HistoryIsTrue RetryIsAnswered AcknowledgedIsRecorded
PROPERTIES EventuallyRecorded
CHECK_DEADLOCK FALSE
