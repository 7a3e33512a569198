SPECIFICATION CallsSpec
CONSTANTS
  Threads = {t1, t2}
  MaxMsgs = 3
  Alphas = {"a", "b"}
  Chars = {"a", "b", "0", "1", "2", "3", "4", "5", "6", "7", "8", "9",
           "-", "+", ".", ":", "@", "/", "?", "#"}
  Parsed <- SomeTexts
  Values <- SomeValues
SYMMETRY SameThreads
INVARIANTS TypeOK FaultExplained ErrorsReadable FailureReported PrintFits ReadsBack
