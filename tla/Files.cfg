SPECIFICATION Spec
CONSTANTS
  Fds = {1, 2, 3, 4}
INVARIANTS
  NothingLeaks
  FailureKeeps
  Redirected
