\* What ipc.rs says of a call that has timed out.
SPECIFICATION Spec
CONSTANTS
  Request = {r1}
  Ticket = {t1}
  Desktop = Desktop
  None = None
PROPERTY NotResubmitted
