\* The same two messages under the fairness of the drain loop.
SPECIFICATION FairSpec
CONSTANTS
  Request = {r1, r2}
  Ticket = {t1}
  Desktop = Desktop
  None = None
CONSTRAINT SessionsUnedited
PROPERTY RequestsAreTaken
