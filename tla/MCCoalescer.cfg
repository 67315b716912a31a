\* Three calls, a provider limit of two texts or seven tokens, one slot, one retry.
\* The modes "off" and "shadow" add no behaviour: "off" is a bypass whose cache
\* writes all fail, "shadow" an "on" whose lookups all miss.
CONSTANTS
  Requests = 3
  Mode = {"on", "bypass"}
  Text <- MCText
  Anchor = 1
  KeyCap = 3
  RawCap = 2
  TokenLimit = 7
  Slots = 1
  MaxRetries = 1
  None = None
  Failed = Failed
SPECIFICATION FairSpec
INVARIANTS SingleFlight DispatcherAtWork BatchFits
PROPERTIES MembersFixed Implements Answered
