\* Two hosts, each building a bundle in its own order.
SPECIFICATION Spec
CONSTANTS
  ByteOrder <- Words
  MaxDepth = 4
  Hosts = {h1, h2}
  Policies <- SomePolicies
  Json <- JsonValues
  Approvals <- SomeApprovals
  MaxItems = 1
  MaxApprovals = 1
INVARIANTS
  OrderNeverShows
  BytesTellApart
  ReadsBack
