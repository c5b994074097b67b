SPECIFICATION Spec
CONSTANTS
  Workers = {w1, w2}
  Cases <- MCCases
  Addresses <- MCAddresses
  Mailboxes <- MCMailboxes
  AddressOf <- MCAddressOf
  MailboxOf <- MCMailboxOf
  LowerCase <- MCLowerCase
  NoOne = NoOne
  HandStatuses = {"TERMINATED"}
  Failures = TRUE
SYMMETRY RequestsAreAlike
INVARIANTS ActivatedIsListed ListedByActivation AcceptedSignsIn
PROPERTIES NeverResurrected
