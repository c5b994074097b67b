SPECIFICATION Spec
CONSTANTS
  Workers = {w1}
  Cases <- MCOneCase
  Addresses <- MCOneAddress
  Mailboxes <- MCMailboxes
  AddressOf <- MCOneAddressOf
  MailboxOf <- MCOneMailboxOf
  LowerCase <- MCLowerCase
  NoOne = NoOne
  HandStatuses = {"TERMINATED"}
  Failures = TRUE
INVARIANT RetriedSignsIn
