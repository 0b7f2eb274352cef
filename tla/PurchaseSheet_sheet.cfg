\* One sheet: edits, account changes and answers in any order, and a retry.
CONSTANTS
  s1 = s1
  w1 = w1
  w2 = w2
  None = None
  Sheets = {s1}
  Wallets = {w1, w2}
  MaxQuantity = 2
  MaxNonces = 2
  MaxUids = 2
  Terms = {1, 2}
SPECIFICATION FairSpec
INVARIANT SettledAsShown
INVARIANT PayerReceives
INVARIANT ButtonFollowsRun
INVARIANT SuccessShowsDelivery
PROPERTY DoneIsFinal
PROPERTY ImplementsConsent
PROPERTY PurchasesEnd
