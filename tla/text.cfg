SPECIFICATION Spec
CONSTANTS
  None = None
  MaxText = 6
  MaxValue = 2
  Texts <- MCTexts
  Orders <- MCOrders
  Signatures <- MCSignatures
  Postponements = {TRUE, FALSE}
INVARIANTS TypeOK ValuesArrive QuotesWhole CalledInPlace
