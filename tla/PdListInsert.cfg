CONSTANTS
  Elements = {e1, e2, e3}
  MaxListSize = 4
SPECIFICATION InsertSpec
INVARIANT TypeOK
PROPERTY InsertsLikeAList
