CONSTANTS
  AccessKeys = {a1, a2, a3, a4}
  None = None
  Objects = {o1, o2, o3, o4}
  MaxSize = 3
  HeadTimeout = 1
  MaxKeys = 7
SPECIFICATION ListSpec
INVARIANTS ListTypeOK TailIsLast DictionaryPointsIntoList
PROPERTIES ImplementsUserQueue
