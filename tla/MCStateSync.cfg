SPECIFICATION Spec
CONSTANTS
  Devices = {phone, laptop}
  Novels = {novel}
  phone = phone
  laptop = laptop
  novel = novel
  Nothing = Nothing
  MaxSaves = 3
  MaxOthers = 2
SYMMETRY Symmetry
INVARIANTS TypeOK NoFalseConflict
PROPERTIES OwnSavesInOrder LocalKeepsNewest
