SPECIFICATION Spec
CONSTANTS
  Devices = {phone, laptop}
  Novels = {novel, story}
  phone = phone
  laptop = laptop
  novel = novel
  story = story
  Nothing = Nothing
  MaxSaves = 1
  MaxOthers = 3
SYMMETRY Symmetry
PROPERTIES HiddenDataIsKept
