CONSTANTS
  text = text
  named = named
  shot = shot
  x = x
  y = y
  txt = txt
  png = png
  n = n
  Task = {t1, t2}
  Cli = {c1}
  Item = {text, named, shot}
  Content = {x, y}
  Ext = {txt, png}
  Name = {n}
  DataOf <- Datas
  ExtOf <- Exts
  NameOf <- Names
  NoName = NoName
  None = None
  User = User
  Backends = {"file", "native"}
  MaxChanges = 3
SYMMETRY Interchangeable
SPECIFICATION Spec
CHECK_DEADLOCK FALSE
INVARIANTS TypeOK ObjectsAreWhole LoneSetHolds CrashKeepsOneClip
