CONSTANTS
  r1 = r1
  read = read
  task = task
  s1 = s1
  s2 = s2
  Remote = {r1}
  Shipped = {read, task}
  Policy <- Policies
  Session = {s1, s2}
  Everywhere = Everywhere
  Version = {1, 2, 3}
  Destructive <- SecondDeletes
  Picks = {"preference"}
  MaxDays = 1
  MaxChanges = 3
SPECIFICATION ApprovalsSpec
SYMMETRY Symmetry
INVARIANTS PageAgrees PromiseKept ConsentStands
