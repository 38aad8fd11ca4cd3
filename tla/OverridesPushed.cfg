SPECIFICATION ConfSpec
CONSTANTS
  Flag = {dns, ping}
  Text = {text}
  Unset = Unset
  Editor = {e1}
  Fleet = {s1}
  MaxCommit = 1
  MaxChange = 1
INVARIANTS
  OverridesPushed
