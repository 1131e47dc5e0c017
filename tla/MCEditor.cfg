SPECIFICATION Spec
CONSTANTS
  Platforms = {"unix", "windows"}
  Bytes = {"esc", "[", "A", "backspace", "enter", "lead2", "cont", "eof"}
  Keys = {"a", "high", "low", "up", "left", "delete", "enter", "tab"}
  MaxRepeat = 2
  MaxInputBytes = 4
  MaxHistory = 1
  Columns = 3
  PromptWidths = {1}
VIEW View
INVARIANT WholeCharacters  HiddenInput ModeRestored
PROPERTY ImplementsLineEditor
CHECK_DEADLOCK FALSE
