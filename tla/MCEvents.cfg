SPECIFICATION PageSpec
CONSTANTS
  button = button
  icon = icon
  second = second
  Document = Document
  Window = Window
  None = None
  Elements = {button, icon, second}
  EventTypes = {"click", "shown"}
  Selector <- MCSelector
  JQueryFinds <- HandlersFind
  SelectorMeans <- IsSelected
  Tree <- MCTree
  Pages <- MCPages
  Bindings <- MCBindings
  Offs <- MCOffs
  Triggers <- MCTriggers
  Clickable = {icon}
  Links = {}
  Native = {"click"}
  Copies = {second}
  Targets <- MCTargets
  Classes = {"dropdown"}
  Attributes = {"toggle"}
  Trees <- MCTrees
  Searches <- MCSearches
  Contexts <- MCContexts
  MaxEvents = 2
  MaxChanges = 1
CHECK_DEADLOCK FALSE
INVARIANTS HandlesFitHandlers NobodyMissed HeardInOrder SelectionFits
