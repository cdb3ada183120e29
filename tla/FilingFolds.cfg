SPECIFICATION Spec
CONSTANTS
    here = here
    there = there
    told = told
    Dir = {here, there}
    Name = {"api", "web"}
    Folder <- MCFolder
    Looks <- MCLooks
    Children <- MCChildren
    Server = {plain}
    At <- MCAt
    Default <- MCDefault
    Hook = {hook}
    Chat = {chat}
    MaxCalls = 3
    MaxChanges = 0
    None = None
PROPERTY FoldsOnlyOwn
CHECK_DEADLOCK FALSE
