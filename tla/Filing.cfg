SPECIFICATION Spec
CONSTANTS
    here = here
    there = there
    told = told
    Dir = {here, there}
    Name = {"api", "web"}
    Folder <- MCFolder
    Looks <- MCLooks
    Children <- MCChildren
    Server = {plain, told}
    At <- MCAt
    Default <- MCDefault
    Hook = {hook}
    Chat = {chat}
    MaxCalls = 3
    MaxChanges = 1
    None = None
INVARIANT DriftCanBeResolved
PROPERTY SplitOnlyWhenOvertaken
\* Calls and changes are bounded.
CHECK_DEADLOCK FALSE
