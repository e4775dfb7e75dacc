SPECIFICATION Spec
CONSTANTS
    Inside <- Everything
    MaxIds = 3
    MaxEmits = 4
    MaxDepth = 3
INVARIANTS
    CallsWhomItOwes
    OncePerEmit
    NestingIsSafe
