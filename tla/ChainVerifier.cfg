\* Every double edit of a three-event stream, verified with and without a
\* stream argument.  The loop ends, so there are final states.
CONSTANTS
    None = None
    s1 = s1
    s2 = s2
    Inputs <- MCInputs
    StreamArgs <- MCStreamArgs
    Original <- MCOriginal
SPECIFICATION Spec
CHECK_DEADLOCK FALSE
INVARIANTS
    FirstIssueExact
    TamperEvident
    TerminalDigestAnchors
    EditsBlamedExactly
