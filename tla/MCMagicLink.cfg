CONSTANTS
    Requests = {r1, r2}
    Projects = {p1}
    NoProject = NoProject
    Schema = {"used_at", "null_redirect_url"}
    Expiry = 1
    MaxLinks = 2
    MaxTime = 2
SPECIFICATION Spec
SYMMETRY Symmetry
INVARIANT TypeOK
PROPERTY SingleUse
PROPERTY AcceptOnlyTheHolder
