CONSTANTS
    Requests = {r1, r2}
    Projects = {p1}
    NoProject = NoProject
    Schema = {}
    Expiry = 1
    MaxLinks = 1
    MaxTime = 1
SPECIFICATION ReliableSpec
PROPERTY ValidLinkVerifies
