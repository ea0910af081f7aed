CONSTANTS
    Shapes <- MCShapes
    MaxRequests = 2
SPECIFICATION Spec
INVARIANT NoBodyWithGet
