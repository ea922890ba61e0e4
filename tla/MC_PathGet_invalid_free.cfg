CONSTANTS
    Nodes <- MC_Nodes
    Names <- MC_Names
    Slash = "/"
    Kind <- MC_Kind
    Child <- MC_Child
    Target <- MC_Target
    Parent <- MC_Parent
    Start = "root"
    Inputs <- MC_Inputs
    MaxFds = 3
    MaxPaths = 2
    MaxExpansions = 4
    NoNode = "none"
SPECIFICATION Spec
INVARIANT NoInvalidFree
