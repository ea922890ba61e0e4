CONSTANTS
    Nodes <- MC_Nodes
    Names <- MC_Names
    Slash = "/"
    Kind <- MC_Kind
    Child <- MC_Child
    Target <- MC_Target
    Parent <- MC_Parent
    Start = "root"
    Inputs <- MC_Inputs
    MaxFds = 3
    MaxPaths = 2
    MaxExpansions = 4
    NoNode = "none"
    Requests <- MC_Requests
    DirRights <- MC_DirRights
    MaxBase <- MC_MaxBase
    MaxInh <- MC_MaxInh
    Resolved <- MC_Resolved
    Escape = "escape"
    NewFile = "new"
    Calls <- MC_Calls
SPECIFICATION Spec
INVARIANT TypeOK
INVARIANT Confined
INVARIANT DescriptorsBalanced
INVARIANT BuffersReleased
INVARIANT OpenAuthorized
INVARIANT OpenConfined
INVARIANT NoHostFdLeak
PROPERTY Terminates
PROPERTY ResolverRefined
