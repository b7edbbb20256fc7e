SPECIFICATION Spec
CONSTANTS
    None = None
    Empty = Empty
    Unset = Unset
    NoFile = NoFile
    NoSection = NoSection
    Options = {"helpflag", "althelp", "arch", "verbose"}
    Uses = {"arch"}
    Words = {"d", "arm", "i686", "1", "-h", "-?", "-a", "-va", "-av", "-aa", "-z", "-", "--", "--arch", "-verbose", "--unknown"}
    Elements <- All
    Argvs <- MCArgvs
    Settings <- MCSettings
    Values = {"a", "b", Empty}
    Configs <- MCConfigs
    Programs = {"shellit", "buildit"}
    Machine = "x86_64"
    Rootfs <- MCRootfs
INVARIANT TypeOK
INVARIANT InBounds
INVARIANT ParsesRight
INVARIANT LoadsRight
INVARIANT EndsRight
INVARIANT DirectoriesKnown
PROPERTY StartEnds
