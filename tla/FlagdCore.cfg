\* A resolution races with two updates; one flag with two contents.
SPECIFICATION Spec
CONSTANTS
    Keys = {"k1"}
    Contents = {"a", "b"}
    NoFlag = NoFlag
    Metas = {none, m}
    NoMeta = none
    Readers = {r1}
    Updaters = {u1, u2}
    Rejected = Rejected
    NoOne = NoOne
SYMMETRY ThreadSymmetry
INVARIANTS
    TypeOK
    MirrorFollows
    MetadataFollows
PROPERTIES
    AtomicSpec
