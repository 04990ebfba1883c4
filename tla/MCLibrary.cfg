\* lib_healthy: the library, its three providers and the resolver, one caller.
CONSTANTS
    Callers = {c1}
    Paths <- MCPaths
    Schemes <- MCSchemes
    FieldNames <- MCFieldNames
    Inputs <- MCInputs
    Configs <- MCConfigs
    CallerBytes = {NoBytes}
    ClientConfigs = {"memory", "env", "file", ""}
    EnvPrefix <- MCEnvPrefix
    FileExtension <- MCFileExtension
    Values = {v1}
    Refs = {r1, r2, r3}
    NoBytes = NoBytes
    NilMap = NilMap
    NoField = NoField
    EmptyValue = EmptyValue
    Absent = Absent
    Unset = Unset
    NoFile = NoFile
    NotRegistered = NotRegistered
    NotRef = NotRef
    NoSecret = NoSecret
    Ok = Ok
    ErrClosed = ErrClosed
    ErrSecretNotFound = ErrSecretNotFound
    ErrReadOnly = ErrReadOnly
    ErrNoProvider = ErrNoProvider
    ErrUnknownScheme = ErrUnknownScheme
    ErrInvalidSecretRef = ErrInvalidSecretRef
    ErrProviderNotRegistered = ErrProviderNotRegistered
    Panic = Panic
SPECIFICATION Spec
INVARIANTS
    MemoryIsolation
VIEW LibView
SYMMETRY RefSymmetry
