---------------------------- MODULE EnvProvider ----------------------------
(***************************************************************************)
(* The environment-variable provider, providers/env/env.go.  The process  *)
(* environment is one variable shared by every env provider of the        *)
(* process; Go's os package serialises access to it, so each method is    *)
(* one atomic step.  A provider is its Config: Prefix and AllowWrite.     *)
(* AllowWrite is a variable no step changes, so that a composing module   *)
(* can let the program choose it.                                          *)
(***************************************************************************)
EXTENDS Naturals, SecretRef

CONSTANTS
    Prefix,       \* Config.Prefix (a parsed string)
    EnvNames,     \* the variable names that may be set (parsed strings)
    Values,
    Unset,        \* no such variable in the environment
    Ok, ErrReadOnly, ErrSecretNotFound

VARIABLES
    environ,      \* os.Environ(): EnvNames -> value, or Unset
    AllowWrite    \* Config.AllowWrite

\* The variable a path reads: Prefix + path (env.go 48, 67, 76, 82).
Name(path) == Prefix \o path

Init ==
    /\ environ \in [EnvNames -> Values \cup {EmptyValue, Unset}]
    /\ AllowWrite \in BOOLEAN

\* Get (env.go 46-60): ErrSecretNotFound, or a Secret holding the value.
GetResult(path) ==
    IF environ[Name(path)] = Unset THEN ErrSecretNotFound
    ELSE [value |-> environ[Name(path)], bytes |-> NoBytes, fields |-> NilMap]

\* What Set and Delete return: ErrReadOnly unless writes are allowed.
MutationResult == IF AllowWrite THEN Ok ELSE ErrReadOnly

\* Set (env.go 62-69): os.Setenv(name, secret.String()); Fields are lost.
Set(path, s) ==
    IF AllowWrite
    THEN environ' = [environ EXCEPT ![Name(path)] = SecretString(s)]
    ELSE UNCHANGED environ

\* Delete (env.go 71-78): os.Unsetenv(name).
Delete(path) ==
    IF AllowWrite
    THEN environ' = [environ EXCEPT ![Name(path)] = Unset]
    ELSE UNCHANGED environ

\* Exists (env.go 80-85).
ExistsResult(path) == environ[Name(path)] # Unset

\* List (env.go 87-103): the set names under Prefix + prefix, Prefix trimmed.
ListResult(prefix) ==
    { SubSeq(n, Len(Prefix) + 1, Len(n)) :
        n \in {m \in EnvNames : environ[m] # Unset /\ IsPrefix(Prefix \o prefix, m)} }
=============================================================================
