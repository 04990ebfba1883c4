------------------------------ MODULE Library ------------------------------
(***************************************************************************)
(* The omnivault library: clients built by NewClient (client.go,           *)
(* src/unnamed/part_008) and a Resolver (resolver.go 11-173) over the      *)
(* three built-in providers, used by concurrent callers.                   *)
(*                                                                         *)
(* There is one provider instance of each kind, shared by the client that  *)
(* NewClient built for it and by the resolver schemes it is registered     *)
(* under.  Resolver methods hold r.mu only around the map access, so a     *)
(* resolve is a lookup step and a later provider Get step, and a file Set  *)
(* is WriteFile's truncate step and its write step; callers interleave     *)
(* between them.  Each caller also owns one *Secret it built or got back,  *)
(* and may write to its Fields map at any time.                            *)
(***************************************************************************)
EXTENDS Naturals, Sequences, SecretRef, GoHeap

CONSTANTS
    Callers,
    Paths,          \* secret paths (parsed strings)
    Schemes,        \* resolver schemes (parsed strings)
    Inputs,         \* what callers resolve: sequences of [text, ref] records
    ClientConfigs,  \* Config.Provider values NewClient is called with
    Configs,        \* the boolean Config options the program may choose
    CallerBytes,    \* the ValueBytes callers put in the secrets they build
    EnvPrefix,                                \* the env provider's Config.Prefix
    FileExtension,                            \* the file provider's Config.Extension
    Absent, Unset, NoFile, NotRegistered, NotRef, NoSecret,
    Ok, ErrClosed, ErrSecretNotFound, ErrReadOnly, ErrNoProvider,
    ErrUnknownScheme, ErrInvalidSecretRef, ErrProviderNotRegistered, Panic

VARIABLES
    memSecrets, memClosed,   \* the memory provider
    environ,                 \* the process environment (env provider)
    files,                   \* the file provider's directory
    registry,                \* r.providers: Schemes -> provider, or NotRegistered
    caller,                  \* per caller: the operation in progress
    owned,                   \* per caller: the *Secret it holds, or NoSecret
    ret,                     \* per caller: what its last call returned
    stored,                  \* ghost: Fields contents each memory Set stored
    config                   \* the providers' boolean Config options, fixed

vars == <<heap, allocated, memSecrets, memClosed, environ, files, registry,
          caller, owned, ret, stored, config>>

\* The boolean options of env.Config and file.Config the program chose.
EnvAllowWrite == config.envAllowWrite
FileJSON == config.fileJSON
FileReadOnly == config.fileReadOnly

\* The ProviderName constants (constants.go) of the providers modelled here.
MemP == "memory"
EnvP == "env"
FileP == "file"
Providers == {MemP, EnvP, FileP}

Mem == INSTANCE MemoryProvider WITH secrets <- memSecrets, closed <- memClosed
Env == INSTANCE EnvProvider
         WITH Prefix <- EnvPrefix, AllowWrite <- EnvAllowWrite,
              EnvNames <- {EnvPrefix \o p : p \in Paths}
Files == INSTANCE FileProvider
         WITH Extension <- FileExtension, JSONFormat <- FileJSON,
              ReadOnly <- FileReadOnly

\* newProvider (part_008 15-28) and NewClient (client.go 72-98): the
\* provider a Config.Provider value yields, or the error.  The file
\* provider is always given its file.Config here.
NewClient(name) ==
    CASE name \in Providers -> name
      [] name = ""          -> ErrNoProvider
      [] OTHER              -> ErrUnknownScheme

\* The clients that NewClient built.
Clients == {NewClient(n) : n \in ClientConfigs} \cap Providers

Idle == [op |-> "idle"]

Init ==
    /\ config \in Configs
    /\ Mem!Init
    /\ Env!Init
    /\ Files!Init
    /\ registry = [s \in Schemes |-> NotRegistered]
    /\ caller = [c \in Callers |-> Idle]
    /\ owned = [c \in Callers |-> NoSecret]
    /\ ret = [c \in Callers |-> Ok]
    /\ stored = [p \in Paths |->
                   IF memSecrets[p] = Absent THEN Absent ELSE EmptyFieldMap]

-----------------------------------------------------------------------------
(* Dispatch of a vault.Vault method to the provider behind it.            *)
GetResultOf(v, path) ==
    CASE v = MemP -> Mem!GetResult(path)
      [] v = EnvP -> Env!GetResult(path)
      [] v = FileP -> Files!GetResult(path)

\* The state change of v.Get(path): the maps a returned copy allocates.
GetStep(v, path) ==
    /\ CASE v = MemP -> Mem!Get(path)
         [] v = EnvP -> UNCHANGED <<heap, allocated>>
         [] v = FileP -> Files!Get(path)
    /\ UNCHANGED <<memSecrets, memClosed, environ, files>>

IsError(r) == r \notin Secrets

\* What a caller owns after a Get: the returned copy.
OwnAfter(c, r) == IF IsError(r) THEN owned[c] ELSE r

\* The contents of the Fields map a successful v.Get(path) returns.
ResultFields(v, path) ==
    CASE v = MemP -> FieldsOf(memSecrets[path])
      [] v = FileP /\ FileJSON /\ files[Files!FileName(path)].json
                   /\ files[Files!FileName(path)].fields # NilMap
                   -> files[Files!FileName(path)].fields
      [] OTHER -> EmptyFieldMap

\* The memory provider's stored Fields after it stores s at path.
StoredAfterSet(path, s) ==
    IF memClosed THEN stored ELSE [stored EXCEPT ![path] = FieldsOf(s)]

-----------------------------------------------------------------------------
(* The caller's own *Secret.  It builds one (a composite literal, with a  *)
(* new Fields map when it has entries) or writes into the Fields map of    *)
(* the one it holds, whoever allocated that map.                          *)
BuildSecret(c, v, b, contents) ==
    /\ caller[c].op = "idle"
    /\ IF contents = EmptyFieldMap
       THEN /\ owned' = [owned EXCEPT ![c] =
                          [value |-> v, bytes |-> b, fields |-> NilMap]]
            /\ UNCHANGED <<heap, allocated>>
       ELSE /\ Alloc(contents)
            /\ owned' = [owned EXCEPT ![c] =
                          [value |-> v, bytes |-> b, fields |-> NextRef]]
    /\ UNCHANGED <<memSecrets, memClosed, environ, files, registry, config,
                   caller, ret, stored>>

WriteOwnedFields(c, contents) ==
    /\ owned[c] # NoSecret
    /\ owned[c].fields # NilMap
    /\ heap' = [heap EXCEPT ![owned[c].fields] = contents]
    /\ UNCHANGED <<allocated, memSecrets, memClosed, environ, files, registry,
                   config, caller, owned, ret, stored>>

-----------------------------------------------------------------------------
(* Client methods (client.go 100-185) on the client NewClient built for   *)
(* provider k.  Get and its convenience forms share one provider call and *)
(* differ in what they make of its result; the Must forms panic on error. *)
GetMethods == {"Get", "GetValue", "GetField", "MustGet", "MustGetValue"}

ClientGet(c, k, path, method, field) ==
    LET r == GetResultOf(k, path)
    IN  /\ caller[c].op = "idle"
        /\ GetStep(k, path)
        /\ ret' = [ret EXCEPT ![c] =
              CASE IsError(r) /\ method \in {"MustGet", "MustGetValue"} -> Panic
                [] IsError(r) -> r
                [] method \in {"Get", "MustGet"} -> r
                [] method \in {"GetValue", "MustGetValue"} -> SecretString(r)
                [] method = "GetField" -> GetField(r, ResultFields(k, path), field)]
        /\ owned' = IF method \in {"Get", "MustGet"}
                    THEN [owned EXCEPT ![c] = OwnAfter(c, r)] ELSE owned
        /\ UNCHANGED <<registry, config, caller, stored>>

\* v.Set(path, s) for the memory and env providers, one step each.
SetStep(c, k, path, s) ==
    \/ /\ k = MemP
       /\ Mem!Set(path, s)
       /\ ret' = [ret EXCEPT ![c] = Mem!MutationResult]
       /\ stored' = StoredAfterSet(path, s)
       /\ UNCHANGED <<environ, files, caller>>
    \/ /\ k = EnvP
       /\ Env!Set(path, s)
       /\ ret' = [ret EXCEPT ![c] = Env!MutationResult]
       /\ UNCHANGED <<heap, allocated, memSecrets, memClosed, files, caller,
                      stored>>

\* The file provider's Set: refused when ReadOnly, else the truncate step;
\* the caller then owes the write of the data it encoded.
FileSetStep(c, path, s) ==
    \/ /\ FileReadOnly
       /\ ret' = [ret EXCEPT ![c] = ErrReadOnly]
       /\ UNCHANGED <<heap, allocated, memSecrets, memClosed, environ, files,
                      caller, stored>>
    \/ /\ Files!Truncate(path)
       /\ caller' = [caller EXCEPT ![c] =
                      [op |-> "write", path |-> path, data |-> Files!Encode(s)]]
       /\ UNCHANGED <<memSecrets, memClosed, environ, ret, stored>>

\* Client.Set with the caller's own secret, and Client.SetValue, which
\* passes &vault.Secret{Value: value}.
ClientSet(c, k, path) ==
    /\ caller[c].op = "idle"
    /\ owned[c] # NoSecret
    /\ IF k = FileP THEN FileSetStep(c, path, owned[c])
                    ELSE SetStep(c, k, path, owned[c])
    /\ UNCHANGED <<registry, config, owned>>

ClientSetValue(c, k, path, v) ==
    LET s == [value |-> v, bytes |-> NoBytes, fields |-> NilMap]
    IN  /\ caller[c].op = "idle"
        /\ IF k = FileP THEN FileSetStep(c, path, s) ELSE SetStep(c, k, path, s)
        /\ UNCHANGED <<registry, config, owned>>

\* The second step of the file provider's Set: WriteFile's write.
FileWrite(c) ==
    /\ caller[c].op = "write"
    /\ Files!Write(caller[c].path, caller[c].data)
    /\ caller' = [caller EXCEPT ![c] = Idle]
    /\ ret' = [ret EXCEPT ![c] = Ok]
    /\ UNCHANGED <<memSecrets, memClosed, environ, registry, config, owned,
                   stored>>

\* Client.Delete, Exists, List and Close: one provider call each.  Env and
\* file Close do nothing; memory Close drops every secret.
ClientDelete(c, k, path) ==
    /\ caller[c].op = "idle"
    /\ \/ /\ k = MemP
          /\ Mem!Delete(path)
          /\ ret' = [ret EXCEPT ![c] = Mem!MutationResult]
          /\ UNCHANGED <<environ, files>>
       \/ /\ k = EnvP
          /\ Env!Delete(path)
          /\ ret' = [ret EXCEPT ![c] = Env!MutationResult]
          /\ UNCHANGED <<heap, allocated, memSecrets, memClosed, files>>
       \/ /\ k = FileP
          /\ Files!Delete(path)
          /\ ret' = [ret EXCEPT ![c] = Files!MutationResult]
          /\ UNCHANGED <<memSecrets, memClosed, environ>>
    /\ UNCHANGED <<registry, config, caller, owned, stored>>

ReadResult(k, path, prefix, method) ==
    CASE k = MemP /\ method = "Exists" -> Mem!ExistsResult(path)
      [] k = MemP                      -> Mem!ListResult(prefix)
      [] k = EnvP /\ method = "Exists" -> Env!ExistsResult(path)
      [] k = EnvP                      -> Env!ListResult(prefix)
      [] method = "Exists"             -> Files!ExistsResult(path)
      [] OTHER                         -> Files!ListResult(prefix)

ClientRead(c, k, path, prefix, method) ==
    /\ caller[c].op = "idle"
    /\ ret' = [ret EXCEPT ![c] = ReadResult(k, path, prefix, method)]
    /\ UNCHANGED <<heap, allocated, memSecrets, memClosed, environ, files,
                   registry, config, caller, owned, stored>>

\* v.Close() of provider k.
CloseStep(k) ==
    IF k = MemP
    THEN /\ Mem!Close
         /\ stored' = [p \in Paths |-> Absent]
    ELSE UNCHANGED <<heap, allocated, memSecrets, memClosed, stored>>

ClientClose(c, k) ==
    /\ caller[c].op = "idle"
    /\ CloseStep(k)
    /\ ret' = [ret EXCEPT ![c] = Ok]
    /\ UNCHANGED <<environ, files, registry, config, caller, owned>>

-----------------------------------------------------------------------------
(* The Resolver.  Register, Unregister and Close hold r.mu for the whole  *)
(* call; ResolveSecret holds it only to read the map, then calls v.Get    *)
(* unlocked.                                                              *)
Register(c, scheme, k) ==
    /\ caller[c].op = "idle"
    /\ registry' = [registry EXCEPT ![scheme] = k]
    /\ UNCHANGED <<heap, allocated, memSecrets, memClosed, environ, files,
                   caller, owned, ret, stored, config>>

Unregister(c, scheme) ==
    /\ caller[c].op = "idle"
    /\ registry' = [registry EXCEPT ![scheme] = NotRegistered]
    /\ UNCHANGED <<heap, allocated, memSecrets, memClosed, environ, files,
                   caller, owned, ret, stored, config>>

\* Resolver.Close: Close of every registered provider.
ResolverClose(c) ==
    /\ caller[c].op = "idle"
    /\ IF MemP \in Range(registry) THEN CloseStep(MemP)
       ELSE UNCHANGED <<heap, allocated, memSecrets, memClosed, stored>>
    /\ ret' = [ret EXCEPT ![c] = Ok]
    /\ UNCHANGED <<environ, files, registry, config, caller, owned>>

(* The resolving methods, one loop over a batch of inputs: Resolve and    *)
(* MustResolve take one, ResolveAll a list, ResolveString one and         *)
(* ResolveMap a map's values.  The strict ones resolve every input; the   *)
(* others pass a non-reference through.  The first error ends the call.   *)
(* ResolveMap ranges over a Go map, so it takes the values in any order.  *)
ResolveModes == {"Resolve", "MustResolve", "ResolveAll", "ResolveString",
                 "ResolveMap"}
Strict(mode) == mode \in {"Resolve", "MustResolve", "ResolveAll"}
Batches(mode) ==
    CASE mode = "ResolveAll" -> Inputs
      [] mode = "ResolveMap" ->
            UNION {{[i \in 1..Len(b) |-> b[o[i]]] : o \in SetToSeqs(1..Len(b))} :
                     b \in Inputs}
      [] OTHER -> {<<in>> : in \in UNION {Range(b) : b \in Inputs}}

ResolveBegin(c, mode, batch) ==
    /\ caller[c].op = "idle"
    /\ caller' = [caller EXCEPT ![c] =
                    [op |-> "lookup", mode |-> mode, todo |-> batch, done |-> <<>>]]
    /\ UNCHANGED <<heap, allocated, memSecrets, memClosed, environ, files,
                   registry, config, owned, ret, stored>>

\* The call returns err, or panics for MustResolve.
Fail(c, err) ==
    /\ caller' = [caller EXCEPT ![c] = Idle]
    /\ ret' = [ret EXCEPT ![c] =
                 IF caller[c].mode = "MustResolve" THEN Panic ELSE err]

\* The next input: passed through, rejected, or looked up under r.mu.
ResolveLookup(c) ==
    LET x == caller[c]
        s == Head(x.todo).text
        scheme == Scheme(s)
        v == IF scheme \in Schemes THEN registry[scheme] ELSE NotRegistered
    IN  /\ x.op = "lookup"
        /\ x.todo # <<>>
        /\ CASE ~Strict(x.mode) /\ ~IsSecretRef(s) ->
                  /\ caller' = [caller EXCEPT ![c].todo = Tail(x.todo),
                                              ![c].done = Append(x.done, s)]
                  /\ UNCHANGED ret
              [] scheme = EmptyStr -> Fail(c, ErrInvalidSecretRef)
              [] v = NotRegistered -> Fail(c, ErrProviderNotRegistered)
              [] OTHER ->
                  /\ caller' = [caller EXCEPT ![c] =
                       [op |-> "get", mode |-> x.mode, todo |-> x.todo,
                        done |-> x.done, scheme |-> scheme, v |-> v,
                        path |-> Path(s), frag |-> Fragment(s)]]
                  /\ UNCHANGED ret
        /\ UNCHANGED <<heap, allocated, memSecrets, memClosed, environ, files,
                       registry, config, owned, stored>>

\* v.Get(path) unlocked, then the result: the field the fragment names, or
\* secret.String().  The value goes into the results, or the error ends it.
ResolveGet(c) ==
    LET x == caller[c]
        r == GetResultOf(x.v, x.path)
        value == IF x.frag # EmptyStr
                 THEN GetField(r, ResultFields(x.v, x.path), x.frag)
                 ELSE SecretString(r)
    IN  /\ x.op = "get"
        /\ GetStep(x.v, x.path)
        /\ IF IsError(r)
           THEN Fail(c, r)
           ELSE /\ caller' = [caller EXCEPT ![c] =
                     [op |-> "lookup", mode |-> x.mode, todo |-> Tail(x.todo),
                      done |-> Append(x.done, value)]]
                /\ UNCHANGED ret
        /\ UNCHANGED <<registry, config, owned, stored>>

\* Every input resolved: the call returns the results.
ResolveReturn(c) ==
    /\ caller[c].op = "lookup"
    /\ caller[c].todo = <<>>
    /\ caller' = [caller EXCEPT ![c] = Idle]
    /\ ret' = [ret EXCEPT ![c] = caller[c].done]
    /\ UNCHANGED <<heap, allocated, memSecrets, memClosed, environ, files,
                   registry, config, owned, stored>>

\* The Go garbage collector: the roots are the maps the memory provider
\* and the callers hold.
Roots ==
    {memSecrets[p].fields : p \in {q \in Paths : memSecrets[q] # Absent}}
      \cup {owned[c].fields : c \in {d \in Callers : owned[d] # NoSecret}}

GC ==
    /\ Collect(Roots)
    /\ UNCHANGED <<memSecrets, memClosed, environ, files, registry, caller,
                   owned, ret, stored, config>>

-----------------------------------------------------------------------------
\* The calls caller c may make.  The Config is fixed throughout.
CallerStep(c) ==
    \/ \E v \in Values, b \in CallerBytes, m \in FieldMaps :
          BuildSecret(c, v, b, m)
    \/ \E m \in FieldMaps : WriteOwnedFields(c, m)
    \/ \E k \in Clients, path \in Paths :
          \/ \E method \in GetMethods :
                \E f \in IF method = "GetField" THEN FieldNames \cup {ValueField}
                                               ELSE {EmptyStr} :
                    ClientGet(c, k, path, method, f)
          \/ ClientSet(c, k, path)
          \/ \E v \in Values : ClientSetValue(c, k, path, v)
          \/ ClientDelete(c, k, path)
          \/ \E method \in {"Exists", "List"} :
                ClientRead(c, k, path, path, method)
    \/ \E k \in Clients : ClientClose(c, k)
    \/ FileWrite(c)
    \/ \E scheme \in Schemes :
          \/ \E k \in Clients : Register(c, scheme, k)
          \/ Unregister(c, scheme)
    \/ ResolverClose(c)
    \/ \E mode \in ResolveModes : \E batch \in Batches(mode) :
          ResolveBegin(c, mode, batch)
    \/ ResolveLookup(c)
    \/ ResolveGet(c)
    \/ ResolveReturn(c)

Next ==
    \/ \E c \in Callers : CallerStep(c)
    \/ GC

Spec == Init /\ [][Next]_vars

-----------------------------------------------------------------------------
TypeOK ==
    /\ allocated \subseteq Refs
    /\ heap \in [Refs -> FieldMaps]
    /\ memSecrets \in [Paths -> Secrets \cup {Absent}]
    /\ memClosed \in BOOLEAN
    /\ registry \in [Schemes -> Providers \cup {NotRegistered}]
    /\ owned \in [Callers -> Secrets \cup {NoSecret}]
    /\ \A c \in Callers :
          caller[c].op \in {"idle", "write", "lookup", "get"}

(* copySecret's promise (memory.go 173-209, "deep copy"): what the memory *)
(* provider holds at a path is what the last Set stored there, whatever   *)
(* callers later do to the *Secret they passed to Set or got from Get.    *)
(* Violated if Set or Get hands out or keeps a caller's Fields map.       *)
MemoryIsolation ==
    \A p \in Paths :
        memSecrets[p] # Absent => FieldsOf(memSecrets[p]) = stored[p]

=============================================================================
