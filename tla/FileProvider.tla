---------------------------- MODULE FileProvider ----------------------------
(***************************************************************************)
(* The file provider, providers/file/file.go: one file per secret under    *)
(* Config.Directory.  The provider has no lock of its own, so concurrent   *)
(* callers interleave at the file system calls.  os.WriteFile opens the    *)
(* file with O_TRUNC and then writes: Set is two steps, Truncate and       *)
(* Write, and a reader between them sees an empty file.  MkdirAll and      *)
(* Stat are left out (they feed only directory creation and the metadata   *)
(* timestamps), as are file system errors other than a missing file.      *)
(* The boolean Config options are variables no step changes, so that a    *)
(* composing module can let the program choose them.                      *)
(***************************************************************************)
EXTENDS Naturals, SecretRef, GoHeap

CONSTANTS
    Paths,        \* secret paths (parsed strings)
    Extension,    \* Config.Extension (a parsed string, possibly empty)
    NoFile,       \* no file at that name
    Ok, ErrReadOnly, ErrSecretNotFound

VARIABLES
    files,        \* the directory: file name -> contents, or NoFile
    JSONFormat,   \* Config.JSONFormat
    ReadOnly      \* Config.ReadOnly

\* p.filepath (file.go 74-81): path + Extension under the directory.
FileName(path) == path \o Extension
FileNames == {FileName(p) : p \in Paths}

\* File contents: plain text, or the JSON encoding of a Secret (json.Marshal
\* omits an empty Fields map, which decodes back as nil).
Text(v) == [json |-> FALSE, text |-> v]
Json(s) ==
    [json |-> TRUE, value |-> s.value, bytes |-> s.bytes,
     fields |-> IF FieldsOf(s) = EmptyFieldMap THEN NilMap ELSE FieldsOf(s)]
EmptyFile == Text(EmptyValue)

\* The bytes Set writes (file.go 133-143): MarshalIndent(secret) or
\* secret.Bytes(), which is ValueBytes when set and Value otherwise.
Encode(s) == IF JSONFormat THEN Json(s) ELSE Text(SecretString(s))

Init ==
    /\ files = [n \in FileNames |-> NoFile]
    /\ JSONFormat \in BOOLEAN
    /\ ReadOnly \in BOOLEAN

\* Get (file.go 83-117): a missing file is ErrSecretNotFound.  With
\* JSONFormat the contents are decoded, and anything that does not decode
\* (an empty file among them) falls back to plain text.  A decoded non-nil
\* Fields map is a new map.
Decoded(c) ==
    IF JSONFormat /\ c.json
    THEN [value |-> c.value, bytes |-> c.bytes,
          fields |-> IF c.fields = NilMap THEN NilMap ELSE NextRef]
    ELSE [value |-> c.text, bytes |-> NoBytes, fields |-> NilMap]

GetResult(path) ==
    IF files[FileName(path)] = NoFile THEN ErrSecretNotFound
    ELSE Decoded(files[FileName(path)])

Get(path) ==
    LET c == files[FileName(path)]
    IN  IF c # NoFile /\ JSONFormat /\ c.json /\ c.fields # NilMap
        THEN Alloc(c.fields) /\ UNCHANGED files
        ELSE UNCHANGED <<files, heap, allocated>>

\* What Set and Delete return when refused.
MutationResult == IF ReadOnly THEN ErrReadOnly ELSE Ok

\* Set, first step (file.go 120-145 up to the open): refused when ReadOnly;
\* otherwise the data is encoded and WriteFile truncates the file.
Truncate(path) ==
    /\ ~ReadOnly
    /\ files' = [files EXCEPT ![FileName(path)] = EmptyFile]
    /\ UNCHANGED <<heap, allocated>>

\* Set, second step: WriteFile writes the encoded data.
Write(path, data) ==
    /\ files' = [files EXCEPT ![FileName(path)] = data]
    /\ UNCHANGED <<heap, allocated>>

\* Delete (file.go 152-168): refused when ReadOnly; removing a missing file
\* is not an error.
Delete(path) ==
    IF ReadOnly
    THEN UNCHANGED <<files, heap, allocated>>
    ELSE /\ files' = [files EXCEPT ![FileName(path)] = NoFile]
         /\ UNCHANGED <<heap, allocated>>

\* Exists (file.go 170-181): the file is there.
ExistsResult(path) == files[FileName(path)] # NoFile

\* List (file.go 183-219): every file, Extension trimmed, under the prefix.
ListResult(prefix) ==
    {p \in Paths : files[FileName(p)] # NoFile /\ IsPrefix(prefix, p)}
=============================================================================
