------------------------------ MODULE SecretRef ------------------------------
(***************************************************************************)
(* Constant-level definitions of the vault package's value types:          *)
(* vault.SecretRef parsing (types.go, src/unnamed/part_010 132-187), the   *)
(* Secret accessors GetField and String (part_010 25-58) and               *)
(* omnivault.IsSecretRef (src/resolver.go 146-150).                        *)
(*                                                                         *)
(* A URI is the only data whose characters matter to the code, so a Go     *)
(* string that is parsed is a sequence of one-character strings.  A secret *)
(* value is never parsed and stays an opaque constant.                     *)
(***************************************************************************)
EXTENDS Naturals, Sequences, SequencesExt

\* Go's "" for a parsed string.
EmptyStr == <<>>

\* The first index of character c in s, 0 when there is none.
FirstIndexOf(s, c) == SelectInSeq(s, LAMBDA x : x = c)
LastIndexOf(s, c)  == SelectLastInSeq(s, LAMBDA x : x = c)

\* SecretRef.Scheme: the text before the first ':', or "" when s has none.
Scheme(s) ==
    LET i == FirstIndexOf(s, ":")
    IN  IF i = 0 THEN EmptyStr ELSE SubSeq(s, 1, i - 1)

\* The position of the first "://" in s, 0 when there is none.  The Go loop
\* runs i from 0 to len(s)-3, that is positions 1..Len(s)-2 here.
SeparatorAt(s) ==
    LET I == {i \in 1..(Len(s) - 2) :
                s[i] = ":" /\ s[i + 1] = "/" /\ s[i + 2] = "/"}
    IN  IF I = {} THEN 0 ELSE Min(I)

\* SecretRef.Path: the text after the first "://" up to its first '#'; the
\* whole of s when it has no "://".
Path(s) ==
    LET i == SeparatorAt(s)
        rest == SubSeq(s, i + 3, Len(s))
        j == FirstIndexOf(rest, "#")
    IN  CASE i = 0 -> s
          [] j = 0 -> rest
          [] OTHER -> SubSeq(rest, 1, j - 1)

\* SecretRef.Fragment: the text after the LAST '#' of s, "" when there is none.
Fragment(s) ==
    LET i == LastIndexOf(s, "#")
    IN  IF i = 0 THEN EmptyStr ELSE SubSeq(s, i + 1, Len(s))

\* omnivault.IsSecretRef: a scheme, and more than "://" after it.
IsSecretRef(s) == Scheme(s) # EmptyStr /\ Len(s) > Len(Scheme(s)) + 3

-----------------------------------------------------------------------------
(***************************************************************************)
(* Secrets.  A Secret is a record: the Value string, the ValueBytes slice  *)
(* (NoBytes for a nil or empty slice) and the Fields map, which is a       *)
(* reference into the Go heap (NilMap for a nil map).  Field names are     *)
(* parsed strings, because a URI fragment names one.                       *)
(***************************************************************************)
CONSTANTS
    NoBytes,     \* a nil or empty ValueBytes slice
    NilMap,      \* a nil Fields map
    NoField,     \* a field name the Fields map has no entry for
    EmptyValue   \* the empty secret value ""

\* "value", the field name GetField maps to the primary Value.
ValueField == <<"v", "a", "l", "u", "e">>

\* Secret.GetField(name), fields being the contents of the map s.fields.
GetField(s, fields, name) ==
    CASE name \in {EmptyStr, ValueField}              -> s.value
      [] s.fields # NilMap /\ fields[name] # NoField  -> fields[name]
      [] OTHER                                        -> EmptyValue

\* Secret.String: ValueBytes when non-empty, else Value.
SecretString(s) == IF s.bytes # NoBytes THEN s.bytes ELSE s.value

-----------------------------------------------------------------------------
(***************************************************************************)
(* The reference grammar of a secret reference, scheme://path[#field],     *)
(* from the doc comments of SecretRef and Resolver.Resolve.  A well-formed *)
(* reference has a non-empty scheme without ':' and a path and field       *)
(* without '#'; Compose builds one, and the resolver must take it apart    *)
(* into the same three pieces.                                             *)
(***************************************************************************)
Separator == <<":", "/", "/">>

Compose(scheme, path, field) ==
    scheme \o Separator \o path \o
        (IF field = EmptyStr THEN EmptyStr ELSE <<"#">> \o field)

WellFormed(scheme, path, field) ==
    /\ scheme # EmptyStr
    /\ ~Contains(scheme, ":") /\ ~Contains(scheme, "#")
    /\ ~Contains(path, "#") /\ ~Contains(field, "#")
=============================================================================
