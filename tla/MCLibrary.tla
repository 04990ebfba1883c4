----------------------------- MODULE MCLibrary -----------------------------
(* The library with one caller, one path, one scheme, one value and one   *)
(* multi-field name.  Inputs resolves a field reference and a non-         *)
(* reference together, and a whole-secret reference; the scheme is not    *)
(* registered until the caller registers it.                              *)
EXTENDS Library, TLC

MCSchemes == {<<"m">>}
MCPaths == {<<"a">>}
MCFieldNames == {<<"u">>}

\* An input text with the grammar pieces it was composed from.
Ref(scheme, path, field) ==
    [text |-> Compose(scheme, path, field),
     ref |-> [scheme |-> scheme, path |-> path, field |-> field]]
NonRef(text) == [text |-> text, ref |-> NotRef]

MCInputs ==
    { << Ref(<<"m">>, <<"a">>, <<"u">>), NonRef(<<"a">>) >>,
      << Ref(<<"m">>, <<"a">>, EmptyStr) >> }

\* What callers get back is read by no guard and no property, so states
\* that differ only in it are not told apart.
LibView ==
    <<heap, allocated, memSecrets, memClosed, environ, files, registry,
      [c \in Callers |-> [f \in DOMAIN caller[c] \ {"done"} |-> caller[c][f]]],
      owned, stored, config>>

\* Two program configurations: one that writes through every provider,
\* one whose env and file providers refuse writes.
MCConfigs ==
    { [envAllowWrite |-> TRUE, fileJSON |-> TRUE, fileReadOnly |-> FALSE],
      [envAllowWrite |-> FALSE, fileJSON |-> FALSE, fileReadOnly |-> TRUE] }

\* Map references are interchangeable.
RefSymmetry == Permutations(Refs)

MCEnvPrefix == <<"P">>
MCFileExtension == <<".">>
=============================================================================
