------------------------------- MODULE GoHeap -------------------------------
(***************************************************************************)
(* The part of the Go heap the providers share with their callers: the     *)
(* Fields maps of vault.Secret values (src/unnamed/part_010 8-23).  A map  *)
(* is a reference; two Secrets that hold the same reference see each       *)
(* other's writes.  A map is made by make, a composite literal or a JSON  *)
(* decode, and the garbage collector frees it once no root reaches it.    *)
(* Refs is a bound on the maps live at once; a step that would need more  *)
(* is disabled until the collector runs.  References are interchangeable: *)
(* no code compares or orders them.                                       *)
(***************************************************************************)
EXTENDS Naturals, SecretRef

CONSTANTS
    Values,       \* opaque non-empty secret values
    FieldNames,   \* names of multi-field entries (never "" or "value")
    Refs          \* map references; bounds the maps live at once

VARIABLES
    heap,         \* Refs -> the contents of that map
    allocated     \* the references in use

FieldMaps == [FieldNames -> Values \cup {NoField}]
EmptyFieldMap == [f \in FieldNames |-> NoField]

Secrets == [value : Values \cup {EmptyValue},
            bytes : Values \cup {NoBytes},
            fields : Refs \cup {NilMap}]

HeapInit == heap = [r \in Refs |-> EmptyFieldMap] /\ allocated = {}

\* The contents of a secret's Fields map; a nil map reads as empty.
FieldsOf(s) == IF s.fields = NilMap THEN EmptyFieldMap ELSE heap[s.fields]

\* The reference the next allocation returns: any free one.
NextRef == CHOOSE r \in Refs \ allocated : TRUE

\* Allocate a map holding `contents`; disabled when MaxRefs are in use.
Alloc(contents) ==
    /\ allocated # Refs
    /\ heap' = [heap EXCEPT ![NextRef] = contents]
    /\ allocated' = allocated \cup {NextRef}

\* The collector frees the maps the roots do not reach (Fields maps hold no
\* references, so reachable means referenced by a root).
Collect(roots) ==
    /\ allocated \ roots # {}
    /\ allocated' = allocated \cap roots
    /\ heap' = [r \in Refs |-> IF r \in roots THEN heap[r] ELSE EmptyFieldMap]
=============================================================================
