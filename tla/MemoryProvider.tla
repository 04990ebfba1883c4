--------------------------- MODULE MemoryProvider ---------------------------
(***************************************************************************)
(* The in-memory provider, providers/memory/memory.go.  Every method runs  *)
(* under p.mu (Lock or RLock), so each is one atomic step.                 *)
(*                                                                         *)
(* The Go heap is explicit: a Fields map is a reference into heap, and     *)
(* copySecret allocates a new map and copies the entries into it, so a     *)
(* caller that keeps and mutates its own *Secret cannot reach the stored   *)
(* copy.  Metadata (timestamps, tags, labels, provider, path) is left out: *)
(* no property here is about it.  A nil map reads like an empty one, so    *)
(* the nil map Close leaves is modelled as an empty one.                   *)
(***************************************************************************)
EXTENDS Naturals, FiniteSets, SecretRef, GoHeap

CONSTANTS
    Paths,        \* secret paths (parsed strings)
    Absent,       \* no entry in the secrets map
    Ok, ErrClosed, ErrSecretNotFound

VARIABLES
    secrets,      \* p.secrets: Paths -> stored Secret, or Absent
    closed        \* p.closed

mvars == <<heap, allocated, secrets, closed>>

NoSecrets == [p \in Paths |-> Absent]

\* Variant of copySecret that copies the struct but keeps the Fields map.
CopySecretShared(s) == s

\* copySecret (memory.go 173-209): Value and ValueBytes are copied as
\* values; a non-nil Fields map is copied into a newly allocated map.
CopySecret(s) ==
    [s EXCEPT !.fields = IF s.fields = NilMap THEN NilMap ELSE NextRef]
CopyHeap(s) ==
    IF s.fields = NilMap THEN UNCHANGED <<heap, allocated>>
    ELSE Alloc(heap[s.fields])

\* New and NewWithSecrets (memory.go 26-47): an empty map, or one secret
\* with only a Value per given path.
Init ==
    /\ HeapInit
    /\ secrets \in [Paths -> {Absent} \cup
                     {[value |-> v, bytes |-> NoBytes, fields |-> NilMap] :
                        v \in Values}]
    /\ closed = FALSE

-----------------------------------------------------------------------------
(* Get (memory.go 49-65): ErrClosed, ErrSecretNotFound, or a copy.  The    *)
(* copy's map is allocated, so Get is an action; GetResult is what it      *)
(* returns, read in the state before the step.                             *)
GetResult(path) ==
    CASE closed                 -> ErrClosed
      [] secrets[path] = Absent -> ErrSecretNotFound
      [] OTHER                  -> CopySecret(secrets[path])

Get(path) ==
    IF closed \/ secrets[path] = Absent
    THEN UNCHANGED mvars
    ELSE /\ CopyHeap(secrets[path])
         /\ UNCHANGED <<secrets, closed>>

\* What Set and Delete return: ErrClosed once closed, else nil.
MutationResult == IF closed THEN ErrClosed ELSE Ok

\* Set (memory.go 67-87): refused when closed, else a copy of the caller's
\* secret replaces the entry.
Set(path, s) ==
    IF closed
    THEN UNCHANGED mvars
    ELSE /\ CopyHeap(s)
         /\ secrets' = [secrets EXCEPT ![path] = CopySecret(s)]
         /\ UNCHANGED closed

\* Delete (memory.go 89-100): refused when closed; deleting an absent path
\* is not an error.
Delete(path) ==
    IF closed
    THEN UNCHANGED mvars
    ELSE /\ secrets' = [secrets EXCEPT ![path] = Absent]
         /\ UNCHANGED <<heap, allocated, closed>>

\* Exists, List and Count (memory.go 102-131, 166-171) only read under RLock.
ExistsResult(path) == IF closed THEN ErrClosed ELSE secrets[path] # Absent

ListResult(prefix) ==
    IF closed THEN ErrClosed
    ELSE {p \in Paths : secrets[p] # Absent /\ IsPrefix(prefix, p)}

Count == Cardinality({p \in Paths : secrets[p] # Absent})

\* Close (memory.go 150-157): marks the provider closed and drops the map.
Close ==
    /\ closed' = TRUE
    /\ secrets' = NoSecrets
    /\ UNCHANGED <<heap, allocated>>

\* Clear (memory.go 159-164): a new empty map, closed or not.
Clear ==
    /\ secrets' = NoSecrets
    /\ UNCHANGED <<heap, allocated, closed>>

-----------------------------------------------------------------------------
\* The provider on its own, driven by callers that pass secrets whose maps
\* are already allocated.
CallerSecrets ==
    [value : Values \cup {EmptyValue}, bytes : Values \cup {NoBytes},
     fields : {NilMap} \cup allocated]

Next ==
    \/ \E path \in Paths : Get(path) \/ Delete(path)
    \/ \E path \in Paths, s \in CallerSecrets : Set(path, s)
    \/ Close
    \/ Clear

Spec == Init /\ [][Next]_mvars
=============================================================================
