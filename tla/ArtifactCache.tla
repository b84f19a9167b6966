---------------------------- MODULE ArtifactCache ----------------------------
(***************************************************************************)
(* What the cache of compiled artifacts promises, whoever works on it and  *)
(* whenever the process dies: a directory under artifacts/ appears whole,  *)
(* under a key that has none and of which the registry says nothing; it is *)
(* never changed in place, only moved out; and the registry describes a    *)
(* key once, with what its directory holds.  ArtifactStore implements it.  *)
(***************************************************************************)
CONSTANTS
    Key,      \* compile keys
    Bytes,    \* contents (digests) of model.rai
    Backend,  \* compiler backends
    None      \* no directory, no row

VARIABLES
    entry,      \* what is committed under artifacts/<key>
    described   \* artifacts.artifact_sha256 of the key's row

vars == <<entry, described>>

Artifact == [bytes: Bytes, backend: Backend]

Init == entry = [k \in Key |-> None] /\ described = [k \in Key |-> None]

Commit(k) == /\ entry[k] = None /\ described[k] = None
             /\ \E a \in Artifact : entry' = [entry EXCEPT ![k] = a]
             /\ UNCHANGED described

MoveOut(k) == /\ entry[k] # None
              /\ entry' = [entry EXCEPT ![k] = None]
              /\ UNCHANGED described

Describe(k) == /\ described[k] = None
               /\ \E b \in Bytes :
                    /\ entry[k] # None => b = entry[k].bytes
                    /\ described' = [described EXCEPT ![k] = b]
               /\ UNCHANGED entry

Forget(k) == /\ described[k] # None
             /\ described' = [described EXCEPT ![k] = None]
             /\ UNCHANGED entry

Next == \E k \in Key : Commit(k) \/ MoveOut(k) \/ Describe(k) \/ Forget(k)

Spec == Init /\ [][Next]_vars
==============================================================================
