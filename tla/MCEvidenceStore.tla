-------------------------- MODULE MCEvidenceStore --------------------------
(* An instance of EvidenceStore.                                           *)
EXTENDS EvidenceStore

CONSTANTS o1, o2, r1, d1, d2, h1, h2

ParentOfAll == [r \in Redactions |-> o1]

\* An original, and another one with the content of the first one's redaction.
Contents == {<<o1, d1>>, <<o2, d2>>, <<r1, d2>>, <<None, None>>}

\* One crash or fault and two deletions; the second thread only deletes and
\* previews.
Scope ==
    /\ crashes + faults <= 1
    /\ Cardinality({a \in Artifacts : deletion[a] # "none"}) <= 2
    /\ \A c \in Workers : <<call[c].artifact, call[c].digest>> \in Contents
    /\ call[h2].pc \in {"idle", "preview", "execute", "unlink", "unlinking", "complete"}

MCSpec == Init /\ [][Next /\ Scope']_vars /\ Fairness
=============================================================================
