--------------------------- MODULE EvidenceStore ---------------------------
(***************************************************************************)
(* Evidence originals and redactions (pentai_core/evidence.py), whose      *)
(* metadata are rows of the database and whose content is a file of a      *)
(* content-addressed store (evidence_store.py) that artifacts with the     *)
(* same digest share, and the permanent deletion of that content.          *)
(*                                                                         *)
(* The request handlers run in threads of one process.  A handler mixes    *)
(* database transactions with file operations, and every transaction and   *)
(* every file operation is an action of its own here, so that the handlers *)
(* of several threads, a crash and the recovery at startup interleave as   *)
(* they do in the program.                                                 *)
(***************************************************************************)
EXTENDS Integers, FiniteSets

CONSTANTS
    Originals,   \* originals, by workflow and idempotency key
    Redactions,  \* redactions, by parent and idempotency key
    Parent,      \* the original a redaction is made of
    Digests,     \* SHA-256 digests of content
    None,        \* no digest
    Threads,     \* threads that serve requests
    Startup,     \* the thread that builds the application
    MaxCrashes,  \* bound: crashes explored
    MaxFaults    \* bound: failing file operations explored

Artifacts == Originals \cup Redactions

ASSUME EvidenceAssumption ==
    /\ Originals \cap Redactions = {} /\ Parent \in [Redactions -> Originals]
    /\ None \notin Digests /\ Startup \notin Threads
    /\ MaxCrashes \in Nat /\ MaxFaults \in Nat

VARIABLES
    blobs,        \* digests with a file in the store
    row,          \* evidence_objects and evidence_derivatives: digest of an artifact
    deletion,     \* evidence_deletions: status
    disposition,  \* evidence_deletions: blob_disposition
    open,         \* the workflow's status permits capture
    up,           \* the process
    call,         \* what each thread is in the middle of
    stopped,      \* stop_for_evidence_failure was called
    crashes, faults,
    raced,        \* history: artifacts committed while their content was being unlinked
    rewritten     \* history: digests stored again after a deletion was requested

store == <<blobs, rewritten>>
rows == <<row, raced>>
deletions == <<deletion, disposition>>
process == <<up, crashes>>
vars == <<store, rows, deletions, open, process, call, stopped, faults>>

Workers == Threads \cup {Startup}

Step(pc, a, d, out) == [pc |-> pc, artifact |-> a, digest |-> d, out |-> out]

Idle == Step("idle", None, None, "none")

\* blob_disposition; "gone" is unlinked or already_absent.
Dispositions == {"gone", "retained_shared"}

Unfinished == {"pending", "processing"}

\* Rows carry digests, a deletion has a disposition exactly when it completed
\* (the CHECK of evidence_deletions), and only a stored artifact is deleted.
TypeOK ==
    /\ blobs \subseteq Digests /\ rewritten \subseteq Digests
    /\ row \in [Artifacts -> Digests \cup {None}] /\ raced \subseteq Artifacts
    /\ deletion \in [Artifacts -> {"none", "completed"} \cup Unfinished]
    /\ disposition \in [Artifacts -> Dispositions \cup {"none"}]
    /\ \A a \in Artifacts : /\ deletion[a] = "completed" <=> disposition[a] # "none"
                            /\ row[a] = None => deletion[a] = "none"
    /\ open \in BOOLEAN /\ stopped \in BOOLEAN
    /\ up \in {"down", "recovering", "serving"}
    /\ call \in [Workers ->
           [pc : {"idle", "look", "found", "absent", "stored", "source", "preview",
                  "execute", "unlink", "unlinking", "complete"},
            artifact : Artifacts \cup {None}, digest : Digests \cup {None},
            out : Dispositions \cup {"none"}]]
    /\ crashes \in 0..MaxCrashes /\ faults \in 0..MaxFaults

Init ==
    /\ blobs = {} /\ rewritten = {}
    /\ row = [a \in Artifacts |-> None] /\ raced = {}
    /\ deletion = [a \in Artifacts |-> "none"] /\ disposition = [a \in Artifacts |-> "none"]
    /\ open = TRUE /\ up = "serving" /\ stopped = FALSE
    /\ call = [c \in Workers |-> Idle]
    /\ crashes = 0 /\ faults = 0

Free(c) == up = "serving" /\ c \in Threads /\ call[c] = Idle

Goes(c, step) == call' = [call EXCEPT ![c] = step]

\* _storage_failed and the exception that ends the call; create_app does not
\* survive one.
StorageFailed(c) ==
    /\ stopped' = TRUE
    /\ Goes(c, Idle)
    /\ up' = IF c = Startup THEN "down" ELSE up
    /\ crashes' = crashes

Fault == faults < MaxFaults /\ faults' = faults + 1

\* _assert_available.
Available(a) == row[a] # None /\ deletion[a] = "none"

-----------------------------------------------------------------------------
(* EncryptedEvidenceStore.store, and the transaction that commits the      *)
(* metadata after it.  An existing file is authenticated, not rewritten.   *)

Looked(a, d) == Step(IF d \in blobs THEN "found" ELSE "absent", a, d, "none")

Look(c) ==
    /\ call[c].pc = "look"
    /\ Goes(c, Looked(call[c].artifact, call[c].digest))
    /\ UNCHANGED <<store, rows, deletions, open, process, stopped, faults>>

Verify(c) ==
    /\ call[c].pc = "found"
    /\ IF call[c].digest \in blobs
       THEN /\ Goes(c, Step("stored", call[c].artifact, call[c].digest, "none"))
            /\ UNCHANGED <<process, stopped>>
       ELSE StorageFailed(c)
    /\ UNCHANGED <<store, rows, deletions, open, faults>>

Stored(d) ==
    /\ blobs' = blobs \cup {d}
    /\ rewritten' = IF \E a \in Artifacts : row[a] = d /\ deletion[a] # "none"
                    THEN rewritten \cup {d} ELSE rewritten

Write(c) ==
    /\ call[c].pc = "absent"
    /\ Stored(call[c].digest)
    /\ Goes(c, Step("stored", call[c].artifact, call[c].digest, "none"))
    /\ UNCHANGED <<rows, deletions, open, process, stopped, faults>>

\* The file is in place already when synchronising its directory fails.
WriteFault(c) ==
    /\ call[c].pc = "absent"
    /\ Fault
    /\ Stored(call[c].digest) \/ UNCHANGED store
    /\ StorageFailed(c)
    /\ UNCHANGED <<rows, deletions, open>>

Losing(d) ==
    d \notin blobs \/ \E c \in Workers : call[c].pc \in {"unlink", "unlinking"} /\ call[c].digest = d

Commit(a, d) ==
    /\ row' = [row EXCEPT ![a] = d]
    /\ raced' = IF Losing(d) THEN raced \cup {a} ELSE raced

\* A replay returns the stored document, and one with other content conflicts.
Insert(c) ==
    /\ call[c].pc = "stored"
    /\ IF row[call[c].artifact] = None /\ (call[c].artifact \in Originals => open)
       THEN Commit(call[c].artifact, call[c].digest)
       ELSE UNCHANGED rows
    /\ Goes(c, Idle)
    /\ UNCHANGED <<store, deletions, open, process, stopped, faults>>

-----------------------------------------------------------------------------
(* create_original, create_redaction and preview_redaction up to there.    *)

CreateOriginal(c, a, d) ==
    /\ Free(c)
    /\ Goes(c, Looked(a, d))
    /\ UNCHANGED <<store, rows, deletions, open, process, stopped, faults>>

\* The check that the parent is available is made again by load_original; the
\* rows are immutable and no deletion is withdrawn, so the second one decides.
CreateRedaction(c, r, d) ==
    /\ Free(c)
    /\ row[r] = None /\ Available(Parent[r]) /\ d # row[Parent[r]]
    /\ Goes(c, Step("source", r, d, "none"))
    /\ UNCHANGED <<store, rows, deletions, open, process, stopped, faults>>

\* The source is read; its text may not allow the redaction.
ReadSource(c) ==
    /\ call[c].pc = "source"
    /\ IF row[Parent[call[c].artifact]] \in blobs
       THEN /\ \/ Goes(c, Step("look", call[c].artifact, call[c].digest, "none"))
               \/ Goes(c, Idle)
            /\ UNCHANGED <<process, stopped>>
       ELSE StorageFailed(c)
    /\ UNCHANGED <<store, rows, deletions, open, faults>>

PreviewRedaction(c, r) ==
    /\ Free(c)
    /\ Available(r)
    /\ Goes(c, Step("preview", r, row[r], "none"))
    /\ UNCHANGED <<store, rows, deletions, open, process, stopped, faults>>

ReadPreview(c) ==
    /\ call[c].pc = "preview"
    /\ IF call[c].digest \in blobs
       THEN Goes(c, Idle) /\ UNCHANGED <<process, stopped>>
       ELSE StorageFailed(c)
    /\ UNCHANGED <<store, rows, deletions, open, faults>>

ReadFault(c) ==
    /\ call[c].pc \in {"source", "preview", "found"}
    /\ Fault
    /\ StorageFailed(c)
    /\ UNCHANGED <<store, rows, deletions, open>>

-----------------------------------------------------------------------------
(* Deletion.  Requesting one is refused until the retention period of the  *)
(* artifact's policy is over, which is some time after it was stored.      *)

\* A repeated request goes on with the stored one.
DeleteArtifact(c, a) ==
    /\ Free(c)
    /\ row[a] # None
    /\ deletion' = IF deletion[a] = "none" THEN [deletion EXCEPT ![a] = "pending"] ELSE deletion
    /\ Goes(c, Step("execute", a, row[a], "none"))
    /\ UNCHANGED <<store, rows, disposition, open, process, stopped, faults>>

\* References of redactions are forgotten.
ActiveOriginals(d) == {a \in Originals : row[a] = d /\ deletion[a] = "none"}

\* _active_digest_references.
ActiveReferences(d) == {a \in Artifacts : row[a] = d /\ deletion[a] = "none"}

\* Every artifact whose deletion has not completed counts as a reference.
ExecuteCountingUnfinished(c) ==
    /\ call[c].pc = "execute"
    /\ LET a == call[c].artifact
           d == call[c].digest
           others == {b \in Artifacts \ {a} : row[b] = d /\ deletion[b] # "completed"}
       IN  IF deletion[a] = "completed"
           THEN Goes(c, Idle) /\ UNCHANGED deletion
           ELSE /\ deletion' = [deletion EXCEPT ![a] = "processing"]
                /\ Goes(c, IF others = {} THEN Step("unlink", a, d, "none")
                           ELSE Step("complete", a, d, "retained_shared"))
    /\ UNCHANGED <<store, rows, disposition, open, process, stopped, faults>>

\* The first transaction of _execute_deletion.
Execute(c) ==
    /\ call[c].pc = "execute"
    /\ LET a == call[c].artifact
           d == call[c].digest
       IN  IF deletion[a] = "completed"
           THEN Goes(c, Idle) /\ UNCHANGED deletion
           ELSE /\ deletion' = [deletion EXCEPT ![a] = "processing"]
                /\ Goes(c, IF ActiveReferences(d) = {} THEN Step("unlink", a, d, "none")
                           ELSE Step("complete", a, d, "retained_shared"))
    /\ UNCHANGED <<store, rows, disposition, open, process, stopped, faults>>

\* EncryptedEvidenceStore.delete asks whether the file exists ...
LookUnlink(c) ==
    /\ call[c].pc = "unlink"
    /\ LET a == call[c].artifact
           d == call[c].digest
       IN  Goes(c, IF d \in blobs THEN Step("unlinking", a, d, "none")
                   ELSE Step("complete", a, d, "gone"))
    /\ UNCHANGED <<store, rows, deletions, open, process, stopped, faults>>

\* ... and unlinks it, which fails when it is gone by then.
Unlink(c) ==
    /\ call[c].pc = "unlinking"
    /\ IF call[c].digest \in blobs
       THEN /\ blobs' = blobs \ {call[c].digest}
            /\ Goes(c, Step("complete", call[c].artifact, call[c].digest, "gone"))
            /\ UNCHANGED <<process, stopped>>
       ELSE StorageFailed(c) /\ UNCHANGED blobs
    /\ UNCHANGED <<rewritten, rows, deletions, open, faults>>

\* The file is gone already when synchronising its directory fails.
UnlinkFault(c) ==
    /\ call[c].pc = "unlinking"
    /\ Fault
    /\ blobs' \in {blobs, blobs \ {call[c].digest}}
    /\ StorageFailed(c)
    /\ UNCHANGED <<rewritten, rows, deletions, open>>

\* The second transaction; whoever completes first decides the disposition.
Complete(c) ==
    /\ call[c].pc = "complete"
    /\ LET a == call[c].artifact
       IN  IF deletion[a] = "processing"
           THEN /\ deletion' = [deletion EXCEPT ![a] = "completed"]
                /\ disposition' = [disposition EXCEPT ![a] = call[c].out]
           ELSE UNCHANGED deletions
    /\ Goes(c, Idle)
    /\ UNCHANGED <<store, rows, open, process, stopped, faults>>

-----------------------------------------------------------------------------
(* The process.  Startup resumes every unfinished deletion, one after the  *)
(* other, before the first request is served.                              *)

Crash ==
    /\ up # "down" /\ crashes < MaxCrashes
    /\ up' = "down" /\ crashes' = crashes + 1
    /\ call' = [c \in Workers |-> Idle]
    /\ UNCHANGED <<store, rows, deletions, open, stopped, faults>>

Boot ==
    /\ up = "down"
    /\ up' = "recovering"
    /\ UNCHANGED <<store, rows, deletions, open, crashes, call, stopped, faults>>

\* Only requests nobody had started on are resumed.
RecoverablePending == {a \in Artifacts : deletion[a] = "pending"}

Recoverable == {a \in Artifacts : deletion[a] \in Unfinished}

RecoverDeletion(a) ==
    /\ up = "recovering" /\ call[Startup] = Idle
    /\ a \in Recoverable
    /\ Goes(Startup, Step("execute", a, row[a], "none"))
    /\ UNCHANGED <<store, rows, deletions, open, process, stopped, faults>>

Serve ==
    /\ up = "recovering" /\ call[Startup] = Idle
    /\ Recoverable = {}
    /\ up' = "serving"
    /\ UNCHANGED <<store, rows, deletions, open, crashes, call, stopped, faults>>

\* The workflow leaves the states that permit capture.
CloseWorkflow ==
    /\ open /\ up = "serving"
    /\ open' = FALSE
    /\ UNCHANGED <<store, rows, deletions, process, call, stopped, faults>>

Proceed(c) ==
    \/ Look(c) \/ Verify(c) \/ Write(c) \/ Insert(c)
    \/ ReadSource(c) \/ ReadPreview(c)
    \/ Execute(c) \/ LookUnlink(c) \/ Unlink(c) \/ Complete(c)

Recover == Serve \/ \E a \in Artifacts : RecoverDeletion(a)

Next ==
    \/ \E c \in Threads, a \in Originals, d \in Digests : CreateOriginal(c, a, d)
    \/ \E c \in Threads, r \in Redactions, d \in Digests : CreateRedaction(c, r, d)
    \/ \E c \in Threads, r \in Redactions : PreviewRedaction(c, r)
    \/ \E c \in Threads, a \in Artifacts : DeleteArtifact(c, a)
    \/ \E c \in Workers : Proceed(c) \/ WriteFault(c) \/ ReadFault(c) \/ UnlinkFault(c)
    \/ Crash \/ Boot \/ Recover \/ CloseWorkflow

Fairness == (\A c \in Workers : WF_vars(Proceed(c))) /\ WF_vars(Recover)

Spec == Init /\ [][Next]_vars /\ Fairness

-----------------------------------------------------------------------------
(* Properties.                                                             *)

\* Content is lost only to an overlap: an artifact without a deletion request
\* has its file, through any number of deletions of artifacts that share it,
\* crashes, failures and recoveries, unless it was committed while that file
\* was gone or about to be unlinked (_execute_deletion counts the references in
\* one transaction and unlinks after it).
UnracedKeepsContent ==
    \A a \in Artifacts : Available(a) /\ a \notin raced => row[a] \in blobs

\* Deletion erases.  One that reports its file unlinked or already absent says
\* so truly, and once every artifact with a digest has a completed deletion the
\* file is gone, whichever of them were reported retained_shared: the last of
\* the requests counts no active reference, in whatever order several threads
\* and recoveries execute them.  The exception is content that a capture stored
\* again after a request.
DeletionErases ==
    \A d \in Digests \ rewritten :
        LET sharing == {a \in Artifacts : row[a] = d}
            reported == \E a \in sharing : disposition[a] = "gone"
            completed == sharing # {} /\ \A a \in sharing : deletion[a] = "completed"
        IN  reported \/ completed => d \notin blobs

\* A process that is not left down completes every requested deletion, by the
\* thread that asked for it or at the next startup, unless evidence storage
\* failed (recover_deletions).
DeletionCompletes ==
    []<>(up # "down") =>
        \A a \in Artifacts : deletion[a] \in Unfinished ~> deletion[a] = "completed" \/ stopped

\* docs/contracts/evidence-retention-deletion-v1.md: "A blob is unlinked only
\* when every database reference to its digest has a deletion request."
UnlinkedOnlyUnreferenced ==
    [][\A d \in blobs \ blobs' : \A a \in Artifacts : row[a] = d => deletion[a] # "none"]_vars
=============================================================================
