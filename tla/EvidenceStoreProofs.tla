-------------------------- MODULE EvidenceStoreProofs --------------------------
(***************************************************************************)
(* What EvidenceStore promises of content, for any artifacts, digests and  *)
(* threads and any number of crashes and faults.  It rests on what calls   *)
(* in progress know of rows and requests, and on the record of commits     *)
(* into the window of an unlink.                                           *)
(***************************************************************************)
EXTENDS EvidenceStore, TLAPS

\* Every leaf is tried with SMT and then with Zenon, with time to spare on a
\* slow machine.
USE SMTT(20), ZenonT(30)

\* A call knows its artifact and digest, and one that deletes has the request
\* and the row it was made for.
CallsBound ==
    \A c \in Workers :
        /\ call[c].pc # "idle" => call[c].artifact \in Artifacts /\ call[c].digest \in Digests
        /\ call[c].pc \in {"execute", "unlink", "unlinking", "complete"} =>
               deletion[call[c].artifact] # "none" /\ row[call[c].artifact] = call[c].digest
        /\ call[c].pc = "complete" => call[c].out # "none"

\* Whatever still refers to a file that is about to be unlinked is known to
\* have been committed too late.
UnlinkedAreRaced ==
    \A c \in Workers, a \in Artifacts :
        call[c].pc \in {"unlink", "unlinking"} /\ row[a] = call[c].digest /\ deletion[a] = "none" =>
            a \in raced

\* Every step keeps rows, requests and calls in their types.
LEMMA TypeStep ==
    ASSUME TypeOK, CallsBound, [Next]_vars
    PROVE  TypeOK'
<1> USE DEF Goes, Step, Idle, store, rows, deletions, process,
           TypeOK, CallsBound, Artifacts, Workers, Dispositions, Unfinished
<1>1. ASSUME NEW c \in Threads, NEW x \in Originals, NEW d \in Digests, CreateOriginal(c, x, d)
      PROVE TypeOK'
  BY Zenon, <1>1, EvidenceAssumption DEF CreateOriginal, Free, Looked
<1>2. ASSUME NEW c \in Threads, NEW x \in Redactions, NEW d \in Digests, CreateRedaction(c, x, d)
      PROVE TypeOK'
  BY Zenon, <1>2, EvidenceAssumption DEF CreateRedaction, Free, Available
<1>3. ASSUME NEW c \in Threads, NEW x \in Redactions, PreviewRedaction(c, x)  PROVE TypeOK'
  BY Zenon, <1>3, EvidenceAssumption DEF PreviewRedaction, Free, Available
<1>4. ASSUME NEW c \in Threads, NEW x \in Artifacts, DeleteArtifact(c, x)  PROVE TypeOK'
  BY <1>4, EvidenceAssumption DEF DeleteArtifact, Free
<1>5. ASSUME NEW c \in Workers, Look(c)  PROVE TypeOK'
  BY Zenon, <1>5, EvidenceAssumption DEF Look, Looked
<1>6. ASSUME NEW c \in Workers, Verify(c)  PROVE TypeOK'
  <2>1. stopped' \in BOOLEAN
    BY <1>6, Zenon DEF Verify, StorageFailed
  <2>2. CASE call[c].digest \in blobs
    BY <1>6, <2>1, <2>2, EvidenceAssumption DEF Verify, StorageFailed
  <2>3. CASE ~ (call[c].digest \in blobs)
    BY <1>6, <2>1, <2>3, EvidenceAssumption DEF Verify, StorageFailed
  <2> QED  BY Zenon, <2>2, <2>3
<1>7. ASSUME NEW c \in Workers, Write(c)  PROVE TypeOK'
  BY <1>7, EvidenceAssumption DEF Write, Stored
<1>8. ASSUME NEW c \in Workers, Insert(c)  PROVE TypeOK'
  BY <1>8, EvidenceAssumption DEF Insert, Commit, Losing
<1>9. ASSUME NEW c \in Workers, ReadSource(c)  PROVE TypeOK'
  <2>1. stopped' \in BOOLEAN
    BY <1>9, Zenon DEF ReadSource, StorageFailed
  <2>2. CASE row[Parent[call[c].artifact]] \in blobs
    BY <1>9, <2>1, <2>2, EvidenceAssumption DEF ReadSource, StorageFailed
  <2>3. CASE ~ (row[Parent[call[c].artifact]] \in blobs)
    BY <1>9, <2>1, <2>3, EvidenceAssumption DEF ReadSource, StorageFailed
  <2> QED  BY Zenon, <2>2, <2>3
<1>10. ASSUME NEW c \in Workers, ReadPreview(c)  PROVE TypeOK'
  <2>1. stopped' \in BOOLEAN
    BY <1>10, Zenon DEF ReadPreview, StorageFailed
  <2>2. CASE call[c].digest \in blobs
    BY <1>10, <2>1, <2>2, EvidenceAssumption DEF ReadPreview, StorageFailed
  <2>3. CASE ~ (call[c].digest \in blobs)
    BY <1>10, <2>1, <2>3, EvidenceAssumption DEF ReadPreview, StorageFailed
  <2> QED  BY Zenon, <2>2, <2>3
<1>11. ASSUME NEW c \in Workers, Execute(c)  PROVE TypeOK'
  BY <1>11, EvidenceAssumption DEF Execute, ActiveReferences
<1>12. ASSUME NEW c \in Workers, LookUnlink(c)  PROVE TypeOK'
  BY Zenon, <1>12, EvidenceAssumption DEF LookUnlink
<1>13. ASSUME NEW c \in Workers, Unlink(c)  PROVE TypeOK'
  <2>1. stopped' \in BOOLEAN
    BY <1>13, Zenon DEF Unlink, StorageFailed
  <2>2. CASE call[c].digest \in blobs
    BY <1>13, <2>1, <2>2, EvidenceAssumption DEF Unlink, StorageFailed
  <2>3. CASE ~ (call[c].digest \in blobs)
    BY <1>13, <2>1, <2>3, EvidenceAssumption DEF Unlink, StorageFailed
  <2> QED  BY Zenon, <2>2, <2>3
<1>14. ASSUME NEW c \in Workers, Complete(c)  PROVE TypeOK'
  BY <1>14, EvidenceAssumption DEF Complete
<1>15. ASSUME NEW c \in Workers, WriteFault(c)  PROVE TypeOK'
  BY <1>15, EvidenceAssumption DEF WriteFault, Stored, StorageFailed, Fault
<1>16. ASSUME NEW c \in Workers, ReadFault(c)  PROVE TypeOK'
  BY <1>16, EvidenceAssumption DEF ReadFault, StorageFailed, Fault
<1>17. ASSUME NEW c \in Workers, UnlinkFault(c)  PROVE TypeOK'
  BY <1>17, EvidenceAssumption DEF UnlinkFault, StorageFailed, Fault
<1>18. ASSUME NEW x \in Artifacts, RecoverDeletion(x)  PROVE TypeOK'
  BY Zenon, <1>18, EvidenceAssumption DEF RecoverDeletion, Recoverable
<1>19. ASSUME Crash  PROVE TypeOK'
  BY <1>19, EvidenceAssumption DEF Crash
<1>20. ASSUME Boot  PROVE TypeOK'
  BY Zenon, <1>20, EvidenceAssumption DEF Boot
<1>21. ASSUME Serve  PROVE TypeOK'
  BY Zenon, <1>21, EvidenceAssumption DEF Serve
<1>22. ASSUME CloseWorkflow  PROVE TypeOK'
  BY <1>22, Zenon DEF CloseWorkflow
<1>23. ASSUME UNCHANGED vars  PROVE TypeOK'
  BY Zenon, <1>23 DEF vars
<1> HIDE DEF Goes, Step, Idle, store, rows, deletions, process,
           TypeOK, CallsBound, Artifacts, Workers, Dispositions, Unfinished
<1> QED  BY ZenonT(60), <1>1, <1>2, <1>3, <1>4, <1>5, <1>6, <1>7, <1>8, <1>9, <1>10,
             <1>11, <1>12,
             <1>13, <1>14, <1>15, <1>16, <1>17, <1>18, <1>19, <1>20, <1>21, <1>22, <1>23
          DEF Next, Proceed, Recover

\* Every step keeps the calls bound to what they were made for.
LEMMA BoundStep ==
    ASSUME TypeOK, CallsBound, [Next]_vars
    PROVE  CallsBound'
<1> USE DEF Goes, Step, Idle, store, rows, deletions, process,
           TypeOK, CallsBound, Artifacts, Workers, Unfinished
<1>1. ASSUME NEW c \in Threads, NEW x \in Originals, NEW d \in Digests, CreateOriginal(c, x, d)
      PROVE CallsBound'
  BY Zenon, <1>1, EvidenceAssumption DEF CreateOriginal, Free, Looked
<1>2. ASSUME NEW c \in Threads, NEW x \in Redactions, NEW d \in Digests, CreateRedaction(c, x, d)
      PROVE CallsBound'
  BY <1>2, EvidenceAssumption DEF CreateRedaction, Free, Available
<1>3. ASSUME NEW c \in Threads, NEW x \in Redactions, PreviewRedaction(c, x)  PROVE CallsBound'
  BY <1>3, EvidenceAssumption DEF PreviewRedaction, Free, Available
<1>4. ASSUME NEW c \in Threads, NEW x \in Artifacts, DeleteArtifact(c, x)  PROVE CallsBound'
  BY <1>4, EvidenceAssumption DEF DeleteArtifact, Free
<1>5. ASSUME NEW c \in Workers, Look(c)  PROVE CallsBound'
  BY <1>5, EvidenceAssumption DEF Look, Looked
<1>6. ASSUME NEW c \in Workers, Verify(c)  PROVE CallsBound'
  BY <1>6, EvidenceAssumption DEF Verify, StorageFailed
<1>7. ASSUME NEW c \in Workers, Write(c)  PROVE CallsBound'
  BY <1>7, EvidenceAssumption DEF Write, Stored
<1>8. ASSUME NEW c \in Workers, Insert(c)  PROVE CallsBound'
  BY <1>8, EvidenceAssumption DEF Insert, Commit, Losing
<1>9. ASSUME NEW c \in Workers, ReadSource(c)  PROVE CallsBound'
  BY <1>9, EvidenceAssumption DEF ReadSource, StorageFailed
<1>10. ASSUME NEW c \in Workers, ReadPreview(c)  PROVE CallsBound'
  BY <1>10, EvidenceAssumption DEF ReadPreview, StorageFailed
<1>11. ASSUME NEW c \in Workers, Execute(c)  PROVE CallsBound'
  BY <1>11, EvidenceAssumption DEF Execute, ActiveReferences
<1>12. ASSUME NEW c \in Workers, LookUnlink(c)  PROVE CallsBound'
  BY <1>12, EvidenceAssumption DEF LookUnlink
<1>13. ASSUME NEW c \in Workers, Unlink(c)  PROVE CallsBound'
  BY <1>13, EvidenceAssumption DEF Unlink, StorageFailed
<1>14. ASSUME NEW c \in Workers, Complete(c)  PROVE CallsBound'
  BY <1>14, EvidenceAssumption DEF Complete
<1>15. ASSUME NEW c \in Workers, WriteFault(c)  PROVE CallsBound'
  BY <1>15, EvidenceAssumption DEF WriteFault, Stored, StorageFailed, Fault
<1>16. ASSUME NEW c \in Workers, ReadFault(c)  PROVE CallsBound'
  BY <1>16, EvidenceAssumption DEF ReadFault, StorageFailed, Fault
<1>17. ASSUME NEW c \in Workers, UnlinkFault(c)  PROVE CallsBound'
  BY <1>17, EvidenceAssumption DEF UnlinkFault, StorageFailed, Fault
<1>18. ASSUME NEW x \in Artifacts, RecoverDeletion(x)  PROVE CallsBound'
  BY <1>18, EvidenceAssumption DEF RecoverDeletion, Recoverable
<1>19. ASSUME Crash  PROVE CallsBound'
  BY Zenon, <1>19, EvidenceAssumption DEF Crash
<1>20. ASSUME Boot  PROVE CallsBound'
  BY Zenon, <1>20, EvidenceAssumption DEF Boot
<1>21. ASSUME Serve  PROVE CallsBound'
  BY Zenon, <1>21, EvidenceAssumption DEF Serve
<1>22. ASSUME CloseWorkflow  PROVE CallsBound'
  BY Zenon, <1>22, EvidenceAssumption DEF CloseWorkflow
<1>23. ASSUME UNCHANGED vars  PROVE CallsBound'
  BY Zenon, <1>23 DEF vars
<1> HIDE DEF Goes, Step, Idle, store, rows, deletions, process,
           TypeOK, CallsBound, Artifacts, Workers, Unfinished
<1> QED  BY ZenonT(60), <1>1, <1>2, <1>3, <1>4, <1>5, <1>6, <1>7, <1>8, <1>9, <1>10,
             <1>11, <1>12,
             <1>13, <1>14, <1>15, <1>16, <1>17, <1>18, <1>19, <1>20, <1>21, <1>22, <1>23
          DEF Next, Proceed, Recover

\* A commit into the window of an unlink is recorded as raced.
LEMMA RacedStep ==
    ASSUME TypeOK, CallsBound, UnlinkedAreRaced, [Next]_vars
    PROVE  UnlinkedAreRaced'
<1> USE DEF Goes, Step, Idle, store, rows, deletions, process,
           TypeOK, CallsBound, UnlinkedAreRaced, Workers, Unfinished
<1>1. ASSUME NEW c \in Threads, NEW x \in Originals, NEW d \in Digests, CreateOriginal(c, x, d)
      PROVE UnlinkedAreRaced'
  BY Zenon, <1>1, EvidenceAssumption DEF CreateOriginal, Free, Looked
<1>2. ASSUME NEW c \in Threads, NEW x \in Redactions, NEW d \in Digests, CreateRedaction(c, x, d)
      PROVE UnlinkedAreRaced'
  BY <1>2, EvidenceAssumption DEF CreateRedaction, Free, Available
<1>3. ASSUME NEW c \in Threads, NEW x \in Redactions, PreviewRedaction(c, x)
      PROVE UnlinkedAreRaced'
  BY Zenon, <1>3, EvidenceAssumption DEF PreviewRedaction, Free, Available
<1>4. ASSUME NEW c \in Threads, NEW x \in Artifacts, DeleteArtifact(c, x)  PROVE UnlinkedAreRaced'
  BY <1>4, EvidenceAssumption DEF DeleteArtifact, Free
<1>5. ASSUME NEW c \in Workers, Look(c)  PROVE UnlinkedAreRaced'
  BY Zenon, <1>5, EvidenceAssumption DEF Look, Looked
<1>6. ASSUME NEW c \in Workers, Verify(c)  PROVE UnlinkedAreRaced'
  BY <1>6, EvidenceAssumption DEF Verify, StorageFailed
<1>7. ASSUME NEW c \in Workers, Write(c)  PROVE UnlinkedAreRaced'
  BY Zenon, <1>7, EvidenceAssumption DEF Write, Stored
<1>8. ASSUME NEW c \in Workers, Insert(c)  PROVE UnlinkedAreRaced'
  BY <1>8, EvidenceAssumption DEF Insert, Commit, Losing
<1>9. ASSUME NEW c \in Workers, ReadSource(c)  PROVE UnlinkedAreRaced'
  BY <1>9, EvidenceAssumption DEF ReadSource, StorageFailed
<1>10. ASSUME NEW c \in Workers, ReadPreview(c)  PROVE UnlinkedAreRaced'
  BY <1>10, EvidenceAssumption DEF ReadPreview, StorageFailed
<1>11. ASSUME NEW c \in Workers, Execute(c)  PROVE UnlinkedAreRaced'
  BY <1>11, EvidenceAssumption DEF Execute, ActiveReferences
<1>12. ASSUME NEW c \in Workers, LookUnlink(c)  PROVE UnlinkedAreRaced'
  BY <1>12, EvidenceAssumption DEF LookUnlink
<1>13. ASSUME NEW c \in Workers, Unlink(c)  PROVE UnlinkedAreRaced'
  BY <1>13, EvidenceAssumption DEF Unlink, StorageFailed
<1>14. ASSUME NEW c \in Workers, Complete(c)  PROVE UnlinkedAreRaced'
  BY <1>14, EvidenceAssumption DEF Complete
<1>15. ASSUME NEW c \in Workers, WriteFault(c)  PROVE UnlinkedAreRaced'
  BY Zenon, <1>15, EvidenceAssumption DEF WriteFault, Stored, StorageFailed, Fault
<1>16. ASSUME NEW c \in Workers, ReadFault(c)  PROVE UnlinkedAreRaced'
  BY Zenon, <1>16, EvidenceAssumption DEF ReadFault, StorageFailed, Fault
<1>17. ASSUME NEW c \in Workers, UnlinkFault(c)  PROVE UnlinkedAreRaced'
  BY <1>17, EvidenceAssumption DEF UnlinkFault, StorageFailed, Fault
<1>18. ASSUME NEW x \in Artifacts, RecoverDeletion(x)  PROVE UnlinkedAreRaced'
  BY Zenon, <1>18, EvidenceAssumption DEF RecoverDeletion, Recoverable
<1>19. ASSUME Crash  PROVE UnlinkedAreRaced'
  BY Zenon, <1>19, EvidenceAssumption DEF Crash
<1>20. ASSUME Boot  PROVE UnlinkedAreRaced'
  BY Zenon, <1>20, EvidenceAssumption DEF Boot
<1>21. ASSUME Serve  PROVE UnlinkedAreRaced'
  BY Zenon, <1>21, EvidenceAssumption DEF Serve
<1>22. ASSUME CloseWorkflow  PROVE UnlinkedAreRaced'
  BY <1>22, EvidenceAssumption DEF CloseWorkflow
<1>23. ASSUME UNCHANGED vars  PROVE UnlinkedAreRaced'
  BY Zenon, <1>23 DEF vars
<1> HIDE DEF Goes, Step, Idle, store, rows, deletions, process,
           TypeOK, CallsBound, UnlinkedAreRaced, Workers, Unfinished
<1> QED  BY ZenonT(60), <1>1, <1>2, <1>3, <1>4, <1>5, <1>6, <1>7, <1>8, <1>9, <1>10,
             <1>11, <1>12,
             <1>13, <1>14, <1>15, <1>16, <1>17, <1>18, <1>19, <1>20, <1>21, <1>22, <1>23
          DEF Next, Proceed, Recover

\* While a file outlives the requests of all its artifacts, one of them has a
\* deletion that nobody is about to complete: it will find no reference.
SomeoneErases ==
    \A d \in Digests \ rewritten :
        d \in blobs /\ (\E a \in Artifacts : row[a] = d)
                    /\ (\A a \in Artifacts : row[a] = d => deletion[a] # "none") =>
            \E a \in Artifacts :
                /\ row[a] = d /\ deletion[a] \in Unfinished
                /\ \A c \in Workers : call[c].pc = "complete" => call[c].artifact # a

\* A file reported gone, or about to be, is gone.
GoneIsGone ==
    /\ \A a \in Artifacts :
          disposition[a] = "gone" => row[a] \in rewritten \/ row[a] \notin blobs
    /\ \A c \in Workers :
          call[c].pc = "complete" /\ call[c].out = "gone" =>
              call[c].digest \in rewritten \/ call[c].digest \notin blobs

\* The inductive invariant.
IInv ==
    TypeOK /\ CallsBound /\ UnlinkedAreRaced /\ UnracedKeepsContent /\ SomeoneErases /\ GoneIsGone

\* No step takes the content of an artifact that was not raced.
LEMMA KeepsStep ==
    ASSUME TypeOK, CallsBound, UnlinkedAreRaced, UnracedKeepsContent, [Next]_vars
    PROVE  UnracedKeepsContent'
<1> USE DEF Goes, Step, Idle, store, rows, deletions, process,
           TypeOK, CallsBound, UnlinkedAreRaced, UnracedKeepsContent, Available, Workers, Unfinished
<1>1. ASSUME NEW c \in Threads, NEW x \in Originals, NEW d \in Digests, CreateOriginal(c, x, d)
      PROVE UnracedKeepsContent'
  BY Zenon, <1>1, EvidenceAssumption DEF CreateOriginal, Free, Looked
<1>2. ASSUME NEW c \in Threads, NEW x \in Redactions, NEW d \in Digests, CreateRedaction(c, x, d)
      PROVE UnracedKeepsContent'
  BY Zenon, <1>2, EvidenceAssumption DEF CreateRedaction, Free, Available
<1>3. ASSUME NEW c \in Threads, NEW x \in Redactions, PreviewRedaction(c, x)
      PROVE UnracedKeepsContent'
  BY Zenon, <1>3, EvidenceAssumption DEF PreviewRedaction, Free, Available
<1>4. ASSUME NEW c \in Threads, NEW x \in Artifacts, DeleteArtifact(c, x)
      PROVE UnracedKeepsContent'
  BY Zenon, <1>4, EvidenceAssumption DEF DeleteArtifact, Free
<1>5. ASSUME NEW c \in Workers, Look(c)  PROVE UnracedKeepsContent'
  BY Zenon, <1>5, EvidenceAssumption DEF Look, Looked
<1>6. ASSUME NEW c \in Workers, Verify(c)  PROVE UnracedKeepsContent'
  BY Zenon, <1>6, EvidenceAssumption DEF Verify, StorageFailed
<1>7. ASSUME NEW c \in Workers, Write(c)  PROVE UnracedKeepsContent'
  BY Zenon, <1>7, EvidenceAssumption DEF Write, Stored
<1>8. ASSUME NEW c \in Workers, Insert(c)  PROVE UnracedKeepsContent'
  BY <1>8, EvidenceAssumption DEF Insert, Commit, Losing
<1>9. ASSUME NEW c \in Workers, ReadSource(c)  PROVE UnracedKeepsContent'
  BY Zenon, <1>9, EvidenceAssumption DEF ReadSource, StorageFailed
<1>10. ASSUME NEW c \in Workers, ReadPreview(c)  PROVE UnracedKeepsContent'
  BY Zenon, <1>10, EvidenceAssumption DEF ReadPreview, StorageFailed
<1>11. ASSUME NEW c \in Workers, Execute(c)  PROVE UnracedKeepsContent'
  BY <1>11, EvidenceAssumption DEF Execute, ActiveReferences
<1>12. ASSUME NEW c \in Workers, LookUnlink(c)  PROVE UnracedKeepsContent'
  BY Zenon, <1>12, EvidenceAssumption DEF LookUnlink
<1>13. ASSUME NEW c \in Workers, Unlink(c)  PROVE UnracedKeepsContent'
  BY <1>13, EvidenceAssumption DEF Unlink, StorageFailed
<1>14. ASSUME NEW c \in Workers, Complete(c)  PROVE UnracedKeepsContent'
  BY <1>14, EvidenceAssumption DEF Complete
<1>15. ASSUME NEW c \in Workers, WriteFault(c)  PROVE UnracedKeepsContent'
  BY Zenon, <1>15, EvidenceAssumption DEF WriteFault, Stored, StorageFailed, Fault
<1>16. ASSUME NEW c \in Workers, ReadFault(c)  PROVE UnracedKeepsContent'
  BY Zenon, <1>16, EvidenceAssumption DEF ReadFault, StorageFailed, Fault
<1>17. ASSUME NEW c \in Workers, UnlinkFault(c)  PROVE UnracedKeepsContent'
  BY Zenon, <1>17, EvidenceAssumption DEF UnlinkFault, StorageFailed, Fault
<1>18. ASSUME NEW x \in Artifacts, RecoverDeletion(x)  PROVE UnracedKeepsContent'
  BY Zenon, <1>18, EvidenceAssumption DEF RecoverDeletion, Recoverable
<1>19. ASSUME Crash  PROVE UnracedKeepsContent'
  BY Zenon, <1>19, EvidenceAssumption DEF Crash
<1>20. ASSUME Boot  PROVE UnracedKeepsContent'
  BY Zenon, <1>20, EvidenceAssumption DEF Boot
<1>21. ASSUME Serve  PROVE UnracedKeepsContent'
  BY Zenon, <1>21, EvidenceAssumption DEF Serve
<1>22. ASSUME CloseWorkflow  PROVE UnracedKeepsContent'
  BY Zenon, <1>22, EvidenceAssumption DEF CloseWorkflow
<1>23. ASSUME UNCHANGED vars  PROVE UnracedKeepsContent'
  BY Zenon, <1>23 DEF vars
<1> HIDE DEF Goes, Step, Idle, store, rows, deletions, process,
           TypeOK, CallsBound, UnlinkedAreRaced, UnracedKeepsContent, Available, Workers, Unfinished
<1> QED  BY ZenonT(60), <1>1, <1>2, <1>3, <1>4, <1>5, <1>6, <1>7, <1>8, <1>9, <1>10,
             <1>11, <1>12,
             <1>13, <1>14, <1>15, <1>16, <1>17, <1>18, <1>19, <1>20, <1>21, <1>22, <1>23
          DEF Next, Proceed, Recover

\* A file reported gone comes back only by being stored again.
LEMMA GoneStep ==
    ASSUME TypeOK, CallsBound, GoneIsGone, [Next]_vars
    PROVE  GoneIsGone'
<1> USE DEF Goes, Step, Idle, store, rows, deletions, process,
           TypeOK, CallsBound, GoneIsGone, Workers, Unfinished
<1>1. ASSUME NEW c \in Threads, NEW x \in Originals, NEW d \in Digests, CreateOriginal(c, x, d)
      PROVE GoneIsGone'
  BY Zenon, <1>1, EvidenceAssumption DEF CreateOriginal, Free, Looked
<1>2. ASSUME NEW c \in Threads, NEW x \in Redactions, NEW d \in Digests, CreateRedaction(c, x, d)
      PROVE GoneIsGone'
  BY Zenon, <1>2, EvidenceAssumption DEF CreateRedaction, Free, Available
<1>3. ASSUME NEW c \in Threads, NEW x \in Redactions, PreviewRedaction(c, x)  PROVE GoneIsGone'
  BY Zenon, <1>3, EvidenceAssumption DEF PreviewRedaction, Free, Available
<1>4. ASSUME NEW c \in Threads, NEW x \in Artifacts, DeleteArtifact(c, x)  PROVE GoneIsGone'
  BY Zenon, <1>4, EvidenceAssumption DEF DeleteArtifact, Free
<1>5. ASSUME NEW c \in Workers, Look(c)  PROVE GoneIsGone'
  BY Zenon, <1>5, EvidenceAssumption DEF Look, Looked
<1>6. ASSUME NEW c \in Workers, Verify(c)  PROVE GoneIsGone'
  BY <1>6, EvidenceAssumption DEF Verify, StorageFailed
<1>7. ASSUME NEW c \in Workers, Write(c)  PROVE GoneIsGone'
  BY <1>7, EvidenceAssumption DEF Write, Stored
<1>8. ASSUME NEW c \in Workers, Insert(c)  PROVE GoneIsGone'
  BY <1>8, EvidenceAssumption DEF Insert, Commit, Losing
<1>9. ASSUME NEW c \in Workers, ReadSource(c)  PROVE GoneIsGone'
  BY <1>9, EvidenceAssumption DEF ReadSource, StorageFailed
<1>10. ASSUME NEW c \in Workers, ReadPreview(c)  PROVE GoneIsGone'
  BY <1>10, EvidenceAssumption DEF ReadPreview, StorageFailed
<1>11. ASSUME NEW c \in Workers, Execute(c)  PROVE GoneIsGone'
  BY <1>11, EvidenceAssumption DEF Execute, ActiveReferences
<1>12. ASSUME NEW c \in Workers, LookUnlink(c)  PROVE GoneIsGone'
  BY Zenon, <1>12, EvidenceAssumption DEF LookUnlink
<1>13. ASSUME NEW c \in Workers, Unlink(c)  PROVE GoneIsGone'
  BY <1>13, EvidenceAssumption DEF Unlink, StorageFailed
<1>14. ASSUME NEW c \in Workers, Complete(c)  PROVE GoneIsGone'
  BY <1>14, EvidenceAssumption DEF Complete
<1>15. ASSUME NEW c \in Workers, WriteFault(c)  PROVE GoneIsGone'
  BY <1>15, EvidenceAssumption DEF WriteFault, Stored, StorageFailed, Fault
<1>16. ASSUME NEW c \in Workers, ReadFault(c)  PROVE GoneIsGone'
  BY Zenon, <1>16, EvidenceAssumption DEF ReadFault, StorageFailed, Fault
<1>17. ASSUME NEW c \in Workers, UnlinkFault(c)  PROVE GoneIsGone'
  BY Zenon, <1>17, EvidenceAssumption DEF UnlinkFault, StorageFailed, Fault
<1>18. ASSUME NEW x \in Artifacts, RecoverDeletion(x)  PROVE GoneIsGone'
  BY Zenon, <1>18, EvidenceAssumption DEF RecoverDeletion, Recoverable
<1>19. ASSUME Crash  PROVE GoneIsGone'
  BY Zenon, <1>19, EvidenceAssumption DEF Crash
<1>20. ASSUME Boot  PROVE GoneIsGone'
  BY Zenon, <1>20, EvidenceAssumption DEF Boot
<1>21. ASSUME Serve  PROVE GoneIsGone'
  BY Zenon, <1>21, EvidenceAssumption DEF Serve
<1>22. ASSUME CloseWorkflow  PROVE GoneIsGone'
  BY Zenon, <1>22, EvidenceAssumption DEF CloseWorkflow
<1>23. ASSUME UNCHANGED vars  PROVE GoneIsGone'
  BY Zenon, <1>23 DEF vars
<1> HIDE DEF Goes, Step, Idle, store, rows, deletions, process,
           TypeOK, CallsBound, GoneIsGone, Workers, Unfinished
<1> QED  BY ZenonT(60), <1>1, <1>2, <1>3, <1>4, <1>5, <1>6, <1>7, <1>8, <1>9, <1>10,
             <1>11, <1>12,
             <1>13, <1>14, <1>15, <1>16, <1>17, <1>18, <1>19, <1>20, <1>21, <1>22, <1>23
          DEF Next, Proceed, Recover

\* The last request to a file is never completed before the file is gone.
LEMMA ErasesStep ==
    ASSUME TypeOK, CallsBound, SomeoneErases, [Next]_vars
    PROVE  SomeoneErases'
<1> USE DEF Goes, Step, Idle, store, rows, deletions, process,
           TypeOK, CallsBound, SomeoneErases, Workers, Unfinished
<1>1. ASSUME NEW c \in Threads, NEW x \in Originals, NEW d \in Digests, CreateOriginal(c, x, d)
      PROVE SomeoneErases'
  BY <1>1, EvidenceAssumption DEF CreateOriginal, Free, Looked
<1>2. ASSUME NEW c \in Threads, NEW x \in Redactions, NEW d \in Digests, CreateRedaction(c, x, d)
      PROVE SomeoneErases'
  BY <1>2, EvidenceAssumption DEF CreateRedaction, Free, Available
<1>3. ASSUME NEW c \in Threads, NEW x \in Redactions, PreviewRedaction(c, x)  PROVE SomeoneErases'
  BY <1>3, EvidenceAssumption DEF PreviewRedaction, Free, Available
<1>4. ASSUME NEW c \in Threads, NEW x \in Artifacts, DeleteArtifact(c, x)  PROVE SomeoneErases'
  BY <1>4, EvidenceAssumption DEF DeleteArtifact, Free
<1>5. ASSUME NEW c \in Workers, Look(c)  PROVE SomeoneErases'
  BY <1>5, EvidenceAssumption DEF Look, Looked
<1>6. ASSUME NEW c \in Workers, Verify(c)  PROVE SomeoneErases'
  BY <1>6, EvidenceAssumption DEF Verify, StorageFailed
<1>7. ASSUME NEW c \in Workers, Write(c)  PROVE SomeoneErases'
  BY <1>7, EvidenceAssumption DEF Write, Stored
<1>8. ASSUME NEW c \in Workers, Insert(c)  PROVE SomeoneErases'
  BY <1>8, EvidenceAssumption DEF Insert, Commit, Losing
<1>9. ASSUME NEW c \in Workers, ReadSource(c)  PROVE SomeoneErases'
  BY <1>9, EvidenceAssumption DEF ReadSource, StorageFailed
<1>10. ASSUME NEW c \in Workers, ReadPreview(c)  PROVE SomeoneErases'
  BY <1>10, EvidenceAssumption DEF ReadPreview, StorageFailed
<1>11. ASSUME NEW c \in Workers, Execute(c)  PROVE SomeoneErases'
  BY <1>11, EvidenceAssumption DEF Execute, ActiveReferences
<1>12. ASSUME NEW c \in Workers, LookUnlink(c)  PROVE SomeoneErases'
  BY <1>12, EvidenceAssumption DEF LookUnlink
<1>13. ASSUME NEW c \in Workers, Unlink(c)  PROVE SomeoneErases'
  BY <1>13, EvidenceAssumption DEF Unlink, StorageFailed
<1>14. ASSUME NEW c \in Workers, Complete(c)  PROVE SomeoneErases'
  BY <1>14, EvidenceAssumption DEF Complete
<1>15. ASSUME NEW c \in Workers, WriteFault(c)  PROVE SomeoneErases'
  BY <1>15, EvidenceAssumption DEF WriteFault, Stored, StorageFailed, Fault
<1>16. ASSUME NEW c \in Workers, ReadFault(c)  PROVE SomeoneErases'
  BY <1>16, EvidenceAssumption DEF ReadFault, StorageFailed, Fault
<1>17. ASSUME NEW c \in Workers, UnlinkFault(c)  PROVE SomeoneErases'
  BY <1>17, EvidenceAssumption DEF UnlinkFault, StorageFailed, Fault
<1>18. ASSUME NEW x \in Artifacts, RecoverDeletion(x)  PROVE SomeoneErases'
  BY <1>18, EvidenceAssumption DEF RecoverDeletion, Recoverable
<1>19. ASSUME Crash  PROVE SomeoneErases'
  BY <1>19, EvidenceAssumption DEF Crash
<1>20. ASSUME Boot  PROVE SomeoneErases'
  BY <1>20, EvidenceAssumption DEF Boot
<1>21. ASSUME Serve  PROVE SomeoneErases'
  BY <1>21, EvidenceAssumption DEF Serve
<1>22. ASSUME CloseWorkflow  PROVE SomeoneErases'
  BY <1>22, EvidenceAssumption DEF CloseWorkflow
<1>23. ASSUME UNCHANGED vars  PROVE SomeoneErases'
  BY <1>23 DEF vars
<1> HIDE DEF Goes, Step, Idle, store, rows, deletions, process,
           TypeOK, CallsBound, SomeoneErases, Workers, Unfinished
<1> QED  BY ZenonT(60), <1>1, <1>2, <1>3, <1>4, <1>5, <1>6, <1>7, <1>8, <1>9, <1>10,
             <1>11, <1>12,
             <1>13, <1>14, <1>15, <1>16, <1>17, <1>18, <1>19, <1>20, <1>21, <1>22, <1>23
          DEF Next, Proceed, Recover

\* Nothing is stored at first.
LEMMA InitInv == Init => IInv
<1> SUFFICES ASSUME Init PROVE IInv
  OBVIOUS
<1> USE DEF Init, Idle, Step
<1>1. open \in BOOLEAN /\ stopped \in BOOLEAN
  BY Zenon
<1>2. TypeOK
  BY <1>1, EvidenceAssumption DEF TypeOK, Unfinished, Dispositions
<1>3. CallsBound /\ UnlinkedAreRaced /\ GoneIsGone
  BY Zenon DEF CallsBound, UnlinkedAreRaced, GoneIsGone
<1>4. UnracedKeepsContent /\ SomeoneErases
  BY Zenon, EvidenceAssumption DEF UnracedKeepsContent, SomeoneErases, Available
<1> QED  BY Zenon, <1>2, <1>3, <1>4 DEF IInv

\* The conjunction of the lemmas above is an invariant.
THEOREM EvidenceInductive == Spec => []IInv
<1>1. IInv /\ [Next]_vars => IInv'
  BY Zenon, TypeStep, BoundStep, RacedStep, KeepsStep, GoneStep, ErasesStep DEF IInv
<1> QED  BY InitInv, <1>1, PTL DEF Spec

\* Content is lost only to a commit that overlaps the unlink of its file, for
\* any number of threads, artifacts, crashes and failing file operations.
THEOREM ContentKept == Spec => []UnracedKeepsContent
<1>1. IInv => UnracedKeepsContent
  BY Zenon DEF IInv
<1> QED  BY EvidenceInductive, <1>1, PTL

\* What was deleted is gone, and reported so truly, unless it was stored again.
THEOREM DeletedIsErased == Spec => []DeletionErases
<1>1. IInv => DeletionErases
  <2> SUFFICES ASSUME IInv PROVE DeletionErases
    OBVIOUS
  <2> SUFFICES ASSUME NEW d \in Digests \ rewritten, d \in blobs
               PROVE  /\ ~ \E a \in Artifacts : row[a] = d /\ disposition[a] = "gone"
                      /\ (\E a \in Artifacts : row[a] = d) =>
                             \E a \in Artifacts : row[a] = d /\ deletion[a] # "completed"
    BY Zenon DEF DeletionErases
  <2>1. ~ \E a \in Artifacts : row[a] = d /\ disposition[a] = "gone"
    BY Zenon DEF IInv, GoneIsGone
  <2>2. (\E a \in Artifacts : row[a] = d) =>
          \E a \in Artifacts : row[a] = d /\ deletion[a] # "completed"
    BY Zenon DEF IInv, SomeoneErases, Unfinished
  <2> QED  BY Zenon, <2>1, <2>2
<1> QED  BY EvidenceInductive, <1>1, PTL
=============================================================================
