--------------------------- MODULE DurableDocument ---------------------------
(***************************************************************************)
(* What the storage manager (IDocStorageManager) promises to those who     *)
(* open a hosted document: one worker at a time has it open, and whatever  *)
(* a flush has reported as backed up is in every copy opened from then on. *)
(* There is no store here, no copy on a disk, no checksum and no push.     *)
(***************************************************************************)
CONSTANTS Workers, Edits, Nothing

VARIABLES
    open,   \* per worker, the edits in its open copy, or Nothing
    saved   \* the edits that are promised to stay

vars == <<open, saved>>

Init == open = [w \in Workers |-> Nothing] /\ saved = {}

\* prepareLocalDoc
Open(w) ==
    /\ \A v \in Workers : open[v] = Nothing
    /\ \E content \in SUBSET Edits :
          saved \subseteq content /\ open' = [open EXCEPT ![w] = content]
    /\ UNCHANGED saved

Edit(w, e) ==
    /\ open[w] # Nothing
    /\ open' = [open EXCEPT ![w] = @ \cup {e}]
    /\ UNCHANGED saved

\* flushDoc
Flush(w) ==
    /\ open[w] # Nothing
    /\ saved' = saved \cup open[w]
    /\ UNCHANGED open

\* closeDocument, which ends with a flush, or a crash.
Close(w) ==
    /\ open[w] # Nothing
    /\ open' = [open EXCEPT ![w] = Nothing]
    /\ saved' \in {saved, saved \cup open[w]}

Next == \E w \in Workers : Open(w) \/ Flush(w) \/ Close(w) \/ \E e \in Edits : Edit(w, e)

Spec == Init /\ [][Next]_vars
=============================================================================
