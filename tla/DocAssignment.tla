---------------------------- MODULE DocAssignment ----------------------------
(***************************************************************************)
(* What the map of doc workers (IDocWorkerMap) promises to the servers     *)
(* that use it: a document has at most one worker, and that worker is      *)
(* known; it only gets another after it was taken from the first.  No      *)
(* lock, and no record but these two.                                      *)
(***************************************************************************)
CONSTANTS Workers, Docs, NoWorker

VARIABLES
    known,   \* the workers whose contact information can be found
    holder   \* the worker of each document, or NoWorker

vars == <<known, holder>>

Init == known = {} /\ holder = [d \in Docs |-> NoWorker]

\* addWorker
Register(w) == known' = known \cup {w} /\ UNCHANGED holder

\* assignDocWorker
Grant(d, w) ==
    /\ holder[d] = NoWorker
    /\ w \in known
    /\ holder' = [holder EXCEPT ![d] = w]
    /\ UNCHANGED known

\* releaseAssignment, and what removeWorker does first: documents are taken from
\* whoever has them.
GiveBack(docs) ==
    /\ holder' = [d \in Docs |-> IF d \in docs THEN NoWorker ELSE holder[d]]
    /\ UNCHANGED known

\* removeWorker, in the end: no document is left to the worker.
Remove(w) ==
    /\ \A d \in Docs : holder[d] # w
    /\ known' = known \ {w}
    /\ UNCHANGED holder

Next ==
    \/ \E w \in Workers : Register(w) \/ Remove(w)
    \/ \E docs \in SUBSET Docs : GiveBack(docs)
    \/ \E d \in Docs, w \in Workers : Grant(d, w)

Spec == Init /\ [][Next]_vars
=============================================================================
