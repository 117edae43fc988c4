--------------------------- MODULE ReleaseContexts ---------------------------
(***************************************************************************)
(* Authorities reading the context of decisions while the service goes on  *)
(* deciding, resolving and restarting.                                     *)
(***************************************************************************)
EXTENDS ReleaseSafety, ContextReads

\* A step of the service that is no restart, which no reader takes part in.
ServiceStep ==
    /\ \/ \E r \in Requests : Authorize(r)
       \/ \E h \in Resolves : Resolve(h)
       \/ \E c \in Claims : Claim(c)
       \/ \E e \in Edits : Edit(e)
       \/ Configure
       \/ TokenExpires
       \/ CallLost
       \/ Quiescent
    /\ UNCHANGED contextVars

ContextsNext ==
    \/ ServiceStep
    \/ \E x \in Readers : ContextStep(x) /\ UNCHANGED vars
    \/ Restart /\ ContextsStop

ContextsSpec == Init /\ ContextInit /\ [][ContextsNext]_<<vars, contextVars>>

-----------------------------------------------------------------------------
\* While callers never reuse a transaction id, each complete context shows
\* one release: the transaction, the plan and the evidence its decision was
\* made on, and a receipt of that very decision whose token is the
\* decision's own, although five reads went into it with resolutions,
\* restarts and the release's own last save between them.
ContextsConsistent ==
    TxIdsUnique =>
        \A x \in Readers : \A i \in 1 .. filled[x] :
            LET c == page[x][i]
            IN  /\ c.transaction = body[c.id]
                /\ c.evidence = c.decision.summary
                /\ c.plan = plan[c.id]
                /\ c.receipt # None =>
                      /\ c.receipt.tx = c.decision.tx
                      /\ c.receipt.outcome = c.decision.verdict.outcome
                      /\ c.receipt.token # None => tokens[c.receipt.token].decision = c.id
=============================================================================
