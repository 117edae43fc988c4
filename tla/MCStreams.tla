------------------------------ MODULE MCStreams ------------------------------
(***************************************************************************)
(* A small instance of what carries a release and what lies under it:      *)
(* streams and the agents they consult, and the worker of the store.  The  *)
(* two are systems of their own over one set of values: a behaviour takes  *)
(* `part` in one of them and leaves the other as it starts.                *)
(***************************************************************************)
EXTENDS MCRelease, StreamedRelease, StoreWorker

CONSTANTS q1, q2, q3  \* calls of the store

VARIABLE part

streamSide == <<vars, agentVars, streamVars>>
everything == <<part, streamSide, storeWorkerVars>>

\* A plain and a restricted release of alice's, one of bob's, who has no
\* binding, and an action without a policy.
MCReleases ==
    {Release(tx1, alice, "GENERAL", crate1), Release(tx2, alice, "HAZARDOUS", crate2),
     Release(tx1, bob, "GENERAL", crate1),
     [Release(tx2, alice, "GENERAL", crate2) EXCEPT !.action = "INSPECT_CARGO"]}

MCTools == {"location-retrieval", "device-status", "made-up"}
MCServedTools == {"location-retrieval", "device-status"}
MCAllowlist == {"location-retrieval"}

Unread == [k \in SupportedCapabilities |-> "true"]

Held == [tx |-> tx1, verdict |-> [outcome |-> "HOLD", authority |-> "ROLE_SAFETY_OFFICER",
                                  caveat |-> FALSE],
         summary |-> Unread, resolution |-> None]

\* A hold, the hold resolved, and a denial.
MCSaves ==
    {[id |-> r1, record |-> Held],
     [id |-> r1, record |-> [Held EXCEPT
         !.resolution = [outcome |-> "APPROVE", by |-> "ROLE_SAFETY_OFFICER"]]],
     [id |-> r2, record |-> [tx |-> tx1, verdict |-> PlainDenial, summary |-> None,
                             resolution |-> None]]}

\* The newest hold.
MCListings == {[outcome |-> "HOLD", limit |-> 1]}

-----------------------------------------------------------------------------
(* The two parts, each with its bounds. *)

StreamsInit ==
    /\ part \in {"stream", "worker"}
    /\ Init
    /\ AgentInit
    /\ StreamInit
    /\ WorkerInit

\* Bound: one streamed request.
Streams ==
    /\ part = "stream"
    /\ StreamNext
    /\ rpc'[r2] = "idle"
    /\ UNCHANGED <<part, storeWorkerVars>>

\* Bounds: one call is a listing, and the calls, which are alike, come in
\* their order.
Works ==
    /\ part = "worker"
    /\ WorkerNext
    /\ asked'[q2] # None => asked'[q1] # None
    /\ asked'[q3] # None => asked'[q2] # None
    /\ Cardinality({q \in StoreCalls : asked'[q] \in ListOps}) < 2
    /\ UNCHANGED <<part, streamSide>>

StreamsNext == Streams \/ Works

StreamsSpec ==
    /\ StreamsInit /\ [][StreamsNext]_everything
    /\ StreamFairness /\ WorkerFairness
=============================================================================
