----------------------------- MODULE MCProgress -----------------------------
(* Work that must end, for TLC: ProviderTurn, with two processes that may     *)
(* build two requests for one OpenAI turn, or that retry an OpenAI or a       *)
(* Gemini turn; DurableJobs, with one runtime that stays open.  A behaviour   *)
(* is of one of these parts; the variables of the other stay as they are.     *)
EXTENDS ProviderTurn

CONSTANTS
    Parts, r1, r2,
    Workers, Pids, Intents, Profiles, pa, Supervisors, Profile, JobSites, MaxCrashes

VARIABLES
    part,
    spec, state, cursor, claim, heartbeat, cancelMarker,
    jsite, published, spc, op, snap, seenSeq, seenFresh, seenClaim, suspect, closed,
    wpc, pid, parent, child, beating, verdict, crashes, calls, cancelledWhileQueued

jvars == <<jsite, spec, state, cursor, claim, heartbeat, cancelMarker, published,
           spc, op, snap, seenSeq, seenFresh, seenClaim, suspect, closed,
           wpc, pid, parent, child, beating, verdict, crashes, calls, cancelledWhileQueued>>
all == <<part, vars, jvars>>

OpenAI(m, R, A) == [provider |-> "openai", modes |-> m, requests |-> R, budgets |-> {1},
                    answers |-> A]
Retried == {OpenAI({"enforce"}, {r1}, {"ok", "status_429", "previous_response"})}
MCSites ==
    Retried \cup
    {OpenAI({"enforce", "off"}, {r1, r2}, {"ok", "dropped"}),
     [provider |-> "gemini", modes |-> {"enforce"}, requests |-> {r1}, budgets |-> {3},
      answers |-> {"ok", "status_503"}]}
MCCatalogOf == [r \in Requests |-> "tools"]

ASSUME ProviderAssumption == SitesFit

MCProfile == [s \in Supervisors |-> pa]
Steady == {[active |-> Supervisors, closers |-> {}, maxHeartbeats |-> 0, maxCalls |-> 0]}

D == INSTANCE DurableJobs WITH Sites <- JobSites, site <- jsite

MCInit ==
    /\ part \in Parts
    /\ Init /\ (part = "provider" \/ site = CHOOSE s \in Sites : TRUE)
    /\ D!Init

MCNext ==
    /\ UNCHANGED part
    /\ \/ part = "provider" /\ Next /\ UNCHANGED jvars
       \/ part = "jobs" /\ D!Next /\ UNCHANGED vars

MCSpec == MCInit /\ [][MCNext]_all

\* The fairness of each part, as its module states it; it asks nothing of a part
\* that stays in its initial state.
MCFairSpec == MCSpec /\ Fairness /\ D!Fairness

\* A job that somebody waits for has no terminal status; one of the two
\* interchangeable processes makes a provider call.
Busy ==
    CASE part = "jobs" -> published /\ ~D!Terminal(state)
      [] part = "provider" -> ~At(CHOOSE p \in Procs : TRUE, "idle")

\* Whatever is begun ends.  A job whose owner keeps waiting for it reaches a
\* terminal status, whatever crashes: by its worker, by a replacement worker,
\* or as outcome_unknown (_reconcile).  A provider call returns or raises:
\* retries are bounded and nobody waits for another process.
WorkEnds == Busy ~> ~Busy
=============================================================================
