------------------------------ MODULE MCStartup ------------------------------
(***************************************************************************)
(* Small instances of Startup and of ProjectCache.  The two share no state *)
(* but the budget of failures, and an instance of either is checked alone. *)
(***************************************************************************)
EXTENDS Startup

CONSTANTS Projects, Tenants, Readers, MaxMoves, Default

VARIABLES
  osac, projects, cache, reader, writer, left,
  part     \* the part of the system that runs

PC == INSTANCE ProjectCache

MCDirs == {[f \in Files |-> c] : c \in Contents}
MCRates == <<"uptime", "memory">>
MCQuotas == <<"uptime", "memory">>

projectVars == <<osac, projects, cache, reader, writer, left>>
mcVars == <<vars, projectVars, part>>

MCInit == part \in {"startup", "projects"} /\ Init /\ PC!Init

\* The versions of the rules directory are interchangeable, and so one of them is
\* deployed first.
FirstDir == CHOOSE d \in MCDirs : TRUE
FirstDirFirst ==
  (\A i \in Seeders : dir[i] = None) => \A i \in Seeders : dir'[i] \in {None, FirstDir}

MCNext ==
  \/ part = "startup" /\ Next /\ FirstDirFirst /\ UNCHANGED <<projectVars, part>>
  \/ part = "projects" /\ PC!Next /\ UNCHANGED <<rules, seeds, part>>

Starting(A) == part = "startup" /\ A /\ UNCHANGED <<projectVars, part>>
Looking(A) == part = "projects" /\ A /\ UNCHANGED <<rules, seeds, part>>

\* The fairness of FairSpec of Startup and of Fairness of ProjectCache.
MCSpec ==
  /\ MCInit /\ [][MCNext]_mcVars
  /\ \A e \in Engines :
       WF_mcVars(Starting(Booting(e))) /\ WF_mcVars(Starting(CheckRules(e) \/ ReloadRules(e)))
  /\ WF_mcVars(Looking(PC!ListProjects)) /\ \A r \in Readers : WF_mcVars(Looking(PC!StoreProject(r)))
  /\ \A w \in PC!Writers : WF_mcVars(Looking(PC!UpsertProject(w) \/ PC!DropCached(w)))

\* EventuallyCoherent of ProjectCache: from some time on the project that is
\* cached for a tenant is one of the tenant's projects, unless the tenant's last
\* project has moved to another tenant.
EventuallyCoherent == PC!EventuallyCoherent
==============================================================================
