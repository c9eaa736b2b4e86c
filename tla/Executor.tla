------------------------------- MODULE Executor -------------------------------
(***************************************************************************)
(* Executor.run executes a step of either kind: a model step, or the tool  *)
(* steps of a decision.  The two kinds share no state but the event loop.  *)
(***************************************************************************)
EXTENDS ToolPolicy, ModelSteps

VARIABLE step    \* which kind the orchestrator asked for: model or tools

all == <<step, vars, modelVars>>

\* A tool step has neither a route nor a listener: one value stands for all.
ExecutorInit ==
    /\ step \in {"model", "tools"}
    /\ Init
    /\ ModelInit
    /\ step = "tools" => ~listening /\ route = CHOOSE r \in Routes : TRUE

ExecutorNext ==
    /\ \/ step = "tools" /\ Next /\ UNCHANGED modelVars
       \/ step = "model" /\ ModelNext /\ UNCHANGED vars
    /\ UNCHANGED step

-----------------------------------------------------------------------------
(* The event loop and the pool go on, deadlines pass, a function that      *)
(* cannot hang comes to its end, and a provider answers or its client      *)
(* raises: nothing in the executor bounds the time of a model call.        *)

OfTools(A) == step = "tools" /\ A /\ UNCHANGED <<step, modelVars>>
OfModel(A) == step = "model" /\ A /\ UNCHANGED <<step, vars>>

ExecutorFairness ==
    /\ \A c \in Calls :
          /\ WF_all(OfTools(Vet(c))) /\ WF_all(OfTools(TimeOut(c)))
          /\ WF_all(OfTools(Wake(c))) /\ WF_all(OfTools(Screen(c)))
          /\ c \notin Hangs =>
                /\ WF_all(OfTools(Return(c) \/ Raise(c)))
                /\ WF_all(OfTools(\E j \in running : j.call = c /\ Drop(j)))
    /\ WF_all(OfTools(\E j \in queued : Start(j)))
    /\ WF_all(OfTools(File)) /\ WF_all(OfTools(Appended))
    /\ WF_all(OfModel(Ask)) /\ WF_all(OfModel(Stop)) /\ WF_all(OfModel(Retry))
    /\ WF_all(OfModel(Lose \/ GiveUp \/ Record))

ExecutorSpec == ExecutorInit /\ [][ExecutorNext]_all /\ ExecutorFairness

\* The batch is recorded or cancelled in the end, although some functions
\* hang: their timeouts answer for them, and their threads leave one for the
\* store.
ToolsFiled == step = "tools" ~> batch \in {"filed", "cancelled"}
=============================================================================
