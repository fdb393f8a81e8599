------------------------------- MODULE Agents -------------------------------
(***************************************************************************)
(* The table of agents and its dialog in the administrator's page          *)
(* AgentManagement.jsx; the page's inspector is in Inspector.  Answers     *)
(* come in any order, and a submit can be pressed again before the first   *)
(* is answered.                                                            *)
(*                                                                         *)
(* A definition marked "fault" is no part of the system: it is the bug a   *)
(* slip in the definition after it would be.                               *)
(***************************************************************************)
EXTENDS Naturals, FiniteSets

CONSTANTS
    Staff,    \* users who are agents or may become one
    MaxTasks  \* bound: requests under way

ASSUME AgentsAssumption == MaxTasks \in Nat

VARIABLES
    agents,      \* the agents the server has
    table,       \* agents: those the table lists
    isLoading,   \* the table is hidden by a spinner
    dialogMode,  \* "none", "create" or "edit"
    edited,      \* selectedAgent
    tasks,       \* requests under way
    outdated     \* history: a load was answered late, or a request failed

agentVars == <<agents, table, isLoading, dialogMode, edited, tasks, outdated>>

TaskNo(k) == k \in 1..MaxTasks /\ \A t \in tasks : t.no # k
Task(k, op, of) == [no |-> k, op |-> op, of |-> of, at |-> "asked", got |-> {}]

Begin(op, of) == \E k \in 1..MaxTasks :
    /\ TaskNo(k) /\ \A j \in 1..(k - 1) : ~TaskNo(j)
    /\ tasks' = tasks \cup {Task(k, op, of)}

----------------------------------------------------------------------------
(* What the administrator does; the dialog covers the page.                *)

(* The rows of the table, with their buttons, and what the dialog's form   *)
(* can hold when it is submitted.                                          *)
Offered(a)     == dialogMode = "none" /\ a \in table /\ ~isLoading
AvailableUsers == Staff \ table
FormData ==
    CASE dialogMode = "create" -> {{u} : u \in AvailableUsers}
      [] dialogMode = "edit"   -> {edited}
      [] OTHER                 -> {}

ReloadAgents ==
    /\ dialogMode = "none"
    /\ Begin("agents", {}) /\ isLoading' = TRUE
    /\ UNCHANGED <<agents, table, dialogMode, edited, outdated>>

OpenCreate ==
    /\ dialogMode = "none" /\ dialogMode' = "create" /\ edited' = {}
    /\ UNCHANGED <<agents, table, isLoading, tasks, outdated>>

OpenEdit(a) ==
    /\ Offered(a)
    /\ dialogMode' = "edit" /\ edited' = {a}
    /\ UNCHANGED <<agents, table, isLoading, tasks, outdated>>

CloseModal ==
    /\ dialogMode # "none" /\ dialogMode' = "none" /\ edited' = {}
    /\ UNCHANGED <<agents, table, isLoading, tasks, outdated>>

SubmitAgent ==
    /\ \E of \in FormData : Begin(dialogMode, of)
    /\ UNCHANGED <<agents, table, isLoading, dialogMode, edited, outdated>>

DeleteAgent(a) ==
    /\ Offered(a)
    /\ Begin("delete", {a}) /\ isLoading' = TRUE
    /\ UNCHANGED <<agents, table, dialogMode, edited, outdated>>

----------------------------------------------------------------------------
(* The server: an agent is created once, and changed or deleted while it   *)
(* is there.                                                               *)
Accepts(t) == t.op = "agents" \/ (t.op = "create" <=> t.of \cap agents = {})

ServeTask(t) ==
    /\ t.at = "asked"
    /\ tasks' = (tasks \ {t}) \cup {[t EXCEPT !.at = IF Accepts(t) THEN "done" ELSE "refused",
                                              !.got = IF t.op = "agents" THEN agents ELSE {}]}
    /\ agents' = IF ~Accepts(t) THEN agents
                 ELSE CASE t.op = "create" -> agents \cup t.of
                        [] t.op = "delete" -> agents \ t.of
                        [] OTHER           -> agents
    /\ UNCHANGED <<table, isLoading, dialogMode, edited, outdated>>

----------------------------------------------------------------------------
(* The answers.                                                            *)

AgentsLoaded(t) ==
    /\ t.op = "agents" /\ t.at = "done"
    /\ tasks' = tasks \ {t}
    /\ table' = t.got /\ isLoading' = FALSE
    /\ outdated' = (outdated \/ t.got # agents)
    /\ UNCHANGED <<agents, dialogMode, edited>>

(* What is saved closes whatever dialog is open, and loads the table.      *)
ThenNothing(t) == tasks' = tasks \ {t} /\ isLoading' = FALSE  \* fault
ThenLoad(t) ==
    /\ tasks' = (tasks \ {t}) \cup {Task(t.no, "agents", {})}
    /\ isLoading' = TRUE

AgentChanged(t) ==
    /\ t.op # "agents" /\ t.at = "done"
    /\ ThenLoad(t)
    /\ IF t.op = "delete" THEN UNCHANGED <<dialogMode, edited>> ELSE dialogMode' = "none" /\ edited' = {}
    /\ UNCHANGED <<agents, table, outdated>>

(* A request that is refused changes nothing; one that is lost may have.   *)
TaskFails(t) ==
    /\ tasks' = tasks \ {t}
    /\ outdated' = (outdated \/ t.at # "refused")
    /\ isLoading' = IF t.op \in {"agents", "delete"} THEN FALSE ELSE isLoading
    /\ UNCHANGED <<agents, table, dialogMode, edited>>

----------------------------------------------------------------------------

AgentsInit ==
    /\ agents \in SUBSET Staff /\ table = {}
    /\ isLoading = TRUE /\ tasks = {Task(1, "agents", {})}
    /\ dialogMode = "none" /\ edited = {} /\ outdated = FALSE

AgentsNext ==
    \/ ReloadAgents \/ OpenCreate \/ CloseModal \/ SubmitAgent
    \/ \E a \in Staff : OpenEdit(a) \/ DeleteAgent(a)
    \/ \E t \in tasks : ServeTask(t) \/ AgentsLoaded(t) \/ AgentChanged(t) \/ TaskFails(t)

AgentsSpec == AgentsInit /\ [][AgentsNext]_agentVars

----------------------------------------------------------------------------
(* Properties.                                                             *)

(* When no request is under way the table lists the server's agents, and   *)
(* no spinner hides it -- unless a list was answered after a change it did *)
(* not have, or an answer was lost (loadAgents).                           *)
TableFits == tasks = {} /\ ~outdated => table = agents /\ ~isLoading

=============================================================================
