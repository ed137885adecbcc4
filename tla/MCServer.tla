------------------------------ MODULE MCServer ------------------------------
(***************************************************************************)
(* TLC instance of what a tool call passes before its tool runs: admission *)
(* with the task table and the shutdown (ServerAdmission), and the roots,  *)
(* the workspace and the metadata it is given (WorkspaceSession).          *)
(*                                                                         *)
(* The two meet only in the order of a call's steps and in the token that  *)
(* a shutdown cancels, which WorkspaceSession has as a withdrawal at any   *)
(* point.  A behaviour therefore shows one of them, the subject, while the *)
(* other rests in its initial state.                                       *)
(***************************************************************************)
EXTENDS ServerAdmission, WorkspaceSession

VARIABLE subject

\* A configured root with a directory in it, a client that declares the root
\* above it or the directory, and two calls that take the only root.
Home == <<"h">>
Ws   == <<"h", "w">>
Below == <<"h", "w", "a">>
HomeTree == {Home, Ws, Below}
WsOnly == {Ws}
Declarations == {{Home}, {Below}}
OnlyRoot == {NoPath}

ServerInit ==
    /\ subject \in {"admission", "session"}
    /\ AdmissionInit /\ Init
    /\ subject = "admission" => (supports = FALSE /\ declared = {Home})

AdmissionStep == subject = "admission" /\ AdmissionNext /\ UNCHANGED <<subject, vars>>
SessionStep == subject = "session" /\ Next /\ UNCHANGED <<subject, admissionVars>>

ServerNext == AdmissionStep \/ SessionStep

\* Neither fairness asks anything of a component in its initial state.
ServerSpec ==
    /\ ServerInit /\ [][ServerNext]_<<subject, admissionVars, vars>>
    /\ AdmissionFairness /\ Fairness
=============================================================================
