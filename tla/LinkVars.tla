------------------------------ MODULE LinkVars ------------------------------
(***************************************************************************)
(* The variables of MCLinks: each behaviour is of one component.           *)
(***************************************************************************)

VARIABLES part,  \* the component whose behaviour this is
          \* its variables, as the INSTANCE lists them
          v1, v2, v3, v4, v5, v6, v7, v8, v9, v10, v11, v12

vars == <<part, v1, v2, v3, v4, v5, v6, v7, v8, v9, v10, v11, v12>>
=============================================================================
