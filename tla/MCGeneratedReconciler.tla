----------------------- MODULE MCGeneratedReconciler -----------------------
(* GeneratedReconciler for TLC.                                            *)
EXTENDS GeneratedReconciler

(* One that implements everything and returns anything, and one with a     *)
(* finalizer whose errors are tried again.                                 *)
Kinds ==
    {[implements |-> Interfaces, answers |-> Events],
     [implements |-> {"Finalizer"}, answers |-> {"normal", "wrapped warning"}]}

=============================================================================
