---------------------------- MODULE MCChannels ----------------------------
EXTENDS Channels

CONSTANTS logs, exec, shell

(* A view of each kind; two, where the third would only multiply states. *)
KindOf == [v \in Views |-> CASE v = logs -> "logs" [] v = exec -> "exec"
                             [] OTHER -> "local-shell"]
=============================================================================
