--------------------------- MODULE MCMaintenance ---------------------------
(* Instance of Maintenance: the options of down and the requests.          *)
EXTENDS Maintenance

Option(retry, redirect, secret, withSecret) ==
    [retry |-> retry, redirect |-> redirect, secret |-> secret, withSecret |-> withSecret]

\* A shared store keeps a redirect that is too large for the file.
MCDownOptions ==
    { Option(15, "", "key", FALSE), Option(0, "oversized", "", TRUE),
      Option(31, "", "", FALSE), Option(0, "", "key", TRUE) }

MCInputs ==
    { [path |-> p, get |-> TRUE, cookie |-> c, large |-> FALSE] :
          p \in {"/", "oversized", "key"}, c \in {"", "key"} }
        \cup { [path |-> "/", get |-> TRUE, cookie |-> "", large |-> TRUE],
               [path |-> "key", get |-> FALSE, cookie |-> "", large |-> FALSE] }

=============================================================================
