---------------------------- MODULE MCLifecycle -----------------------------
(* Connector lifecycle, for model checking.                                *)
EXTENDS Lifecycle

CONSTANTS a, b, u

\* Two releases, and an image no manifest vouches for: it is not signed where a
\* signature is required, or its manifest is not valid.
MCManifests ==
    {[image |-> a, valid |-> TRUE, required |-> TRUE],
     [image |-> b, valid |-> TRUE, required |-> TRUE],
     [image |-> u, valid |-> TRUE, required |-> TRUE],
     [image |-> u, valid |-> FALSE, required |-> FALSE]}
=============================================================================
