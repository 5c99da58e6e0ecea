----------------------------- MODULE MCReconnect -----------------------------
(* Small instances of Reconnect for TLC.                                    *)
EXTENDS Reconnect, TLC

CONSTANTS w1, w2, w3

MCWork == {w1, w2, w3}
Symmetry == Permutations(MCWork)

\* The default time zone of dbConnect(), and the server's own.
MCArguments == {[timezone |-> tz, timezone_out |-> NULL, bigint |-> "integer64"] :
                  tz \in {"+00:00", NULL}}
MCServerZones == {"+00:00", "SYSTEM"}
MCRZones == {"UTC"}
MCDefaultZones == {"SYSTEM"}

=============================================================================
