---------------------------- MODULE MCTableWrite ----------------------------
(* Small instances of TableWrite for TLC: the calls that differ.            *)
EXTENDS TableWrite

\* Only where rows are counted does it matter whether reads are repeatable.
WriteCalls == {c \in Call : c.fun = "write" /\ c.safe /\ (c.load \/ c.repeatable)}
FileCalls == {c \in Call : c.fun = "file" /\ c.safe /\ c.load /\ c.repeatable /\ c.n = N}
AppendCalls == {c \in Call : c.fun = "append" /\ ~c.temporary /\ ~c.overwrite /\ ~c.append
                                             /\ ((c.load /\ c.safe) \/ c.repeatable)}
AllCalls == WriteCalls \cup FileCalls \cup AppendCalls

=============================================================================
