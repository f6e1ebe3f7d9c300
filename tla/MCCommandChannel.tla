-------------------------- MODULE MCCommandChannel --------------------------
(* Two clients, two ports, sessions of a ping and one command.            *)
EXTENDS CommandChannel, TLC

CONSTANTS c1, c2, p1, p2

MCClients == {c1, c2}
MCEndpoints == {p1, p2}
MCSequenceNumbers == 0 .. SeqSpace - 1
MCPayloads == (1 .. MaxSessions) \X (0 .. MaxSent)

Symmetry == Permutations(MCClients) \cup Permutations(MCEndpoints)

=============================================================================
