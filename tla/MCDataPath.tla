----------------------------- MODULE MCDataPath -----------------------------
(* DataPath for TLC: goroutines of one end that do the same are            *)
(* interchangeable, and so are the packets read at one end.                *)
EXTENDS DataPath, TLC

Symmetry ==
    Permutations(ClientSender) \cup Permutations(ServerReceiver) \cup Permutations(UpPacket)

=============================================================================
