---------------------------- MODULE MCVolumeIndex ---------------------------
(* VolumeIndex for TLC: paths that share two nibbles, one or none, one whose *)
(* hash is that of another, and two that are refused.                        *)
EXTENDS VolumeIndex

MCForm == [p \in Paths |-> CASE p = "long" -> "long" [] p = "malformed" -> "malformed"
                             [] OTHER -> "good"]
MCHash == [p \in Paths |-> CASE p = "a" -> <<0, 0, 0>> [] p = "b" -> <<0, 0, 1>>
                             [] p = "c" -> <<0, 1, 0>> [] p = "d" -> <<1, 0, 0>>
                             [] OTHER -> <<0, 0, 1>>]

=============================================================================
