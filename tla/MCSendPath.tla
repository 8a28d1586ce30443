----------------------------- MODULE MCSendPath -----------------------------
(* Data to one slow client, from several threads of the executor. *)
EXTENDS SendPath, TLC

\* Threads run the same code; channels and ids are only compared.
Symmetry == Permutations(Threads) \union Permutations(ChannelIds)
              \union Permutations(SubIds)
=============================================================================
