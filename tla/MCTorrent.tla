------------------------------- MODULE MCTorrent -------------------------------
EXTENDS TorrentHandler, TLC

Symmetry == Permutations(Slots) \cup Permutations(Addresses)
===============================================================================
