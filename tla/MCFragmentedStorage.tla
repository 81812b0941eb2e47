------------------------- MODULE MCFragmentedStorage -------------------------
(***************************************************************************)
(* Small instances of FragmentedStorage: two live reads and a teardown, or  *)
(* a live read and two teardowns. One of the four actors never begins.      *)
(***************************************************************************)
EXTENDS FragmentedStorage, TLC

CONSTANT Spares

VARIABLE spare

MCInit == Init /\ spare \in Spares

MCNext == Next /\ at'[spare] = "idle" /\ UNCHANGED spare

MCSpec == MCInit /\ [][MCNext]_<<vars, spare>> /\ Fairness

===============================================================================
