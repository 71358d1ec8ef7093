--------------------------- MODULE MCPoolExchange ---------------------------
(* Small pools for PoolExchange. *)
EXTENDS PoolExchange, TLC

Server(reply, after, cold) == [reply |-> reply, after |-> after, cold |-> cold]

\* Prompt and slow, cold and warm, failing and silent.
SomeServers ==
    {Server("through", 1, FALSE), Server("negative", 2, TRUE),
     Server("soft", 1, FALSE), Server("error", 1, FALSE),
     Server("silence", 1, TRUE)}

CallSymmetry == Permutations(Calls)

OneDead == {Server("through", 1, FALSE), Server("silence", 1, FALSE)}
=============================================================================
