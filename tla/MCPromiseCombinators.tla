------------------------ MODULE MCPromiseCombinators ------------------------
(* One thread, two promises of the script's and their combinators.          *)
EXTENDS PromiseCombinators

CONSTANTS undef, terr, alien, x, array, errors

MCPlain   == {undef, terr, x, array, errors}
MCForeign == {alien}
MCKinds   == {"all", "race", "allSettled", "any"}
MCElementValues == {1, 2, x, alien}
=============================================================================
