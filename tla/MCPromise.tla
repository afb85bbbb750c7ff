----------------------------- MODULE MCPromise -----------------------------
(* Instances of Promise for TLC.                                           *)
EXTENDS Promise

CONSTANTS undef, terr, evil, alien

MCPlain    == {undef, terr}
MCThrowing == {evil}
MCForeign  == {alien}

\* everything a script may pass, self-resolution and both odd objects included
AllValues   == {undef, evil, alien} \cup Promises
PlainValues == {undef}
LoopValues  == {undef, alien, 1, 2}
FinallyValues == {undef, 3}
SelfValues == {undef, 1}

AllHandlers    == {<<Js, None>>, <<None, Js>>, <<Finally, Finally>>}
LoopHandlers   == {<<Js, None>>, <<Finally, Finally>>}
SimpleHandlers == {<<Js, Js>>}
FinallyOnly    == {<<Finally, Finally>>}
=============================================================================
