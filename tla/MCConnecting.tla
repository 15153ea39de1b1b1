---------------------------- MODULE MCConnecting ----------------------------
EXTENDS Connecting

\* Two files, one of them empty; two files of one name; a directory that is
\* shared, alone or with the file in it; a directory that is empty.
MCTrees ==
  {[has |-> <<1, 3>> :> 2 @@ <<1, 4>> :> 0, dirs |-> {<<1>>}, shared |-> <<<<1, 3>>, <<1, 4>>>>],
   [has |-> <<1, 3>> :> 1 @@ <<2, 3>> :> 1, dirs |-> {<<1>>, <<2>>},
    shared |-> <<<<1, 3>>, <<2, 3>>>>],
   [has |-> <<1, 3>> :> 1, dirs |-> {<<1>>}, shared |-> <<<<1>>>>],
   [has |-> <<1, 3>> :> 1 @@ <<1, 2>> :> 1, dirs |-> {<<1>>}, shared |-> <<<<1>>, <<1, 3>>, <<1, 2>>>>],
   [has |-> <<1, 0>> :> 1, dirs |-> {<<1>>, <<1, 2>>}, shared |-> <<<<1>>>>]}
MCHidden == {0}
=============================================================================
