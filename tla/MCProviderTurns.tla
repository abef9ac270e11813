-------------------------- MODULE MCProviderTurns --------------------------
(* The circumstances under which ProviderTurns is checked. *)
EXTENDS ProviderTurns

CONSTANTS h1, h2

(* One host thread, as in a CLI session; two, as in a gateway; and two with  *)
(* everything that can go wrong.                                             *)
Alone == [hosts |-> {h1}, slow |-> FALSE, interrupts |-> FALSE, orphans |-> FALSE,
          bound |-> 7]
Shared == [hosts |-> {h1, h2}, slow |-> FALSE, interrupts |-> FALSE, orphans |-> FALSE,
           bound |-> 4]
Disturbed == [hosts |-> {h1, h2}, slow |-> TRUE, interrupts |-> TRUE, orphans |-> TRUE,
              bound |-> 4]

BothHosts == {h1, h2}
AllSettings == {Alone, Shared, Disturbed}
=============================================================================
