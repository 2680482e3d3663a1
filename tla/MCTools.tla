------------------------------ MODULE MCTools ------------------------------
(* The small components side by side: a behaviour is one of them alone, the others stay in
   one of their initial states. *)
EXTENDS Queue, Socks5, TorProcess, TextWidgets, Helpers

VARIABLE tool

Layout(fields) == [i \in DOMAIN fields |-> [type |-> fields[i][1], size |-> fields[i][2]]]
MCLayouts == {Layout(<< <<"percent", 100>> >>),
              Layout(<< <<"percent", 30>>, <<"percent", 70>>, <<"fixed", 2>> >>),
              Layout(<< <<"percent", 30>>, <<"fixed", 1>>, <<"percent", 70>> >>)}
MCLengths == 0..40
MCGarbage == {-1, 0, 9}

Alone(name, init, default) == IF tool = name THEN init ELSE default

MCInit ==
  /\ tool \in {"queue", "socks", "tor", "prompt", "logger", "helpers"}
  /\ QInit /\ Alone("queue", TRUE, data = [n \in Nodes |-> CHOOSE d \in Data : TRUE])
  /\ SocksInit /\ Alone("socks", TRUE, proxy = CHOOSE a \in Answers : TRUE)
  /\ TorInit /\ Alone("tor", TRUE, mode = [mailbox |-> FALSE, manual |-> TRUE])
  /\ WidgetsInit
  /\ Alone("prompt", TRUE, /\ chCursor = 0 /\ displayStart = 0 /\ bufferLen = 0
                           /\ width = CHOOSE w \in Widths : TRUE)
  /\ Alone("logger", TRUE, /\ cols = CHOOSE c \in Cols : TRUE
                           /\ winRows = CHOOSE r \in Rows : TRUE
                           /\ attached = TRUE)
  /\ HelpersInit
  /\ Alone("helpers", TRUE, input = [kind |-> "array", length |-> 0, wanted |-> 0])

MCNext ==
  \/ tool = "queue" /\ QNext /\ UNCHANGED <<tool, svars, tvars, wvars, hvars>>
  \/ tool = "socks" /\ SocksNext /\ UNCHANGED <<tool, vars, tvars, wvars, hvars>>
  \/ tool = "tor" /\ TorNext /\ UNCHANGED <<tool, vars, svars, wvars, hvars>>
  \/ tool = "prompt" /\ PromptNext /\ UNCHANGED <<tool, vars, svars, tvars, hvars>>
  \/ tool = "logger" /\ LoggerNext /\ UNCHANGED <<tool, vars, svars, tvars, hvars>>
  \/ tool = "helpers" /\ HelpersNext /\ UNCHANGED <<tool, vars, svars, tvars, wvars>>

MCSpec == MCInit /\ [][MCNext]_<<tool, vars, svars, tvars, wvars, hvars>>
=============================================================================
