------------------------------ MODULE MCPlugins ------------------------------
(* The plugin host, or one of its plugins, which polls a mailbox and shares no  *)
(* state with the host but the end of its context: a behaviour is one of        *)
(* either.                                                                      *)
EXTENDS MCPluginLifecycle, MailChannel

VARIABLE part

(* A mailbox for which nothing is to be done, so that its fairness asks nothing. *)
HostInit == Init /\ MailboxAt(FALSE, 0) /\ part = "host" /\ ~grant /\ ~account.mailbox

MailboxInit ==
  /\ Init /\ MailInit /\ part = "mailbox"
  /\ stored = {} /\ \A t \in Toggle : tasks[t] = Done

PluginsNext ==
  \/ part = "host" /\ Next /\ UNCHANGED <<part, mailVars>>
  \/ part = "mailbox" /\ MailNext /\ UNCHANGED <<part, vars>>

PluginsSpec ==
  /\ HostInit \/ MailboxInit
  /\ [][PluginsNext]_<<part, vars, mailVars>>
  /\ Fairness /\ MailFairness
==============================================================================
