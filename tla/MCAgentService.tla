--------------------------- MODULE MCAgentService ---------------------------
EXTENDS AgentService

\* The options before the subcommand, as argparse takes them.
MCAccepted == <<"main_option", "command">>
=============================================================================
