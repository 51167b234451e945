----------------------------- MODULE MCIrcClient ----------------------------
\* An instance of IrcClient: one of the commands that the page answers, those
\* that change its lists, and one that throws.
EXTENDS IrcClient

MCCommands == {"JOIN_self", "JOIN", "QUIT"}
=============================================================================
