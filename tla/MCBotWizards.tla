---------------------------- MODULE MCBotWizards ----------------------------
EXTENDS BotWizards
=============================================================================
