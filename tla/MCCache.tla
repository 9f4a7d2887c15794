------------------------------- MODULE MCCache -------------------------------
EXTENDS Cache
MCFiles == << "a", "b" >>
=============================================================================
